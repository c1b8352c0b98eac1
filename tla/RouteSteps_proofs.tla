-------------------------- MODULE RouteSteps_proofs --------------------------
(***************************************************************************)
(* What holds of routes, for every set of chains, linked in any way.  The  *)
(* first part is about the server, RouteFinding: the index, where every    *)
(* token comes from, the search, the answers, the journey an answer takes  *)
(* and what becomes of the token on it.  The second is about the client,   *)
(* RouteSteps, that makes transactions of an answer: with its server it    *)
(* refines the server alone, every step takes the next legs of the         *)
(* answer's journey, and the token is always where the steps that were     *)
(* done have brought it.                                                   *)
(***************************************************************************)
EXTENDS RouteSteps, FunctionTheorems, SequenceTheorems, FiniteSetTheorems, TLAPS

(***************************************************************************)
(* Denominations, on one route.                                            *)
(***************************************************************************)

\* A native token gains one layer on its way to a neighbour: the hash that the
\* config manager computes is the one ICS-20 makes.
LEMMA NativeArrives ==
  ASSUME NEW b, NEW from, NEW to
  PROVE  Arrives(from, to, Native(b)) = ComputeIBCDenom(<<to, from>>, Native(b))
<1> DEFINE e == <<to, from>>
<1>1. Trace(Native(b)) = << >>
  BY DEF Trace, Native
<1>2. ~Unwinds(from, to, Native(b))
  BY <1>1 DEF Unwinds
<1>3. <<e>> \o << >> = <<e>> /\ <<e>> # << >>
  OBVIOUS
<1>4. Arrives(from, to, Native(b)) = [base |-> b, layers |-> <<<<e>>>>]
  BY <1>1, <1>2, <1>3 DEF Arrives, Native
<1>5. <<<<e>>>> \o << >> = <<<<e>>>>
  OBVIOUS
<1>6. ComputeIBCDenom(e, Native(b)) = [base |-> b, layers |-> <<<<e>>>>]
  BY <1>5 DEF ComputeIBCDenom, Native
<1>. QED
  BY <1>4, <1>6

\* On its way back it loses that layer.
LEMMA WrappedUnwinds ==
  ASSUME NEW b, NEW from, NEW to
  PROVE  Arrives(from, to, ComputeIBCDenom(<<from, to>>, Native(b))) = Native(b)
<1> DEFINE e == <<from, to>>
           d == ComputeIBCDenom(e, Native(b))
<1>1. <<<<e>>>> \o << >> = <<<<e>>>>
  OBVIOUS
<1>2. d.layers = <<<<e>>>> /\ d.base = b
  BY <1>1 DEF ComputeIBCDenom, Native
<1>3. <<<<e>>>> # << >> /\ Head(<<<<e>>>>) = <<e>> /\ <<e>> # << >> /\ Head(<<e>>) = e /\ Tail(<<e>>) = << >>
  OBVIOUS
<1>4. Trace(d) = <<e>>
  BY <1>2, <1>3 DEF Trace
<1>5. Unwinds(from, to, d)
  BY <1>3, <1>4 DEF Unwinds
<1>6. Arrives(from, to, d) = [base |-> b, layers |-> << >>]
  BY <1>2, <1>3, <1>4, <1>5 DEF Arrives
<1>. QED
  BY <1>6 DEF Native

\* Which parts of buildAllowedTokensForRoute a token can come from.
LEMMA AllowedAreSentOrUnwound ==
  ASSUME NEW n, NativesOnly(n), NEW from \in Chains, NEW to \in Chains
  PROVE  /\ Outgoing(n, from, to) \subseteq BuildAllowedTokensForRoute(n, from, to)
         /\ BuildAllowedTokensForRoute(n, from, to) \subseteq Outgoing(n, from, to) \cup Unwinding(n, from, to)
         /\ Unseen(Unwinding(n, from, to), Outgoing(n, from, to)) \subseteq BuildAllowedTokensForRoute(n, from, to)
<1>1. Forwarded(n, from, to) = {}
  BY DEF Forwarded, NativesOnly
<1>. QED
  BY <1>1 DEF BuildAllowedTokensForRoute, Unseen

\* Every token of a route has, on the other side, the denomination ICS-20 gives it.
LEMMA AllowedTokensArrive ==
  ASSUME NEW n \in Networks, NativesOnly(n), NEW from \in Chains, NEW to \in Chains,
         NEW t \in BuildAllowedTokensForRoute(n, from, to)
  PROVE  t.ibcDenom = Arrives(from, to, t.chainDenom)
<1>1. CASE t \in Outgoing(n, from, to)
  <2>1. PICK x \in NativeTokens(n, from) :
          t = RouteToken(x.denom, ComputeIBCDenom(<<to, from>>, x.denom), x.denom, from)
    BY <1>1 DEF Outgoing
  <2>2. x.denom = Native(x.denom.base)
    BY NetworksAssumption DEF WellFormed
  <2>3. t.chainDenom = x.denom /\ t.ibcDenom = ComputeIBCDenom(<<to, from>>, x.denom)
    BY <2>1 DEF RouteToken
  <2>. QED
    BY <2>2, <2>3, NativeArrives
<1>2. CASE t \in Unwinding(n, from, to)
  <2>1. PICK x \in NativeTokens(n, to) :
          t = RouteToken(ComputeIBCDenom(<<from, to>>, x.denom), x.denom, x.denom, to)
    BY <1>2 DEF Unwinding
  <2>2. x.denom = Native(x.denom.base)
    BY NetworksAssumption DEF WellFormed
  <2>3. t.chainDenom = ComputeIBCDenom(<<from, to>>, x.denom) /\ t.ibcDenom = x.denom
    BY <2>1 DEF RouteToken
  <2>. QED
    BY <2>2, <2>3, WrappedUnwinds
<1>. QED
  BY <1>1, <1>2, AllowedAreSentOrUnwound

(***************************************************************************)
(* The index is the one built from the configuration, once it is there.    *)
(***************************************************************************)
IndexInv ==
  /\ network \in Networks
  /\ index \in {NoIndex, BuildIndex(network)}

THEOREM IndexIsBuilt == Spec => []IndexInv
<1>1. Init => IndexInv
  BY DEF Init, IndexInv
<1>2. IndexInv /\ [Next]_vars => IndexInv'
  <2>. SUFFICES ASSUME IndexInv, [Next]_vars PROVE IndexInv'
    OBVIOUS
  <2>. USE DEF IndexInv
  <2>1. CASE Load
    BY <2>1 DEF Load
  <2>2. CASE Ask
    BY <2>2 DEF Ask
  <2>3. CASE Find
    BY <2>3 DEF Find, AnswerDirect, NoDirectRoute, Explore, AnswerIndirect, NoIndirectRoute,
                ChooseBrokerRoute, NoRoute, SwapQuoted, SwapRefused
  <2>4. CASE UNCHANGED vars
    BY <2>4 DEF vars
  <2>. QED
    BY <2>1, <2>2, <2>3, <2>4 DEF Next
<1>. QED
  BY <1>1, <1>2, PTL DEF Spec

\* A route of the index is one of the routes built for the configuration.
LEMMA IndexedRoutes ==
  ASSUME IndexInv, NEW c \in Chains, NEW to \in DOMAIN index.routes[c]
  PROVE  /\ to \in BuildRoutesForChain(network, c)
         /\ index.routes[c][to] = BuildAllowedTokensForRoute(network, c, to)
         /\ index = BuildIndex(network)
<1>1. CASE index = NoIndex
  <2>1. index.routes[c] = << >>
    BY <1>1 DEF NoIndex
  <2>2. DOMAIN << >> = {}
    OBVIOUS
  <2>. QED
    BY <2>1, <2>2
<1>2. CASE index = BuildIndex(network)
  BY <1>2 DEF BuildIndex
<1>. QED
  BY <1>1, <1>2 DEF IndexInv

\* In every configuration without forwarded tokens, and however the chains are
\* linked, the index tells the denomination in which a token arrives.
THEOREM TokensArrive ==
  ASSUME \A n \in Networks : NativesOnly(n)
  PROVE  Spec => []IndexedTokensArrive
<1>1. IndexInv => IndexedTokensArrive
  <2>. SUFFICES ASSUME IndexInv,
                       NEW c \in Chains, NEW to \in DOMAIN index.routes[c], NEW t \in index.routes[c][to]
                PROVE  t.ibcDenom = Arrives(c, to, t.chainDenom)
    BY DEF IndexedTokensArrive
  <2>1. to \in Chains /\ t \in BuildAllowedTokensForRoute(network, c, to)
    BY IndexedRoutes DEF BuildRoutesForChain
  <2>2. network \in Networks /\ NativesOnly(network)
    BY DEF IndexInv
  <2>. QED
    BY <2>1, <2>2, AllowedTokensArrive
<1>. QED
  BY <1>1, IndexIsBuilt, PTL

\* The tokens allowed between two chains are those built for a route, which is
\* there when the first chain is configured and the two are linked.
LEMMA AllowedFacts ==
  ASSUME IndexInv, NEW c \in Chains, NEW to, NEW t \in AllowedTokens(c, to)
  PROVE  /\ index = BuildIndex(network)
         /\ c \in network.built /\ to \in Chains /\ to # c /\ Channel(network, c, to)
         /\ t \in BuildAllowedTokensForRoute(network, c, to)
<1>1. to \in DOMAIN index.routes[c] /\ t \in index.routes[c][to]
  BY DEF AllowedTokens
<1>. QED
  BY <1>1, IndexedRoutes DEF BuildRoutesForChain

LEMMA AllowedAreBuilt ==
  ASSUME index = BuildIndex(network), NEW c \in Chains, c \in network.built,
         NEW to \in Chains, to # c, Channel(network, c, to)
  PROVE  AllowedTokens(c, to) = BuildAllowedTokensForRoute(network, c, to)
<1>1. to \in BuildRoutesForChain(network, c)
  BY DEF BuildRoutesForChain
<1>2. index.routes[c] = [x \in BuildRoutesForChain(network, c) |-> BuildAllowedTokensForRoute(network, c, x)]
  BY DEF BuildIndex
<1>. QED
  BY <1>1, <1>2 DEF AllowedTokens

(***************************************************************************)
(* Tokens come back.                                                       *)
(***************************************************************************)

\* No chain lists a token of its own among the IBC tokens it forwards.
OwnAreNative(n) == \A c \in Chains : \A t \in RoutableTokens(n, c) : t.originChain # c

\* A chain's own tokens leave it as native tokens only.
LEMMA OwnAreSent ==
  ASSUME NEW n \in Networks, OwnAreNative(n), NEW from \in Chains, NEW to \in Chains, from # to,
         NEW t \in BuildAllowedTokensForRoute(n, from, to), t.originChain = from
  PROVE  t \in Outgoing(n, from, to)
<1>1. t \in Outgoing(n, from, to) \cup Unwinding(n, from, to) \cup Forwarded(n, from, to)
  BY DEF BuildAllowedTokensForRoute, Unseen
<1>2. t \notin Unwinding(n, from, to)
  BY DEF Unwinding, RouteToken
<1>3. t \notin Forwarded(n, from, to)
  BY DEF Forwarded, RouteToken, OwnAreNative
<1>. QED
  BY <1>1, <1>2, <1>3

\* What a chain sends its neighbour, the neighbour may send back.
LEMMA SentMayReturn ==
  ASSUME NEW n \in Networks, NEW c \in Chains, NEW to \in Chains, NEW t \in Outgoing(n, c, to)
  PROVE  \E u \in BuildAllowedTokensForRoute(n, to, c) : u.chainDenom = t.ibcDenom /\ u.ibcDenom = t.chainDenom
<1>1. PICK x \in NativeTokens(n, c) :
        /\ IsTokenAllowedToChain(x, to)
        /\ t = RouteToken(x.denom, ComputeIBCDenom(<<to, c>>, x.denom), x.denom, c)
  BY DEF Outgoing
<1> DEFINE u == RouteToken(ComputeIBCDenom(<<to, c>>, x.denom), x.denom, x.denom, c)
<1>2. u \in Unwinding(n, to, c)
  BY <1>1 DEF Unwinding
<1>3. u.chainDenom = t.ibcDenom /\ u.ibcDenom = t.chainDenom
  BY <1>1 DEF RouteToken
<1>4. u \in Unseen(Unwinding(n, to, c), Outgoing(n, to, c))
  <2>. SUFFICES ASSUME NEW s \in Outgoing(n, to, c), s.chainDenom = u.chainDenom
                PROVE  FALSE
    BY <1>2 DEF Unseen
  <2>1. PICK y \in NativeTokens(n, to) : s.chainDenom = y.denom
    BY DEF Outgoing, RouteToken
  <2>2. y.denom = Native(y.denom.base)
    BY NetworksAssumption DEF WellFormed
  <2>3. s.chainDenom.layers = << >>
    BY <2>1, <2>2 DEF Native
  <2>4. x.denom = Native(x.denom.base)
    BY NetworksAssumption DEF WellFormed
  <2>5. x.denom.layers = << >>
    BY <2>4 DEF Native
  <2>6. \A e : <<<<e>>>> \o << >> # << >>
    OBVIOUS
  <2>7. u.chainDenom.layers = <<<<<<to, c>>>>>> \o << >>
    BY <2>5 DEF RouteToken, ComputeIBCDenom
  <2>. QED
    BY <2>3, <2>6, <2>7
<1>. QED
  BY <1>3, <1>4 DEF BuildAllowedTokensForRoute

\* However the chains are linked and whatever is restricted, a token that may
\* leave its chain may come back from where it arrived, unless a configuration
\* lists a token as an IBC token on its own chain.
THEOREM TokensComeBack ==
  ASSUME \A n \in Networks : OwnAreNative(n)
  PROVE  Spec => []TokensReturnHome
<1>1. IndexInv => TokensReturnHome
  <2>. SUFFICES ASSUME IndexInv, NEW c \in network.built, NEW to \in network.built,
                       NEW t \in AllowedTokens(c, to), t.originChain = c
                PROVE  \E u \in AllowedTokens(to, c) : u.chainDenom = t.ibcDenom /\ u.ibcDenom = t.chainDenom
    BY DEF TokensReturnHome
  <2>1. network \in Networks /\ c \in Chains /\ to \in Chains
    BY NetworksAssumption DEF IndexInv, WellFormed
  <2>2. /\ index = BuildIndex(network) /\ to # c /\ Channel(network, c, to)
        /\ t \in BuildAllowedTokensForRoute(network, c, to)
    BY <2>1, AllowedFacts
  <2>3. t \in Outgoing(network, c, to)
    BY <2>1, <2>2, OwnAreSent
  <2>4. Channel(network, to, c)
    BY <2>2 DEF Channel
  <2>5. AllowedTokens(to, c) = BuildAllowedTokensForRoute(network, to, c)
    BY <2>1, <2>2, <2>4, AllowedAreBuilt
  <2>. QED
    BY <2>1, <2>3, <2>5, SentMayReturn
<1>. QED
  BY <1>1, IndexIsBuilt, PTL

(***************************************************************************)
(* Sequences.                                                              *)
(***************************************************************************)
IsSeq(s) == s \in Seq(Range(s))

LEMMA SeqFacts ==
  ASSUME NEW S, NEW s \in Seq(S)
  PROVE  IsSeq(s) /\ Len(s) \in Nat /\ DOMAIN s = 1..Len(s) /\ (s = << >> <=> Len(s) = 0)
<1>1. IsSeq(s)
  BY SeqOfRange DEF IsSeq
<1>2. Len(s) \in Nat /\ DOMAIN s = 1..Len(s)
  BY LenProperties
<1>3. s = << >> <=> Len(s) = 0
  BY EmptySeq
<1>. QED
  BY <1>1, <1>2, <1>3

LEMMA FunctionIsSeq ==
  ASSUME NEW n \in Nat, NEW S, NEW f \in [1..n -> S]
  PROVE  f \in Seq(S) /\ IsSeq(f) /\ Len(f) = n
<1>1. f \in Seq(S)
  BY SeqDef
<1>2. DOMAIN f = 1..n /\ DOMAIN f = 1..Len(f) /\ Len(f) \in Nat
  BY <1>1, LenProperties
<1>3. Len(f) = n
  BY <1>2
<1>. QED
  BY <1>1, <1>3, SeqFacts

LEMMA ConcatFacts ==
  ASSUME NEW s, NEW t, IsSeq(s), IsSeq(t)
  PROVE  IsSeq(s \o t) /\ Len(s \o t) = Len(s) + Len(t) /\ Range(s \o t) = Range(s) \cup Range(t)
<1> DEFINE S == Range(s) \cup Range(t)
<1>1. s \in Seq(S) /\ t \in Seq(S)
  BY SeqMonotonic DEF IsSeq
<1>2. s \o t \in Seq(S) /\ Len(s \o t) = Len(s) + Len(t)
  BY <1>1, ConcatProperties
<1>3. Range(s \o t) = Range(s) \cup Range(t)
  BY <1>1, RangeConcatenation
<1>. QED
  BY <1>2, <1>3, SeqFacts

LEMMA EmptyFacts == IsSeq(<< >>) /\ Len(<< >>) = 0 /\ Range(<< >>) = {}
BY EmptySeq DEF IsSeq, Range

LEMMA SingletonFacts ==
  ASSUME NEW x
  PROVE  IsSeq(<<x>>) /\ Len(<<x>>) = 1 /\ Range(<<x>>) = {x} /\ <<x>>[1] = x /\ <<x>> # << >>
BY DEF IsSeq, Range

(***************************************************************************)
(* Without forwarded tokens a denomination tells the token's origin.       *)
(***************************************************************************)
IsBase(d) == d = Native(d.base)

\* What a token of chain origin is called on a chain: its own name at home, the
\* hash over the channel from home on a neighbour.
DenomOn(c, origin, d) == IF c = origin THEN d ELSE ComputeIBCDenom(<<c, origin>>, d)

LEMMA DenomsDiffer ==
  ASSUME NEW c, NEW o, NEW d, IsBase(d), NEW c2, NEW o2, NEW d2, IsBase(d2),
         DenomOn(c, o, d) = DenomOn(c2, o2, d2)
  PROVE  d = d2 /\ (c = o <=> c2 = o2) /\ (c # o => c = c2 /\ o = o2)
<1>1. d.layers = << >> /\ d2.layers = << >>
  BY DEF IsBase, Native
<1>2. \A e : <<<<e>>>> \o << >> = <<<<e>>>> /\ <<<<e>>>> # << >>
  OBVIOUS
<1>3. \A e : /\ ComputeIBCDenom(e, d).layers = <<<<e>>>> /\ ComputeIBCDenom(e, d).base = d.base
             /\ ComputeIBCDenom(e, d2).layers = <<<<e>>>> /\ ComputeIBCDenom(e, d2).base = d2.base
  BY <1>1, <1>2 DEF ComputeIBCDenom
<1>4. d.base = d2.base
  BY <1>3 DEF DenomOn
<1>5. d = d2
  BY <1>4 DEF IsBase
<1>6. c = o <=> c2 = o2
  BY <1>1, <1>2, <1>3 DEF DenomOn
<1>7. ASSUME c # o PROVE c = c2 /\ o = o2
  <2>1. <<<<<<c, o>>>>>> = <<<<<<c2, o2>>>>>>
    BY <1>3, <1>6, <1>7 DEF DenomOn
  <2>2. <<c, o>> = <<c2, o2>>
    <3>1. \A a, b : <<<<a>>>> = <<<<b>>>> => a = b
      OBVIOUS
    <3>. QED
      BY <2>1, <3>1
  <2>. QED
    BY <2>2
<1>. QED
  BY <1>5, <1>6, <1>7

\* On one chain, no two tokens share a denomination.
LEMMA DenomsIdentify ==
  ASSUME NEW c, NEW o, NEW d, IsBase(d), NEW o2, NEW d2, IsBase(d2), DenomOn(c, o, d) = DenomOn(c, o2, d2)
  PROVE  o = o2 /\ d = d2
BY DenomsDiffer

\* A token keeps its origin and its name on a hop from home or back home.
LEMMA DenomsTravel ==
  ASSUME NEW from, NEW to, NEW o, NEW d, IsBase(d), from # to, o \in {from, to}
  PROVE  Arrives(from, to, DenomOn(from, o, d)) = DenomOn(to, o, d)
<1>1. CASE o = from
  BY <1>1, NativeArrives DEF DenomOn, IsBase
<1>2. CASE o = to
  BY <1>2, WrappedUnwinds DEF DenomOn, IsBase
<1>. QED
  BY <1>1, <1>2

\* A token as it is described on a chain.
Known(t, c) == t.originChain \in Chains /\ IsBase(t.baseDenom) /\ t.chainDenom = DenomOn(c, t.originChain, t.baseDenom)

\* A token that may travel to a chain is at home on one of the two ends.
Sendable(t, c, to) ==
  /\ Known(t, c) /\ t.originChain \in {c, to} /\ c # to
  /\ t.ibcDenom = DenomOn(to, t.originChain, t.baseDenom)

LEMMA AllowedAreSendable ==
  ASSUME IndexInv, NativesOnly(network), NEW c \in Chains, NEW to, NEW t \in AllowedTokens(c, to)
  PROVE  to \in Chains /\ Sendable(t, c, to)
<1>1. /\ to \in Chains /\ to # c /\ network \in Networks
      /\ t \in BuildAllowedTokensForRoute(network, c, to)
  BY AllowedFacts DEF IndexInv
<1>2. CASE t \in Outgoing(network, c, to)
  <2>1. PICK x \in NativeTokens(network, c) :
          t = RouteToken(x.denom, ComputeIBCDenom(<<to, c>>, x.denom), x.denom, c)
    BY <1>2 DEF Outgoing
  <2>2. IsBase(x.denom)
    BY <1>1, NetworksAssumption DEF WellFormed, IsBase
  <2>. QED
    BY <1>1, <2>1, <2>2 DEF Sendable, Known, DenomOn, RouteToken
<1>3. CASE t \in Unwinding(network, c, to)
  <2>1. PICK x \in NativeTokens(network, to) :
          t = RouteToken(ComputeIBCDenom(<<c, to>>, x.denom), x.denom, x.denom, to)
    BY <1>3 DEF Unwinding
  <2>2. IsBase(x.denom)
    BY <1>1, NetworksAssumption DEF WellFormed, IsBase
  <2>. QED
    BY <1>1, <2>1, <2>2 DEF Sendable, Known, DenomOn, RouteToken
<1>. QED
  BY <1>1, <1>2, <1>3, AllowedAreSentOrUnwound

\* Of some chains, one has the last id.
LEMMA LastOfChains ==
  ASSUME NEW T, T \subseteq Chains, T # {}
  PROVE  \E m \in T : \A x \in T : x <= m
<1> DEFINE After(m) == {x \in T : x > m}
           F        == {After(m) : m \in T}
<1>1. F \subseteq FiniteSubsetsOf(Chains)
  <2>. SUFFICES ASSUME NEW m \in T PROVE After(m) \in SUBSET Chains /\ IsFiniteSet(After(m))
    BY DEF FiniteSubsetsOf
  <2>. QED
    BY ChainsAssumption, FS_Subset
<1>2. F # {}
  OBVIOUS
<1>3. IsWellFoundedOn(StrictSubsetOrdering(Chains), FiniteSubsetsOf(Chains))
  BY FS_StrictSubsetOrderingWellFounded
<1>. HIDE DEF F
<1>4. PICK a \in F : \A b \in F : <<b, a>> \notin StrictSubsetOrdering(Chains)
  BY <1>1, <1>2, <1>3, WFMin
<1>5. PICK m \in T : a = After(m)
  BY DEF F
<1>6. ASSUME NEW r \in T, r > m PROVE FALSE
  <2>1. m \in Nat /\ r \in Nat
    BY ChainsAssumption
  <2>2. After(r) \subseteq After(m) /\ r \in After(m) /\ r \notin After(r)
    <3>1. \A x \in T : x \in Nat
      BY ChainsAssumption
    <3>2. \A x \in T : x > r => x > m
      BY <1>6, <2>1, <3>1
    <3>3. ~(r > r)
      BY <2>1
    <3>. QED
      BY <1>6, <3>2, <3>3
  <2>3. <<After(r), After(m)>> \in StrictSubsetOrdering(Chains)
    BY <2>2 DEF StrictSubsetOrdering
  <2>. QED
    BY <1>4, <1>5, <2>3 DEF F
<1>. QED
  BY <1>6, ChainsAssumption

\* The index describes a chain's own tokens, and those allowed on its routes.
LEMMA DescribedAreKnown ==
  ASSUME IndexInv, NativesOnly(network), NEW c \in Chains, NEW t \in index.tokens[c]
  PROVE  /\ Known(t, c)
         /\ t.chainDenom \in UNION {Denoms(AllowedTokens(c, to)) : to \in Chains} =>
              \E to \in Chains : t \in AllowedTokens(c, to)
<1> DEFINE built   == BuildRoutesForChain(network, c)
           routes  == [to \in built |-> BuildAllowedTokensForRoute(network, c, to)]
           natives == {RouteToken(x.denom, NoDenom, x.denom, c) :
                         x \in {y \in NativeTokens(network, c) : c \in network.built}}
           described == UNION {{x \in routes[to] : \A r \in Later(routes, to) : x.chainDenom \notin Denoms(routes[r])} :
                                 to \in DOMAIN routes}
<1>1. index = BuildIndex(network) /\ network \in Networks
  BY DEF IndexInv, NoIndex
<1>2. index.tokens[c] = DenomToTokenInfo(routes, natives) /\ index.routes[c] = routes
  BY <1>1 DEF BuildIndex
<1>3. t \in described \cup Unseen(natives, described)
  BY <1>2 DEF DenomToTokenInfo
<1>4. DOMAIN routes = built /\ built \subseteq Chains /\ \A to \in built : routes[to] = AllowedTokens(c, to)
  BY <1>2 DEF BuildRoutesForChain, AllowedTokens
<1>5. \A to : to \notin built => AllowedTokens(c, to) = {}
  BY <1>2 DEF AllowedTokens
<1>. HIDE DEF routes, natives, built
<1>6. CASE t \in described
  <2>1. PICK to \in built : t \in AllowedTokens(c, to)
    BY <1>4, <1>6
  <2>2. Known(t, c)
    BY <2>1, AllowedAreSendable DEF Sendable
  <2>. QED
    BY <1>4, <2>1, <2>2
<1>7. CASE t \notin described
  <2>1. t \in natives /\ t \in Unseen(natives, described)
    BY <1>3, <1>7 DEF Unseen
  <2>2. PICK x \in NativeTokens(network, c) : t = RouteToken(x.denom, NoDenom, x.denom, c)
    BY <2>1 DEF natives
  <2>3. IsBase(x.denom)
    BY <1>1, NetworksAssumption DEF WellFormed, IsBase
  <2>4. Known(t, c)
    BY <2>2, <2>3 DEF Known, DenomOn, RouteToken
  <2>5. ASSUME NEW to \in Chains, t.chainDenom \in Denoms(AllowedTokens(c, to))
        PROVE  FALSE
    <3> DEFINE T == {r \in built : t.chainDenom \in Denoms(AllowedTokens(c, r))}
    <3>1. to \in T
      BY <1>5, <2>5 DEF Denoms
    <3>2. PICK m \in T : \A r \in T : r <= m
      BY <1>4, <3>1, LastOfChains
    <3>3. PICK s \in AllowedTokens(c, m) : s.chainDenom = t.chainDenom
      BY <3>2 DEF Denoms
    <3>4. \A r \in Later(routes, m) : s.chainDenom \notin Denoms(routes[r])
      <4>. SUFFICES ASSUME NEW r \in built, r > m, t.chainDenom \in Denoms(AllowedTokens(c, r)) PROVE FALSE
        BY <1>4, <3>3 DEF Later
      <4>. QED
        BY <1>4, <3>2, ChainsAssumption
    <3>5. s \in described
      BY <1>4, <3>2, <3>3, <3>4
    <3>. QED
      BY <2>1, <3>3, <3>5 DEF Unseen
  <2>. QED
    BY <2>4, <2>5
<1>. QED
  BY <1>6, <1>7

(***************************************************************************)
(* The requests.                                                           *)
(***************************************************************************)
Serving == pc \in {"direct", "search", "broker", "query", "answered"}

\* The server serves with the index it built, and a request names two configured
\* chains and, on each, a denomination that the index describes.
RequestInv ==
  /\ pc \in PCs
  /\ pc # "off" => index = BuildIndex(network)
  /\ Serving => /\ request.from \in network.built /\ request.to \in network.built
                /\ Info(request.from, request.tokenIn) # {}
                /\ Info(request.to, request.tokenOut) # {}

LEMMA RequestsAreServed == Spec => []RequestInv
<1>1. Init => RequestInv
  BY DEF Init, RequestInv, PCs, Serving
<1>2. IndexInv /\ RequestInv /\ [Next]_vars => RequestInv'
  <2>. SUFFICES ASSUME IndexInv, RequestInv, [Next]_vars PROVE RequestInv'
    OBVIOUS
  <2>1. CASE Load
    BY <2>1 DEF Load, RequestInv, PCs, Serving
  <2>2. CASE Ask
    <3>1. PICK from \in network.built, to \in network.built :
            \E source \in index.tokens[from], inferred \in BOOLEAN :
              \E out \in IF inferred THEN InferTokenToDenom(source, to) ELSE index.tokens[to] :
                request' = [from |-> from, to |-> to, tokenIn |-> source.chainDenom,
                            tokenOut |-> out.chainDenom, inferred |-> inferred]
      BY <2>2 DEF Ask
    <3>2. PICK source \in index.tokens[from], out \in index.tokens[to], inferred \in BOOLEAN :
            request' = [from |-> from, to |-> to, tokenIn |-> source.chainDenom,
                        tokenOut |-> out.chainDenom, inferred |-> inferred]
      BY <3>1 DEF InferTokenToDenom, FindTokenByOrigin
    <3>3. /\ request'.from = from /\ request'.to = to
          /\ request'.tokenIn = source.chainDenom /\ request'.tokenOut = out.chainDenom
      BY <3>2
    <3>4. index' = index /\ network' = network /\ pc # "off" /\ pc' = "direct"
      BY <2>2 DEF Ask
    <3>. QED
      BY <3>2, <3>3, <3>4 DEF RequestInv, PCs, Serving, Info
  <2>3. CASE Find
    <3>1. /\ pc \in PCs \ {"off"} /\ pc' \in PCs \ {"off"} /\ Serving
          /\ UNCHANGED <<network, index, request>>
      BY <2>3 DEF Find, AnswerDirect, NoDirectRoute, Explore, AnswerIndirect, NoIndirectRoute,
                  ChooseBrokerRoute, NoRoute, SwapQuoted, SwapRefused, PCs, Serving
    <3>. QED
      BY <3>1 DEF RequestInv, Info
  <2>4. CASE UNCHANGED vars
    BY <2>4 DEF vars, RequestInv, Serving, Info
  <2>. QED
    BY <2>1, <2>2, <2>3, <2>4 DEF Next
<1>. QED
  BY <1>1, <1>2, IndexIsBuilt, PTL DEF Spec

\* The index describes denominations of configured chains only.
LEMMA DescribedChains ==
  ASSUME RequestInv, pc # "off", NEW c \in Chains, index.tokens[c] # {}
  PROVE  c \in network.built
<1>. SUFFICES ASSUME c \notin network.built PROVE index.tokens[c] = {}
  OBVIOUS
<1> DEFINE routes  == [to \in BuildRoutesForChain(network, c) |-> BuildAllowedTokensForRoute(network, c, to)]
           natives == {RouteToken(t.denom, NoDenom, t.denom, c) :
                         t \in {x \in NativeTokens(network, c) : c \in network.built}}
<1>1. index.tokens[c] = DenomToTokenInfo(routes, natives)
  BY DEF RequestInv, BuildIndex
<1>2. DOMAIN routes = {} /\ natives = {}
  BY DEF BuildRoutesForChain
<1>. HIDE DEF routes, natives
<1>. QED
  BY <1>1, <1>2 DEF DenomToTokenInfo, Unseen

LEMMA ConfiguredAreChains == IndexInv => network.built \subseteq Chains
BY NetworksAssumption DEF IndexInv, WellFormed

(***************************************************************************)
(* The paths of the search.                                                *)
(***************************************************************************)
Paths == Seq(Chains) \ {<< >>}

LEMMA PathFacts ==
  ASSUME NEW path \in Paths
  PROVE  /\ path \in Seq(Chains) /\ Len(path) \in Nat \ {0} /\ DOMAIN path = 1..Len(path)
         /\ Head(path) = path[1] /\ path[1] \in Chains
         /\ Last(path) = path[Len(path)] /\ Last(path) \in Chains
<1>1. path \in Seq(Chains) /\ Len(path) \in Nat \ {0} /\ DOMAIN path = 1..Len(path)
  BY EmptySeq, LenProperties DEF Paths
<1>2. path[1] \in Chains /\ path[Len(path)] \in Chains
  BY <1>1, ElementOfSeq
<1>. QED
  BY <1>1, <1>2 DEF Last

LEMMA AppendedPath ==
  ASSUME NEW path \in Paths, NEW c \in Chains
  PROVE  /\ Append(path, c) \in Paths
         /\ Len(Append(path, c)) = Len(path) + 1
         /\ \A i \in 1..Len(path) : Append(path, c)[i] = path[i]
         /\ Append(path, c)[Len(path) + 1] = c
         /\ Last(Append(path, c)) = c
BY PathFacts, AppendProperties DEF Paths, Last

\* The paths that go on from a node: all of them chains of the network, one for
\* each neighbour that is taken.
LEMMA EnqueuedPaths ==
  ASSUME NEW node \in Paths, NEW reached \in SUBSET Chains, NEW order \in SetToSeqs(reached)
  PROVE  /\ [i \in DOMAIN order |-> Append(node, order[i])] \in Seq(Paths)
         /\ Range([i \in DOMAIN order |-> Append(node, order[i])]) = {Append(node, c) : c \in reached}
<1> DEFINE n     == Cardinality(reached)
           nodes == [i \in DOMAIN order |-> Append(node, order[i])]
<1>1. IsFiniteSet(reached)
  BY ChainsAssumption, FS_Subset
<1>2. n \in Nat
  BY <1>1, FS_CardinalityType
<1>3. order \in [1..n -> reached] /\ \A i, j \in 1..n : order[i] = order[j] => i = j
  BY DEF SetToSeqs
<1>4. order \in Surjection(1..n, reached)
  <2>1. order \in Injection(1..n, reached)
    BY <1>3, Fun_IsInj
  <2>2. Cardinality(1..n) = n
    BY <1>2, FS_Interval
  <2>. QED
    BY <1>1, <2>1, <2>2, FS_Injection
<1>5. \A i \in 1..n : Append(node, order[i]) \in Paths
  BY <1>3, AppendedPath
<1>6. nodes \in [1..n -> Paths]
  BY <1>3, <1>5
<1>7. nodes \in Seq(Paths)
  BY <1>2, <1>6, FunctionIsSeq
<1>8. Range(nodes) = {Append(node, c) : c \in reached}
  <2>1. \A c \in reached : \E i \in 1..n : order[i] = c
    BY <1>4 DEF Surjection
  <2>2. Range(nodes) = {Append(node, order[i]) : i \in 1..n}
    BY <1>3 DEF Range
  <2>. QED
    BY <1>3, <2>1, <2>2
<1>. QED
  BY <1>7, <1>8

PathsInv ==
  /\ Serving => request.from \in Chains
  /\ queue \in Seq(Paths)

\* The first node leaves the queue, and for each neighbour that is taken the
\* path to it joins.
Explores(node, reached) ==
  /\ node \in Paths /\ node = Head(queue) /\ Last(node) # request.to
  /\ reached \subseteq Neighbours(Last(node)) /\ reached \subseteq Chains
  /\ Reachable(Last(node), reached)
  /\ Range(queue) = {node} \cup Range(Tail(queue))
  /\ Range(queue') = Range(Tail(queue)) \cup {Append(node, c) : c \in reached}
  /\ queue' \in Seq(Paths)
  /\ visited' = visited \cup reached
  /\ UNCHANGED <<network, index, pc, request>>

LEMMA QueueFacts ==
  ASSUME queue \in Seq(Paths)
  PROVE  /\ Range(queue) \subseteq Paths
         /\ queue = << >> <=> Range(queue) = {}
         /\ queue # << >> => /\ Head(queue) \in Paths /\ Tail(queue) \in Seq(Paths)
                             /\ Range(queue) = {Head(queue)} \cup Range(Tail(queue))
<1>1. Range(queue) = {queue[i] : i \in 1..Len(queue)} /\ Len(queue) \in Nat
  BY RangeEquality, LenProperties
<1>2. Range(queue) \subseteq Paths
  BY RangeOfSeq
<1>3. queue = << >> => Range(queue) = {}
  BY <1>1, EmptySeq
<1>4. ASSUME queue # << >>
      PROVE  /\ Head(queue) \in Paths /\ Tail(queue) \in Seq(Paths)
             /\ Range(queue) = {Head(queue)} \cup Range(Tail(queue))
  <2>1. /\ Head(queue) \in Paths /\ Tail(queue) \in Seq(Paths) /\ Head(queue) = queue[1]
        /\ Len(Tail(queue)) = Len(queue) - 1 /\ \A i \in 1..Len(Tail(queue)) : Tail(queue)[i] = queue[i + 1]
        /\ Len(queue) \in Nat \ {0}
    BY <1>4, HeadTailProperties, EmptySeq
  <2>2. Range(Tail(queue)) = {Tail(queue)[i] : i \in 1..Len(Tail(queue))}
    BY <2>1, RangeEquality
  <2>3. Range(queue) \subseteq {Head(queue)} \cup Range(Tail(queue))
    <3>. SUFFICES ASSUME NEW i \in 1..Len(queue), i # 1 PROVE queue[i] \in Range(Tail(queue))
      BY <1>1, <2>1
    <3>1. i - 1 \in 1..Len(Tail(queue)) /\ Tail(queue)[i - 1] = queue[i]
      BY <2>1
    <3>. QED
      BY <2>2, <3>1
  <2>4. Range(Tail(queue)) \subseteq Range(queue)
    <3>. SUFFICES ASSUME NEW i \in 1..Len(Tail(queue)) PROVE Tail(queue)[i] \in Range(queue)
      BY <2>2
    <3>1. i + 1 \in 1..Len(queue) /\ Tail(queue)[i] = queue[i + 1]
      BY <2>1
    <3>. QED
      BY <1>1, <3>1
  <2>5. Head(queue) \in Range(queue)
    BY <1>1, <2>1
  <2>. QED
    BY <2>1, <2>3, <2>4, <2>5
<1>. QED
  BY <1>2, <1>3, <1>4

LEMMA ExploredQueue ==
  ASSUME IndexInv, PathsInv, Explore
  PROVE  \E node, reached : Explores(node, reached)
<1>1. queue # << >> /\ queue \in Seq(Paths) /\ Last(Head(queue)) # request.to
  BY DEF Explore, Found, PathsInv
<1> DEFINE node == Head(queue)
           c    == Last(node)
<1>2. node \in Paths /\ Tail(queue) \in Seq(Paths) /\ Range(queue) = {node} \cup Range(Tail(queue))
  BY <1>1, QueueFacts
<1>3. Neighbours(c) \subseteq Chains
  BY <1>2, PathFacts, IndexedRoutes DEF Neighbours, BuildRoutesForChain
<1>4. PICK reached \in SUBSET Neighbours(c) :
        /\ Reachable(c, reached)
        /\ \E order \in SetToSeqs(reached) :
             queue' = Enqueue(Tail(queue), [i \in DOMAIN order |-> Append(node, order[i])])
        /\ visited' = visited \cup reached
  BY DEF Explore
<1>5. PICK order \in SetToSeqs(reached) :
        queue' = Enqueue(Tail(queue), [i \in DOMAIN order |-> Append(node, order[i])])
  BY <1>4
<1> DEFINE nodes == [i \in DOMAIN order |-> Append(node, order[i])]
<1>6. reached \in SUBSET Chains
  BY <1>3, <1>4
<1>7. nodes \in Seq(Paths) /\ Range(nodes) = {Append(node, x) : x \in reached}
  BY <1>2, <1>6, EnqueuedPaths
<1>8. queue' = Tail(queue) \o nodes
  BY <1>5 DEF Enqueue
<1>. HIDE DEF nodes
<1>9. queue' \in Seq(Paths) /\ Range(queue') = Range(Tail(queue)) \cup Range(nodes)
  <2>1. Tail(queue) \o nodes \in Seq(Paths)
    BY <1>2, <1>7, ConcatProperties
  <2>2. Range(Tail(queue) \o nodes) = Range(Tail(queue)) \cup Range(nodes)
    <3>1. \A s, r \in Seq(Paths) : Range(s \o r) = Range(s) \cup Range(r)
      BY RangeConcatenation
    <3>. QED
      BY <1>2, <1>7, <3>1, Zenon
  <2>. QED
    BY <1>8, <2>1, <2>2
<1>10. UNCHANGED <<network, index, pc, request>>
  BY DEF Explore
<1>. QED
  BY <1>1, <1>2, <1>4, <1>6, <1>7, <1>9, <1>10 DEF Explores

\* The search keeps non-empty paths of chains, of any length.
LEMMA PathsAreSeqs == Spec => []PathsInv
<1>1. Init => PathsInv
  BY EmptySeq DEF Init, PathsInv, Serving
<1>2. IndexInv /\ PathsInv /\ [Next]_vars => PathsInv'
  <2>. SUFFICES ASSUME IndexInv, PathsInv, [Next]_vars PROVE PathsInv'
    OBVIOUS
  <2>1. CASE Load
    BY <2>1 DEF Load, PathsInv, searchVars, Serving
  <2>2. CASE Ask
    <3>1. request'.from \in Chains
      BY <2>2, ConfiguredAreChains DEF Ask
    <3>2. queue' \in Seq(Paths)
      BY <2>2, EmptySeq DEF Ask
    <3>. QED
      BY <3>1, <3>2 DEF PathsInv
  <2>3. CASE NoDirectRoute
    <3>1. request.from \in Chains
      BY <2>3 DEF NoDirectRoute, PathsInv, Serving
    <3>2. <<request.from>> \in Paths
      BY <3>1 DEF Paths
    <3>3. queue' \in Seq(Paths)
      BY <2>3, <3>2 DEF NoDirectRoute
    <3>. QED
      BY <2>3, <3>1, <3>3 DEF NoDirectRoute, PathsInv
  <2>4. CASE Explore
    BY <2>4, ExploredQueue DEF Explores, PathsInv, Serving
  <2>5. CASE AnswerIndirect
    BY <2>5, EmptySeq DEF AnswerIndirect, PathsInv, Serving
  <2>6. CASE NoIndirectRoute
    BY <2>6 DEF NoIndirectRoute, PathsInv, Serving
  <2>7. CASE AnswerDirect \/ ChooseBrokerRoute \/ NoRoute \/ SwapQuoted \/ SwapRefused
    BY <2>7 DEF AnswerDirect, ChooseBrokerRoute, NoRoute, SwapQuoted, SwapRefused, searchVars, PathsInv, Serving
  <2>8. CASE UNCHANGED vars
    BY <2>8 DEF vars, PathsInv, Serving
  <2>. QED
    BY <2>1, <2>2, <2>3, <2>4, <2>5, <2>6, <2>7, <2>8 DEF Next, Find
<1>. QED
  BY <1>1, <1>2, IndexIsBuilt, PTL DEF Spec

(***************************************************************************)
(* The search goes along simple paths, and only where the token may travel.*)
(***************************************************************************)
IsSimple(path) == path[1] = request.from /\ IsInjective(path) /\ Range(path) \subseteq visited

MayFollow(path) ==
  \A i \in 1..Len(path) - 1 : \E t \in CurrentTokens(path[i]) : MayTravel(t, path[i], path[i + 1])

SearchInv ==
  /\ visited \subseteq Chains
  /\ pc = "off" => queue = << >>
  /\ \A path \in Range(queue) : IsSimple(path) /\ MayFollow(path)

\* A path that goes on to a chain that was not visited stays simple.
LEMMA ExtendedPath ==
  ASSUME NEW path \in Paths, IsSimple(path), MayFollow(path), NEW c \in Chains, c \notin visited,
         \E t \in CurrentTokens(Last(path)) : MayTravel(t, Last(path), c)
  PROVE  /\ Append(path, c)[1] = request.from /\ IsInjective(Append(path, c)) /\ MayFollow(Append(path, c))
         /\ Range(Append(path, c)) \subseteq visited \cup {c}
<1> DEFINE n == Len(path)
           longer == Append(path, c)
<1>1. n \in Nat \ {0} /\ DOMAIN path = 1..n /\ Last(path) = path[n]
  BY PathFacts
<1>2. /\ longer \in Paths /\ Len(longer) = n + 1 /\ longer[n + 1] = c
      /\ \A i \in 1..n : longer[i] = path[i]
  BY AppendedPath
<1>3. DOMAIN longer = 1..n + 1
  BY <1>2, PathFacts
<1>. HIDE DEF longer, n
<1>4. \A i \in 1..n : path[i] \in visited
  BY <1>1 DEF IsSimple, Range
<1>5. longer[1] = request.from
  BY <1>1, <1>2 DEF IsSimple
<1>6. IsInjective(longer)
  <2>. SUFFICES ASSUME NEW i \in 1..n + 1, NEW j \in 1..n + 1, longer[i] = longer[j] PROVE i = j
    BY <1>3 DEF IsInjective
  <2>1. CASE i \in 1..n /\ j \in 1..n
    BY <1>1, <1>2, <2>1 DEF IsSimple, IsInjective
  <2>2. CASE i = n + 1 /\ j \in 1..n
    BY <1>2, <1>4, <2>2
  <2>3. CASE i \in 1..n /\ j = n + 1
    BY <1>2, <1>4, <2>3
  <2>. QED
    BY <1>1, <2>1, <2>2, <2>3
<1>7. MayFollow(longer)
  <2>. SUFFICES ASSUME NEW i \in 1..n
                PROVE  \E t \in CurrentTokens(longer[i]) : MayTravel(t, longer[i], longer[i + 1])
    BY <1>1, <1>2 DEF MayFollow
  <2>1. CASE i = n
    BY <1>1, <1>2, <2>1
  <2>2. CASE i # n
    <3>1. i \in 1..n - 1 /\ i + 1 \in 1..n
      BY <1>1, <2>2
    <3>2. longer[i] = path[i] /\ longer[i + 1] = path[i + 1]
      BY <1>2, <3>1
    <3>. QED
      BY <3>1, <3>2 DEF MayFollow, n
  <2>. QED
    BY <2>1, <2>2
<1>8. Range(longer) \subseteq visited \cup {c}
  BY <1>1, <1>2, <1>3, <1>4 DEF Range
<1>. QED
  BY <1>5, <1>6, <1>7, <1>8 DEF longer

\* Another chain is visited, but what was found stays as it is.
LEMMA SearchKeeps ==
  ASSUME UNCHANGED <<index, request>>
  PROVE  \A path : MayFollow(path)' = MayFollow(path)
BY DEF MayFollow, CurrentTokens, MayTravel, Info, FindTokenByOrigin, AllowedTokens

LEMMA SearchStaysSimple == Spec => []SearchInv
<1>1. Init => SearchInv
  BY EmptyFacts DEF Init, SearchInv
<1>2. IndexInv /\ PathsInv /\ SearchInv /\ [Next]_vars => SearchInv'
  <2>. SUFFICES ASSUME IndexInv, PathsInv, SearchInv, [Next]_vars PROVE SearchInv'
    OBVIOUS
  <2>1. CASE UNCHANGED <<index, request, queue, visited>> /\ (pc' = pc \/ pc' # "off")
    BY <2>1, SearchKeeps DEF SearchInv, IsSimple
  <2>2. ASSUME queue' = << >>, visited' = {}
        PROVE  SearchInv'
    BY <2>2, EmptyFacts DEF SearchInv
  <2>3. CASE Load
    <3>1. queue' = << >> /\ visited' = visited
      BY <2>3 DEF Load, SearchInv, searchVars
    <3>. QED
      BY <3>1, EmptyFacts DEF SearchInv
  <2>4. CASE NoDirectRoute
    <3>1. request.from \in Chains /\ request' = request
      BY <2>4 DEF NoDirectRoute, PathsInv, Serving
    <3>2. visited' = {request.from} /\ queue' = <<<<request.from>>>> /\ pc' # "off"
      BY <2>4 DEF NoDirectRoute
    <3>3. Range(queue') = {<<request.from>>} /\ Range(<<request.from>>) = {request.from}
      BY <3>2, SingletonFacts
    <3>4. IsInjective(<<request.from>>) /\ <<request.from>>[1] = request.from /\ Len(<<request.from>>) = 1
      BY DEF IsInjective
    <3>5. MayFollow(<<request.from>>)'
      BY <3>1, <3>4 DEF MayFollow
    <3>. QED
      BY <3>1, <3>2, <3>3, <3>4, <3>5 DEF SearchInv, IsSimple
  <2>5. CASE Explore
    <3>1. PICK node, reached : Explores(node, reached)
      BY <2>5, ExploredQueue
    <3>2. /\ node \in Paths /\ node \in Range(queue) /\ reached \subseteq Neighbours(Last(node))
          /\ Reachable(Last(node), reached) /\ reached \subseteq Chains
          /\ Range(Tail(queue)) \subseteq Range(queue)
          /\ Range(queue') = Range(Tail(queue)) \cup {Append(node, c) : c \in reached}
          /\ visited' = visited \cup reached /\ UNCHANGED <<index, request>>
      BY <3>1 DEF Explores
    <3>3. ASSUME NEW c \in reached
          PROVE  IsSimple(Append(node, c))' /\ MayFollow(Append(node, c))'
      <4>1. c \notin visited /\ c \in Chains /\ \E t \in CurrentTokens(Last(node)) : MayTravel(t, Last(node), c)
        BY <3>2, <3>3 DEF Neighbours, Reachable
      <4>2. IsSimple(node) /\ MayFollow(node)
        BY <3>2 DEF SearchInv
      <4>3. /\ Append(node, c)[1] = request.from /\ IsInjective(Append(node, c)) /\ MayFollow(Append(node, c))
            /\ Range(Append(node, c)) \subseteq visited \cup {c}
        BY <3>2, <4>1, <4>2, ExtendedPath
      <4>. QED
        BY <3>2, <3>3, <4>3, SearchKeeps DEF IsSimple
    <3>4. ASSUME NEW path \in Range(Tail(queue))
          PROVE  IsSimple(path)' /\ MayFollow(path)'
      BY <3>2, <3>4, SearchKeeps DEF SearchInv, IsSimple
    <3>5. pc' # "off"
      BY <2>5 DEF Explore
    <3>. QED
      BY <3>2, <3>3, <3>4, <3>5 DEF SearchInv
  <2>6. CASE NoIndirectRoute
    BY <2>2, <2>6 DEF NoIndirectRoute
  <2>7. CASE Ask \/ AnswerIndirect
    BY <2>2, <2>7 DEF Ask, AnswerIndirect
  <2>8. CASE AnswerDirect \/ ChooseBrokerRoute \/ NoRoute \/ SwapQuoted \/ SwapRefused
    BY <2>1, <2>8 DEF AnswerDirect, ChooseBrokerRoute, NoRoute, SwapQuoted, SwapRefused, searchVars
  <2>9. CASE UNCHANGED vars
    BY <2>1, <2>9 DEF vars, searchVars
  <2>. QED
    BY <2>3, <2>4, <2>5, <2>6, <2>7, <2>8, <2>9 DEF Next, Find
<1>. QED
  BY <1>1, <1>2, IndexIsBuilt, PathsAreSeqs, PTL DEF Spec

(***************************************************************************)
(* The search leaves nothing out: each chain it has visited waits in the   *)
(* queue or has shown its neighbours.                                      *)
(***************************************************************************)

\* Whatever representation of the token is looked up, it may travel on.
SurelyTravels(c, to) ==
  /\ to \in DOMAIN index.routes[c]
  /\ CurrentTokens(c) # {} /\ \A t \in CurrentTokens(c) : MayTravel(t, c, to)

Waits(c) == \E path \in Range(queue) : Last(path) = c

BreadthInv ==
  pc = "search" =>
    /\ IsSameToken
    /\ request.from \in visited
    /\ \A c \in visited : \/ Waits(c)
                          \/ c # request.to /\ \A to : SurelyTravels(c, to) => to \in visited
    /\ OneHop => \/ queue = <<<<request.from>>>>
                 \/ request.to \in visited /\ \A path \in Range(queue) : Last(path) = request.to => Len(path) = 2

\* There is a set of chains that the token cannot surely leave, without the
\* destination, or the tokens are different ones.
Unreached ==
  \/ ~IsSameToken
  \/ \E V \in SUBSET Chains :
       /\ request.from \in V /\ request.to \notin V
       /\ \A c \in V : \A to : SurelyTravels(c, to) => to \in V

LEMMA LookupsKept ==
  ASSUME UNCHANGED <<index, request>>
  PROVE  /\ IsSameToken' = IsSameToken /\ OneHop' = OneHop
         /\ \A c, to : SurelyTravels(c, to)' = SurelyTravels(c, to)
         /\ Unreached' = Unreached
<1>1. IsSameToken' = IsSameToken /\ OneHop' = OneHop
  BY DEF IsSameToken, OneHop, Info, TokensOf, AllowedTokens
<1>2. \A c, to : SurelyTravels(c, to)' = SurelyTravels(c, to)
  BY DEF SurelyTravels, CurrentTokens, MayTravel, Info, FindTokenByOrigin, AllowedTokens
<1>. QED
  BY <1>1, <1>2 DEF Unreached

\* One hop is one that the search is sure to see from the source.
LEMMA OneHopIsSure ==
  ASSUME IndexInv, RequestInv, PathsInv, Serving, OneHop
  PROVE  SurelyTravels(request.from, request.to) /\ request.from # request.to
<1>1. PICK t \in AllowedTokens(request.from, request.to) : t.chainDenom = request.tokenIn
  BY DEF OneHop, TokensOf
<1>2. request.from \in Chains
  BY DEF PathsInv
<1>3. request.from # request.to /\ request.to \in DOMAIN index.routes[request.from]
  BY <1>1, <1>2, AllowedFacts DEF AllowedTokens
<1>4. CurrentTokens(request.from) = Info(request.from, request.tokenIn)
  BY DEF CurrentTokens
<1>5. \A s \in CurrentTokens(request.from) : MayTravel(s, request.from, request.to)
  BY <1>1, <1>4 DEF Info, MayTravel, Denoms
<1>. QED
  BY <1>3, <1>4, <1>5 DEF SurelyTravels, RequestInv

LEMMA ExploringLeavesNothingOut ==
  ASSUME IndexInv, RequestInv, PathsInv, BreadthInv, Explore
  PROVE  BreadthInv'
<1>1. PICK node, reached : Explores(node, reached)
  BY ExploredQueue
<1> DEFINE c == Last(node)
<1>2. /\ node \in Paths /\ node = Head(queue) /\ c # request.to
      /\ reached \subseteq Neighbours(c) /\ reached \subseteq Chains /\ Reachable(c, reached)
      /\ Range(queue) = {node} \cup Range(Tail(queue))
      /\ Range(queue') = Range(Tail(queue)) \cup {Append(node, x) : x \in reached}
      /\ visited' = visited \cup reached /\ UNCHANGED <<index, request, pc>>
  BY <1>1 DEF Explores
<1>3. pc = "search" /\ Serving /\ queue \in Seq(Paths)
  BY DEF Explore, Serving, PathsInv
<1>4. /\ IsSameToken' = IsSameToken /\ OneHop' = OneHop
      /\ \A x, to : SurelyTravels(x, to)' = SurelyTravels(x, to)
  BY <1>2, LookupsKept
<1>5. \A x \in reached : Append(node, x) \in Range(queue') /\ Last(Append(node, x)) = x
                         /\ Len(Append(node, x)) = Len(node) + 1
  BY <1>2, AppendedPath
<1>6. \A to : SurelyTravels(c, to) => to \in visited'
  <2>. SUFFICES ASSUME NEW to, SurelyTravels(c, to), to \notin visited PROVE to \in reached
    BY <1>2
  <2>1. to \in Neighbours(c)
    BY DEF SurelyTravels, Neighbours
  <2>. QED
    BY <1>2, <2>1 DEF Reachable, SurelyTravels
<1>7. ASSUME NEW x \in visited'
      PROVE  \/ \E path \in Range(queue') : Last(path) = x
             \/ x # request.to /\ \A to : SurelyTravels(x, to) => to \in visited'
  <2>1. CASE x \in reached
    BY <1>5, <2>1
  <2>2. CASE x = c
    BY <1>2, <1>6, <2>2
  <2>3. CASE x \in visited /\ x # c /\ Waits(x)
    BY <1>2, <2>3 DEF Waits
  <2>4. CASE x \in visited /\ ~Waits(x)
    BY <1>2, <1>3, <2>4 DEF BreadthInv
  <2>. QED
    BY <1>2, <1>7, <2>1, <2>2, <2>3, <2>4
<1>8. ASSUME OneHop
      PROVE  request.to \in visited' /\ \A path \in Range(queue') : Last(path) = request.to => Len(path) = 2
  <2>1. CASE queue = <<<<request.from>>>>
    <3>1. node = <<request.from>> /\ c = request.from
      BY <1>2, <2>1 DEF Last
    <3>2. Tail(queue) = << >>
      BY <2>1
    <3>3. \A path \in Range(queue') : Len(path) = 2
      <4>1. Range(Tail(queue)) = {} /\ Len(node) = 1
        BY <3>1, <3>2, EmptyFacts
      <4>2. \A x \in reached : Len(Append(node, x)) = 2
        BY <1>5, <4>1
      <4>. QED
        BY <1>2, <4>1, <4>2
    <3>4. request.to \in visited'
      BY <1>3, <1>6, <1>8, <3>1, OneHopIsSure
    <3>. QED
      BY <3>3, <3>4
  <2>2. CASE request.to \in visited /\ \A path \in Range(queue) : Last(path) = request.to => Len(path) = 2
    <3>1. \A x \in reached : x # request.to
      BY <1>2, <2>2 DEF Neighbours
    <3>. QED
      BY <1>2, <1>5, <2>2, <3>1, ZenonT(90)
  <2>. QED
    BY <1>3, <1>8, <2>1, <2>2 DEF BreadthInv
<1>. QED
  BY <1>2, <1>3, <1>4, <1>7, <1>8 DEF BreadthInv, Waits

LEMMA NothingIsLeftOut == Spec => []BreadthInv
<1>1. Init => BreadthInv
  BY DEF Init, BreadthInv
<1>2. IndexInv /\ RequestInv /\ PathsInv /\ BreadthInv /\ [Next]_vars => BreadthInv'
  <2>. SUFFICES ASSUME IndexInv, RequestInv, PathsInv, BreadthInv, [Next]_vars PROVE BreadthInv'
    OBVIOUS
  <2>1. CASE NoDirectRoute
    <3>. SUFFICES ASSUME pc' = "search" PROVE BreadthInv'
      BY DEF BreadthInv
    <3>1. /\ IsSameToken /\ visited' = {request.from} /\ queue' = <<<<request.from>>>>
          /\ UNCHANGED <<index, request>>
      BY <2>1 DEF NoDirectRoute
    <3>2. Range(queue') = {<<request.from>>} /\ Last(<<request.from>>) = request.from
      BY <3>1, SingletonFacts DEF Last
    <3>. QED
      BY <3>1, <3>2, LookupsKept DEF BreadthInv, Waits
  <2>2. CASE Explore
    BY <2>2, ExploringLeavesNothingOut
  <2>3. CASE Load \/ Ask \/ AnswerDirect \/ AnswerIndirect \/ NoIndirectRoute \/ ChooseBrokerRoute
             \/ NoRoute \/ SwapQuoted \/ SwapRefused
    BY <2>3 DEF Load, Ask, AnswerDirect, AnswerIndirect, NoIndirectRoute, ChooseBrokerRoute,
                NoRoute, SwapQuoted, SwapRefused, BreadthInv
  <2>4. CASE UNCHANGED vars
    BY <2>4, LookupsKept DEF vars, searchVars, BreadthInv, Waits
  <2>. QED
    BY <2>1, <2>2, <2>3, <2>4 DEF Next, Find
<1>. QED
  BY <1>1, <1>2, IndexIsBuilt, RequestsAreServed, PathsAreSeqs, PTL DEF Spec

\* A search that ends with an empty queue has seen all there is to reach.
LEMMA SearchedInVain ==
  ASSUME SearchInv, BreadthInv, NoIndirectRoute
  PROVE  Unreached
<1>1. pc = "search" /\ queue = << >>
  BY DEF NoIndirectRoute
<1>2. \A c : ~Waits(c)
  BY <1>1, EmptyFacts DEF Waits
<1>3. /\ visited \in SUBSET Chains /\ request.from \in visited /\ request.to \notin visited
      /\ \A c \in visited : \A to : SurelyTravels(c, to) => to \in visited
  BY <1>1, <1>2 DEF SearchInv, BreadthInv
<1>. QED
  BY <1>3 DEF Unreached

LEMMA ShortLists ==
  ASSUME NEW s, s = << >> \/ (\E a : s = <<a>>) \/ (\E a, b : s = <<a, b>>)
  PROVE  IsSeq(s)
<1>1. CASE s = << >>
  BY <1>1, EmptyFacts
<1>2. CASE \E a : s = <<a>>
  BY <1>2, SingletonFacts
<1>3. ASSUME NEW a, NEW b, s = <<a, b>>
      PROVE  IsSeq(s)
  <2>1. s \in Seq({a, b})
    BY <1>3
  <2>. QED
    BY <2>1, SeqFacts
<1>. QED
  BY <1>1, <1>2, <1>3

(***************************************************************************)
(* The routes through the broker.                                          *)
(***************************************************************************)

\* The source is the broker, is next to it, or has a chain between them.
AtSource(h) ==
  /\ request.from = Broker /\ h.inbound = << >>
  /\ h.tokenIn \in Info(Broker, request.tokenIn) /\ h.inboundTokens = << >>

OverOneHop(h) ==
  /\ h.inbound = <<request.from>>
  /\ h.tokenIn \in TokensOf(AllowedTokens(request.from, Broker), request.tokenIn) /\ h.inboundTokens = << >>

OverTwoHops(h) ==
  \E c \in Chains \ {request.from, Broker} : \E u \in AllowedTokens(c, Broker) :
    /\ h.inbound = <<request.from, c>>
    /\ h.tokenIn \in TokensOf(AllowedTokens(request.from, c), request.tokenIn) /\ h.inboundTokens = <<u>>
    /\ u.chainDenom = h.tokenIn.ibcDenom

LeadsToBroker(h) == AtSource(h) \/ OverOneHop(h) \/ OverTwoHops(h)

\* The destination is the broker, is next to it, or has the token's home between.
AtDestination(h) ==
  request.to = Broker /\ h.outbound = << >> /\ h.tokenOnBroker \in Info(Broker, request.tokenOut)

BackOneHop(h) ==
  h.outbound = <<request.to>> /\ h.tokenOnBroker \in BecomesRequested(AllowedTokens(Broker, request.to))

OverHome(h) ==
  \E token \in Info(request.to, request.tokenOut) :
    LET origin == token.originChain
    IN /\ origin \notin {Broker, request.to}
       /\ h.outbound = <<origin, request.to>>
       /\ h.tokenOnBroker \in AllowedTokens(Broker, origin) /\ SameToken(h.tokenOnBroker, token)
       /\ BecomesRequested(AllowedTokens(origin, request.to)) # {}
       /\ Len(h.intermediate) = 1

LeadsOn(h) == AtDestination(h) \/ BackOneHop(h) \/ OverHome(h)

IsInbound(in) == LeadsToBroker(in) /\ DOMAIN in = DOMAIN NoHopInfo

LEMMA InboundShapes ==
  /\ \A in \in Inbound : IsInbound(in)
  /\ request.from = Broker => \A in \in AtBroker : IsInbound(in)
<1>1. \A in \in InboundDirect : IsInbound(in)
  BY DEF InboundDirect, IsInbound, LeadsToBroker, OverOneHop, NoHopInfo
<1>2. \A in \in InboundMultiHop : IsInbound(in)
  <2>. SUFFICES ASSUME NEW c \in Chains \ {request.from, Broker}, NEW in \in InboundThrough(c) PROVE IsInbound(in)
    BY DEF InboundMultiHop
  <2>1. PICK q \in TokensOf(AllowedTokens(request.from, c), request.tokenIn), u \in AllowedTokens(c, Broker) :
          /\ u.chainDenom = q.ibcDenom
          /\ in = [NoHopInfo EXCEPT !.inbound = <<request.from, c>>, !.tokenIn = q, !.inboundTokens = <<u>>]
    BY DEF InboundThrough
  <2>2. /\ in.inbound = <<request.from, c>> /\ in.tokenIn = q /\ in.inboundTokens = <<u>>
        /\ DOMAIN in = DOMAIN NoHopInfo
    BY <2>1 DEF NoHopInfo
  <2>3. OverTwoHops(in)
    BY <2>1, <2>2 DEF OverTwoHops
  <2>. QED
    BY <2>2, <2>3 DEF IsInbound, LeadsToBroker
<1>3. request.from = Broker => \A in \in AtBroker : IsInbound(in)
  BY DEF AtBroker, IsInbound, LeadsToBroker, AtSource, NoHopInfo
<1>. QED
  BY <1>1, <1>2, <1>3 DEF Inbound

LEMMA HopInfoParts ==
  ASSUME NEW in, IsInbound(in), NEW t, NEW out, NEW mid
  PROVE  /\ LeadsToBroker(HopInfo(in, t, out, mid))
         /\ HopInfo(in, t, out, mid).outbound = out
         /\ HopInfo(in, t, out, mid).tokenOnBroker = t
         /\ HopInfo(in, t, out, mid).intermediate = mid
<1> DEFINE h == HopInfo(in, t, out, mid)
<1>1. /\ h.inbound = in.inbound /\ h.tokenIn = in.tokenIn /\ h.inboundTokens = in.inboundTokens
      /\ h.outbound = out /\ h.tokenOnBroker = t /\ h.intermediate = mid
  BY DEF HopInfo, IsInbound, NoHopInfo
<1>2. LeadsToBroker(h) <=> LeadsToBroker(in)
  BY <1>1 DEF LeadsToBroker, AtSource, OverOneHop, OverTwoHops
<1>. QED
  BY <1>1, <1>2 DEF IsInbound

\* Whatever route is tried, it leads to the broker and on to the destination.
LEMMA TriedRoutes ==
  ASSUME NEW h \in FindMultiHopRoute
  PROVE  Broker \in network.built /\ LeadsToBroker(h) /\ LeadsOn(h)
<1> DEFINE Fits(tried) == LeadsToBroker(tried) /\ LeadsOn(tried)
<1>1. ASSUME NEW S, \A in \in S : IsInbound(in)
      PROVE  /\ request.to = Broker => \A x \in ToBroker(S) : Fits(x)
             /\ \A x \in OutboundDirect(S) : Fits(x)
             /\ \A x \in OutboundMultiHop(S) : Fits(x)
  <2>1. request.to = Broker => \A x \in ToBroker(S) : Fits(x)
    <3>. SUFFICES ASSUME request.to = Broker, NEW x \in ToBroker(S) PROVE Fits(x)
      OBVIOUS
    <3>1. PICK in \in S, t \in Info(Broker, request.tokenOut) : x = HopInfo(in, t, << >>, << >>)
      BY DEF ToBroker
    <3>2. LeadsToBroker(x) /\ x.outbound = << >> /\ x.tokenOnBroker = t
      BY <1>1, <3>1, HopInfoParts
    <3>. QED
      BY <3>1, <3>2 DEF LeadsOn, AtDestination
  <2>2. \A x \in OutboundDirect(S) : Fits(x)
    <3>. TAKE x \in OutboundDirect(S)
    <3>1. PICK in \in S, t \in BecomesRequested(AllowedTokens(Broker, request.to)) :
            x = HopInfo(in, t, <<request.to>>, << >>)
      BY DEF OutboundDirect
    <3>2. LeadsToBroker(x) /\ x.outbound = <<request.to>> /\ x.tokenOnBroker = t
      BY <1>1, <3>1, HopInfoParts
    <3>. QED
      BY <3>1, <3>2 DEF LeadsOn, BackOneHop
  <2>3. \A x \in OutboundMultiHop(S) : Fits(x)
    <3>. TAKE x \in OutboundMultiHop(S)
    <3>1. PICK token \in Info(request.to, request.tokenOut) :
            token.originChain \notin {Broker, request.to} /\ x \in OutboundThrough(S, token)
      BY DEF OutboundMultiHop
    <3> DEFINE origin == token.originChain
               T == {y \in AllowedTokens(Broker, origin) : SameToken(y, token)}
               U == BecomesRequested(AllowedTokens(origin, request.to))
    <3>2. x \in {HopInfo(in, t, <<origin, request.to>>, <<u>>) : in \in S, t \in T, u \in U}
      BY <3>1 DEF OutboundThrough
    <3>. HIDE DEF T, U
    <3>3. PICK in \in S, t \in T, u \in U : x = HopInfo(in, t, <<origin, request.to>>, <<u>>)
      BY <3>2
    <3>4. /\ LeadsToBroker(x) /\ x.outbound = <<origin, request.to>> /\ x.tokenOnBroker = t
          /\ x.intermediate = <<u>>
      BY <1>1, <3>3, HopInfoParts
    <3>5. Len(x.intermediate) = 1
      BY <3>4
    <3>6. t \in AllowedTokens(Broker, origin) /\ SameToken(t, token) /\ BecomesRequested(AllowedTokens(origin, request.to)) # {}
      BY <3>3 DEF T, U
    <3>7. OverHome(x)
      BY <3>1, <3>4, <3>5, <3>6 DEF OverHome
    <3>. QED
      BY <3>4, <3>7 DEF LeadsOn
  <2>. QED
    BY <2>1, <2>2, <2>3
<1>2. /\ \A x \in FullBrokerRoute : Fits(x)
      /\ request.to = Broker => \A x \in ToBroker(Inbound) : Fits(x)
  BY <1>1, InboundShapes DEF FullBrokerRoute
<1>3. request.from = Broker =>
        /\ \A x \in BrokerAsSource : Fits(x)
        /\ request.to = Broker => \A x \in ToBroker(AtBroker) : Fits(x)
  BY <1>1, InboundShapes DEF BrokerAsSource
<1>4. Broker \in network.built
  BY DEF FindMultiHopRoute
<1>5. \/ request.from = Broker /\ request.to = Broker /\ h \in ToBroker(AtBroker)
      \/ request.from # Broker /\ request.to = Broker /\ h \in ToBroker(Inbound)
      \/ request.from = Broker /\ request.to # Broker /\ h \in BrokerAsSource
      \/ h \in FullBrokerRoute
  BY <1>4 DEF FindMultiHopRoute
<1>6. Fits(h)
  <2>. HIDE DEF Fits
  <2>. QED
    BY <1>2, <1>3, <1>5
<1>. QED
  BY <1>4, <1>6

LEMMA TriedAreSeqs ==
  ASSUME NEW h, LeadsToBroker(h), LeadsOn(h)
  PROVE  IsSeq(h.inbound) /\ IsSeq(h.outbound) /\ (h.inbound = << >> => request.from = Broker)
<1>1. IsSeq(h.inbound)
  BY ShortLists DEF LeadsToBroker, AtSource, OverOneHop, OverTwoHops
<1>2. IsSeq(h.outbound)
  BY ShortLists DEF LeadsOn, AtDestination, BackOneHop, OverHome
<1>3. h.inbound = << >> => request.from = Broker
  BY DEF LeadsToBroker, AtSource, OverOneHop, OverTwoHops
<1>. QED
  BY <1>1, <1>2, <1>3

(***************************************************************************)
(* The answers: each is one of the four that FindPath gives, to the request*)
(* and from the index that the server still holds.                         *)
(***************************************************************************)
FoundPath(path) ==
  /\ path \in Paths
  /\ path[1] = request.from /\ Last(path) = request.to
  /\ IsInjective(path) /\ MayFollow(path)
  /\ OneHop => Len(path) = 2

IsDirect(r) ==
  /\ FindDirectRoute
  /\ r = [NoResponse EXCEPT !.kind = "direct", !.path = <<request.from, request.to>>,
            !.inbound = <<Leg(request.from, request.to, request.tokenIn)>>]

IsIndirect(r) ==
  /\ IsSameToken
  /\ \E path : FoundPath(path) /\ \E legs \in IndirectLegs(path) :
       r = [NoResponse EXCEPT !.kind = "indirect", !.path = path, !.inbound = legs, !.pfm = CheckPFMSupport(path)]

IsBrokerSwap(r) ==
  /\ Unreached
  /\ \E h \in FindMultiHopRoute :
       r = [kind |-> "brokerSwap", path |-> BrokerPath(h), inbound |-> InboundLegs(h),
            swap |-> <<Swap(h)>>, outbound |-> OutboundLegs(h), pfm |-> OutboundPFM(h)]

IsImpossible(r) == Unreached /\ r = Impossible

ResponseInv ==
  /\ response.kind \in Kinds
  /\ pc \in {"broker", "query"} => Unreached
  /\ pc = "query" => hopInfo \in FindMultiHopRoute
  /\ pc = "answered" => IsDirect(response) \/ IsIndirect(response) \/ IsBrokerSwap(response) \/ IsImpossible(response)

\* What the answers are made of depends on the index and the request only.
LEMMA RoutesKept ==
  ASSUME UNCHANGED <<network, index, request>>
  PROVE  FindMultiHopRoute' = FindMultiHopRoute
<1>1. /\ \A c, to : AllowedTokens(c, to)' = AllowedTokens(c, to)
      /\ \A c, d : Info(c, d)' = Info(c, d)
      /\ \A tokens : BecomesRequested(tokens)' = BecomesRequested(tokens)
  BY DEF AllowedTokens, Info, BecomesRequested
<1>2. InboundDirect' = InboundDirect
  BY <1>1 DEF InboundDirect
<1>3. \A c : InboundThrough(c)' = InboundThrough(c)
  BY <1>1 DEF InboundThrough
<1>4. InboundMultiHop' = InboundMultiHop
  BY <1>3 DEF InboundMultiHop
<1>5. Inbound' = Inbound
  BY <1>2, <1>4 DEF Inbound
<1>6. AtBroker' = AtBroker
  BY <1>1 DEF AtBroker
<1>7. \A S : ToBroker(S)' = ToBroker(S)
  BY <1>1 DEF ToBroker
<1>8. \A S : OutboundDirect(S)' = OutboundDirect(S)
  BY <1>1 DEF OutboundDirect
<1>9. \A S, t : OutboundThrough(S, t)' = OutboundThrough(S, t)
  BY <1>1 DEF OutboundThrough
<1>10. \A S : OutboundMultiHop(S)' = OutboundMultiHop(S)
  BY <1>1, <1>9 DEF OutboundMultiHop
<1>11. BrokerAsSource' = BrokerAsSource
  BY <1>1, <1>6, <1>8 DEF BrokerAsSource
<1>12. FullBrokerRoute' = FullBrokerRoute
  BY <1>5, <1>8, <1>10 DEF FullBrokerRoute
<1>. QED
  BY <1>5, <1>6, <1>7, <1>11, <1>12 DEF FindMultiHopRoute

LEMMA AnswersKept ==
  ASSUME UNCHANGED <<network, index, request>>
  PROVE  \A r : /\ IsDirect(r)' <=> IsDirect(r)
                /\ IsIndirect(r)' <=> IsIndirect(r)
                /\ IsBrokerSwap(r)' <=> IsBrokerSwap(r)
                /\ IsImpossible(r)' <=> IsImpossible(r)
<1>1. /\ \A c, to : AllowedTokens(c, to)' = AllowedTokens(c, to)
      /\ \A c, d : Info(c, d)' = Info(c, d)
      /\ \A c : CurrentTokens(c)' = CurrentTokens(c)
  BY DEF AllowedTokens, Info, CurrentTokens, FindTokenByOrigin
<1>2. FindDirectRoute' = FindDirectRoute
  BY <1>1 DEF FindDirectRoute
<1>3. IsSameToken' = IsSameToken /\ OneHop' = OneHop /\ Unreached' = Unreached
  BY LookupsKept
<1>4. \A path : FoundPath(path)' = FoundPath(path)
  BY <1>3, SearchKeeps DEF FoundPath
<1>5. \A path : IndirectLegs(path)' = IndirectLegs(path)
  BY <1>1 DEF IndirectLegs
<1>6. \A path : CheckPFMSupport(path)' = CheckPFMSupport(path)
  BY DEF CheckPFMSupport
<1>7. \A h : BrokerPath(h)' = BrokerPath(h) /\ OutboundPFM(h)' = OutboundPFM(h)
  BY DEF BrokerPath, OutboundPFM
<1>8. FindMultiHopRoute' = FindMultiHopRoute
  BY RoutesKept
<1>9. \A r : IsDirect(r)' <=> IsDirect(r)
  BY <1>2 DEF IsDirect
<1>10. \A r : IsIndirect(r)' <=> IsIndirect(r)
  BY <1>3, <1>4, <1>5, <1>6 DEF IsIndirect
<1>11. \A r : IsBrokerSwap(r)' <=> IsBrokerSwap(r)
  BY <1>3, <1>7, <1>8 DEF IsBrokerSwap
<1>12. \A r : IsImpossible(r)' <=> IsImpossible(r)
  BY <1>3 DEF IsImpossible
<1>. QED
  BY <1>9, <1>10, <1>11, <1>12

\* The path that answers starts and ends as requested, is simple, and has one
\* hop when one is enough.
LEMMA FoundPaths ==
  ASSUME IndexInv, RequestInv, PathsInv, SearchInv, BreadthInv, AnswerIndirect
  PROVE  FoundPath(Head(queue)) /\ IsSameToken
<1> DEFINE path == Head(queue)
<1>1. pc = "search" /\ queue # << >> /\ Last(path) = request.to /\ Serving
  BY DEF AnswerIndirect, Found, Serving
<1>2. path \in Paths /\ path \in Range(queue)
  BY <1>1, QueueFacts DEF PathsInv
<1>3. path[1] = request.from /\ IsInjective(path) /\ MayFollow(path)
  BY <1>2 DEF SearchInv, IsSimple
<1>4. OneHop => Len(path) = 2
  <2>. SUFFICES ASSUME OneHop, queue = <<<<request.from>>>> PROVE FALSE
    BY <1>1, <1>2 DEF BreadthInv
  <2>1. path = <<request.from>>
    OBVIOUS
  <2>2. request.from = request.to
    BY <1>1, <2>1 DEF Last
  <2>. QED
    BY <1>1, <2>2, OneHopIsSure
<1>. QED
  BY <1>1, <1>2, <1>3, <1>4 DEF FoundPath, BreadthInv

LEMMA AnswersAreKnown == Spec => []ResponseInv
<1>1. Init => ResponseInv
  BY DEF Init, ResponseInv, Kinds, NoResponse
<1>2. /\ IndexInv /\ RequestInv /\ PathsInv /\ SearchInv /\ BreadthInv
      /\ ResponseInv /\ [Next]_vars
      => ResponseInv'
  <2>. SUFFICES ASSUME IndexInv, RequestInv, PathsInv, SearchInv, BreadthInv, ResponseInv, [Next]_vars
                PROVE  ResponseInv'
    OBVIOUS
  <2>1. CASE Load \/ Ask
    BY <2>1 DEF Load, Ask, ResponseInv, Kinds, NoResponse
  <2>2. CASE UNCHANGED <<network, index, request>> /\ (Find \/ UNCHANGED vars)
    <3>1. /\ \A r : /\ IsDirect(r)' <=> IsDirect(r)
                    /\ IsIndirect(r)' <=> IsIndirect(r)
                    /\ IsBrokerSwap(r)' <=> IsBrokerSwap(r)
                    /\ IsImpossible(r)' <=> IsImpossible(r)
          /\ Unreached' = Unreached /\ FindMultiHopRoute' = FindMultiHopRoute
      BY <2>2, AnswersKept, RoutesKept, LookupsKept
    <3>2. CASE AnswerDirect
      <4>1. IsDirect(response') /\ pc' = "answered" /\ response'.kind = "direct"
        BY <3>2 DEF AnswerDirect, IsDirect, NoResponse
      <4>. QED
        BY <3>1, <4>1 DEF ResponseInv, Kinds
    <3>3. CASE AnswerIndirect
      <4>1. PICK legs \in IndirectLegs(Head(queue)) :
              response' = [NoResponse EXCEPT !.kind = "indirect", !.path = Head(queue), !.inbound = legs,
                             !.pfm = CheckPFMSupport(Head(queue))]
        BY <3>3 DEF AnswerIndirect
      <4>2. IsIndirect(response')
        BY <3>3, <4>1, FoundPaths DEF IsIndirect
      <4>3. response'.kind = "indirect" /\ pc' = "answered"
        BY <3>3, <4>1 DEF NoResponse, AnswerIndirect
      <4>. QED
        BY <3>1, <4>2, <4>3 DEF ResponseInv, Kinds
    <3>4. CASE NoDirectRoute
      <4>1. response' = response /\ pc' = IF IsSameToken THEN "search" ELSE "broker"
        BY <3>4 DEF NoDirectRoute
      <4>. QED
        BY <3>1, <4>1 DEF ResponseInv, Unreached
    <3>5. CASE NoIndirectRoute
      <4>1. Unreached
        BY <3>5, SearchedInVain
      <4>. QED
        BY <3>1, <3>5, <4>1 DEF ResponseInv, NoIndirectRoute
    <3>6. CASE ChooseBrokerRoute
      BY <3>1, <3>6 DEF ChooseBrokerRoute, ResponseInv
    <3>7. CASE NoRoute \/ SwapRefused
      <4>1. pc' = "answered" /\ response' = Impossible /\ Unreached
        BY <3>7 DEF NoRoute, SwapRefused, ResponseInv
      <4>2. response'.kind = "impossible"
        BY <4>1 DEF Impossible, NoResponse
      <4>. QED
        BY <3>1, <4>1, <4>2 DEF ResponseInv, IsImpossible, Kinds
    <3>8. CASE SwapQuoted
      <4>1. pc' = "answered" /\ IsBrokerSwap(response') /\ response'.kind = "brokerSwap"
        BY <3>8 DEF SwapQuoted, ResponseInv, IsBrokerSwap
      <4>. QED
        BY <3>1, <4>1 DEF ResponseInv, Kinds
    <3>9. CASE Explore
      BY <3>9 DEF Explore, ResponseInv
    <3>10. CASE UNCHANGED vars
      BY <3>1, <3>10 DEF vars, ResponseInv
    <3>. QED
      BY <2>2, <3>2, <3>3, <3>4, <3>5, <3>6, <3>7, <3>8, <3>9, <3>10 DEF Find
  <2>3. CASE Find
    BY <2>2, <2>3 DEF Find, AnswerDirect, NoDirectRoute, Explore, AnswerIndirect, NoIndirectRoute,
                      ChooseBrokerRoute, NoRoute, SwapQuoted, SwapRefused
  <2>4. CASE UNCHANGED vars
    BY <2>2, <2>4 DEF vars
  <2>. QED
    BY <2>1, <2>3, <2>4 DEF Next
<1>. QED
  BY <1>1, <1>2, IndexIsBuilt, RequestsAreServed, PathsAreSeqs, SearchStaysSimple, NothingIsLeftOut, PTL DEF Spec

(***************************************************************************)
(* The types.                                                              *)
(***************************************************************************)
LEMMA WrappedDenom ==
  ASSUME NEW d \in Denom, NEW a \in Chains, NEW b \in Chains, a # b
  PROVE  ComputeIBCDenom(<<a, b>>, d) \in Denom
<1>1. <<a, b>> \in Ends
  BY DEF Ends
<1>2. <<<<a, b>>>> \in Seq(Ends)
  BY <1>1
<1>3. <<<<<<a, b>>>>>> \in Seq(Seq(Ends))
  BY <1>2
<1>4. d.base \in Bases /\ d.layers \in Seq(Seq(Ends))
  BY DEF Denom
<1>5. <<<<<<a, b>>>>>> \o d.layers \in Seq(Seq(Ends))
  BY <1>3, <1>4, ConcatProperties
<1>. QED
  BY <1>4, <1>5 DEF ComputeIBCDenom, Denom

LEMMA RouteTokenType ==
  ASSUME NEW d \in Denom, NEW i \in Denom \cup {NoDenom}, NEW b \in Denom, NEW c \in Chains
  PROVE  /\ RouteToken(d, i, b, c) \in ListedTokens
         /\ i \in Denom => RouteToken(d, i, b, c) \in RouteTokens
BY DEF RouteToken, ListedTokens, RouteTokens, TokenInfo

LEMMA RoutesList == RouteTokens \subseteq ListedTokens
BY DEF ListedTokens, RouteTokens, TokenInfo

\* The tokens of a route, own, returning or forwarded.
LEMMA BuiltTokensAreTyped ==
  ASSUME NEW n \in Networks, NEW from \in Chains, NEW to \in Chains, from # to
  PROVE  BuildAllowedTokensForRoute(n, from, to) \subseteq RouteTokens
<1>1. \A c \in Chains : \A x \in n.tokens[c] : /\ x.denom \in Denom /\ x.originDenom \in Denom
                                               /\ x.originChain \in Chains \cup {None}
  BY NetworksAssumption DEF WellFormed, TokenMeta
<1>2. Outgoing(n, from, to) \subseteq RouteTokens
  <2>. SUFFICES ASSUME NEW x \in NativeTokens(n, from)
                PROVE  RouteToken(x.denom, ComputeIBCDenom(<<to, from>>, x.denom), x.denom, from) \in RouteTokens
    BY DEF Outgoing
  <2>1. x.denom \in Denom
    BY <1>1 DEF NativeTokens
  <2>. QED
    BY <2>1, WrappedDenom, RouteTokenType
<1>3. Unwinding(n, from, to) \subseteq RouteTokens
  <2>. SUFFICES ASSUME NEW x \in NativeTokens(n, to)
                PROVE  RouteToken(ComputeIBCDenom(<<from, to>>, x.denom), x.denom, x.denom, to) \in RouteTokens
    BY DEF Unwinding
  <2>1. x.denom \in Denom
    BY <1>1 DEF NativeTokens
  <2>. QED
    BY <2>1, WrappedDenom, RouteTokenType
<1>4. Forwarded(n, from, to) \subseteq RouteTokens
  <2>. SUFFICES ASSUME NEW x \in RoutableTokens(n, from)
                PROVE  RouteToken(x.denom, ComputeForwardedTokenDenom(x, from, to), x.originDenom, x.originChain)
                         \in RouteTokens
    BY DEF Forwarded
  <2>1. x.denom \in Denom /\ x.originDenom \in Denom /\ x.originChain \in Chains
    BY <1>1 DEF RoutableTokens, IsNative
  <2>2. ComputeForwardedTokenDenom(x, from, to) \in Denom
    BY <2>1, WrappedDenom DEF ComputeForwardedTokenDenom
  <2>. QED
    BY <2>1, <2>2, RouteTokenType
<1>. QED
  BY <1>2, <1>3, <1>4 DEF BuildAllowedTokensForRoute, Unseen

LEMMA IndexIsTyped == IndexInv => IndexTypeOK
<1>. SUFFICES ASSUME IndexInv PROVE IndexTypeOK
  OBVIOUS
<1>1. \A c \in Chains : \A to \in DOMAIN index.routes[c] : to \in Chains /\ index.routes[c][to] \subseteq RouteTokens
  <2>. SUFFICES ASSUME NEW c \in Chains, NEW to \in DOMAIN index.routes[c]
                PROVE  to \in Chains /\ index.routes[c][to] \subseteq RouteTokens
    OBVIOUS
  <2>1. to \in BuildRoutesForChain(network, c) /\ index.routes[c][to] = BuildAllowedTokensForRoute(network, c, to)
    BY IndexedRoutes
  <2>2. to \in Chains /\ to # c /\ network \in Networks
    BY <2>1 DEF BuildRoutesForChain, IndexInv
  <2>. QED
    BY <2>1, <2>2, BuiltTokensAreTyped
<1>2. CASE index = NoIndex
  BY <1>1, <1>2 DEF NoIndex, IndexTypeOK
<1>3. CASE index = BuildIndex(network)
  <2> DEFINE routes(c)  == [to \in BuildRoutesForChain(network, c) |-> BuildAllowedTokensForRoute(network, c, to)]
             natives(c) == {RouteToken(t.denom, NoDenom, t.denom, c) :
                              t \in {x \in NativeTokens(network, c) : c \in network.built}}
  <2>1. ASSUME NEW c \in Chains
        PROVE  DenomToTokenInfo(routes(c), natives(c)) \subseteq ListedTokens
    <3>1. natives(c) \subseteq ListedTokens
      <4>. SUFFICES ASSUME NEW x \in NativeTokens(network, c)
                    PROVE  RouteToken(x.denom, NoDenom, x.denom, c) \in ListedTokens
        OBVIOUS
      <4>1. x.denom \in Denom
        BY NetworksAssumption DEF IndexInv, WellFormed, TokenMeta, NativeTokens
      <4>. QED
        BY <4>1, RouteTokenType
    <3>2. index.routes[c] = routes(c)
      BY <1>3 DEF BuildIndex
    <3>3. \A to \in DOMAIN routes(c) : routes(c)[to] \subseteq ListedTokens
      BY <1>1, <3>2, RoutesList
    <3>. HIDE DEF routes, natives
    <3>. QED
      BY <3>1, <3>3 DEF DenomToTokenInfo, Unseen
  <2>2. index.tokens = [c \in Chains |-> DenomToTokenInfo(routes(c), natives(c))]
    BY <1>3 DEF BuildIndex
  <2>. HIDE DEF routes, natives
  <2>3. index.tokens \in [Chains -> SUBSET ListedTokens]
    BY <2>1, <2>2
  <2>4. index.pfm \subseteq Chains
    BY <1>3, NetworksAssumption DEF BuildIndex, IndexInv, WellFormed
  <2>. QED
    BY <1>1, <2>3, <2>4 DEF IndexTypeOK
<1>. QED
  BY <1>2, <1>3 DEF IndexInv

\* What may be looked up is typed.
LEMMA LookupsAreTyped ==
  ASSUME IndexTypeOK
  PROVE  /\ \A c \in Chains : \A d : Info(c, d) \subseteq ListedTokens
         /\ \A c \in Chains : \A t : FindTokenByOrigin(c, t) \subseteq ListedTokens
         /\ \A c \in Chains : \A to : AllowedTokens(c, to) \subseteq RouteTokens
         /\ request.from \in Chains => \A c \in Chains : CurrentTokens(c) \subseteq ListedTokens
<1>1. \A c \in Chains : index.tokens[c] \subseteq ListedTokens
  BY DEF IndexTypeOK
<1>2. /\ \A c \in Chains : \A d : Info(c, d) \subseteq ListedTokens
      /\ \A c \in Chains : \A t : FindTokenByOrigin(c, t) \subseteq ListedTokens
  BY <1>1 DEF Info, FindTokenByOrigin
<1>3. \A c \in Chains : \A to : AllowedTokens(c, to) \subseteq RouteTokens
  BY DEF IndexTypeOK, AllowedTokens
<1>. QED
  BY <1>2, <1>3 DEF CurrentTokens

\* The part of a broker route that is found first.
InboundInfo ==
  [inbound : Seq(Chains), tokenIn : ListedTokens, inboundTokens : Seq(RouteTokens),
   tokenOnBroker : {NoDenom}, outbound : {<< >>}, intermediate : {<< >>}]

LEMMA InboundIsTyped ==
  ASSUME IndexTypeOK, request \in RouteRequest
  PROVE  Inbound \subseteq InboundInfo /\ AtBroker \subseteq InboundInfo
<1>1. request.from \in Chains /\ Broker \in Chains
  BY BrokerAssumption DEF RouteRequest
<1>2. << >> \in Seq(Chains) /\ << >> \in Seq(RouteTokens)
  BY EmptySeq
<1>3. AtBroker \subseteq InboundInfo
  <2>. SUFFICES ASSUME NEW t \in Info(Broker, request.tokenIn)
                PROVE  [NoHopInfo EXCEPT !.tokenIn = t] \in InboundInfo
    BY DEF AtBroker
  <2>1. t \in ListedTokens
    BY <1>1, LookupsAreTyped
  <2>. QED
    BY <1>2, <2>1 DEF NoHopInfo, InboundInfo
<1>4. InboundDirect \subseteq InboundInfo
  <2>. SUFFICES ASSUME NEW t \in AllowedTokens(request.from, Broker)
                PROVE  [NoHopInfo EXCEPT !.inbound = <<request.from>>, !.tokenIn = t] \in InboundInfo
    BY DEF InboundDirect, TokensOf
  <2>1. t \in ListedTokens /\ <<request.from>> \in Seq(Chains)
    BY <1>1, LookupsAreTyped, RoutesList
  <2>. QED
    BY <1>2, <2>1 DEF NoHopInfo, InboundInfo
<1>5. InboundMultiHop \subseteq InboundInfo
  <2>. SUFFICES ASSUME NEW c \in Chains, NEW in \in InboundThrough(c) PROVE in \in InboundInfo
    BY DEF InboundMultiHop
  <2>1. PICK q \in AllowedTokens(request.from, c), u \in AllowedTokens(c, Broker) :
          in = [NoHopInfo EXCEPT !.inbound = <<request.from, c>>, !.tokenIn = q, !.inboundTokens = <<u>>]
    BY DEF InboundThrough, TokensOf
  <2>2. q \in ListedTokens /\ u \in RouteTokens
    BY <1>1, LookupsAreTyped, RoutesList
  <2>3. <<request.from, c>> \in Seq(Chains) /\ <<u>> \in Seq(RouteTokens)
    BY <1>1, <2>2
  <2>. QED
    BY <2>1, <2>2, <2>3 DEF NoHopInfo, InboundInfo
<1>. QED
  BY <1>3, <1>4, <1>5 DEF Inbound

LEMMA HopInfoType ==
  ASSUME NEW in \in InboundInfo, NEW t \in ListedTokens, NEW out \in Seq(Chains), NEW mid \in Seq(RouteTokens)
  PROVE  HopInfo(in, t, out, mid) \in MultiHopInfo
BY DEF HopInfo, InboundInfo, MultiHopInfo

LEMMA TriedAreTyped ==
  ASSUME IndexTypeOK, request \in RouteRequest
  PROVE  FindMultiHopRoute \subseteq MultiHopInfo
<1>1. request.from \in Chains /\ request.to \in Chains /\ Broker \in Chains
  BY BrokerAssumption DEF RouteRequest
<1>2. << >> \in Seq(Chains) /\ << >> \in Seq(RouteTokens) /\ <<request.to>> \in Seq(Chains)
  BY <1>1, EmptySeq
<1>3. ASSUME NEW S, S \subseteq InboundInfo
      PROVE  /\ ToBroker(S) \subseteq MultiHopInfo
             /\ OutboundDirect(S) \subseteq MultiHopInfo
             /\ OutboundMultiHop(S) \subseteq MultiHopInfo
  <2>1. ToBroker(S) \subseteq MultiHopInfo
    <3>. SUFFICES ASSUME NEW in \in S, NEW t \in Info(Broker, request.tokenOut)
                  PROVE  HopInfo(in, t, << >>, << >>) \in MultiHopInfo
      BY DEF ToBroker
    <3>1. in \in InboundInfo /\ t \in ListedTokens
      BY <1>1, <1>3, LookupsAreTyped
    <3>. QED
      BY <1>2, <3>1, HopInfoType
  <2>2. OutboundDirect(S) \subseteq MultiHopInfo
    <3>. SUFFICES ASSUME NEW in \in S, NEW t \in AllowedTokens(Broker, request.to)
                  PROVE  HopInfo(in, t, <<request.to>>, << >>) \in MultiHopInfo
      BY DEF OutboundDirect, BecomesRequested
    <3>1. in \in InboundInfo /\ t \in ListedTokens
      BY <1>1, <1>3, LookupsAreTyped, RoutesList
    <3>. QED
      BY <1>2, <3>1, HopInfoType
  <2>3. OutboundMultiHop(S) \subseteq MultiHopInfo
    <3>. SUFFICES ASSUME NEW token \in Info(request.to, request.tokenOut), NEW x \in OutboundThrough(S, token)
                  PROVE  x \in MultiHopInfo
      BY DEF OutboundMultiHop
    <3> DEFINE origin == token.originChain
    <3>1. PICK in \in S, t \in AllowedTokens(Broker, origin), u \in AllowedTokens(origin, request.to) :
            x = HopInfo(in, t, <<origin, request.to>>, <<u>>)
      BY DEF OutboundThrough, BecomesRequested
    <3>2. token \in ListedTokens
      BY <1>1, LookupsAreTyped
    <3>3. origin \in Chains
      BY <3>2 DEF ListedTokens, TokenInfo
    <3>. HIDE DEF origin
    <3>4. in \in InboundInfo /\ t \in ListedTokens /\ u \in RouteTokens
      BY <1>1, <1>3, <3>3, LookupsAreTyped, RoutesList
    <3>5. <<origin, request.to>> \in Seq(Chains) /\ <<u>> \in Seq(RouteTokens)
      BY <1>1, <3>3, <3>4
    <3>. QED
      BY <3>1, <3>4, <3>5, HopInfoType
  <2>. QED
    BY <2>1, <2>2, <2>3
<1>4. /\ ToBroker(AtBroker) \subseteq MultiHopInfo /\ ToBroker(Inbound) \subseteq MultiHopInfo
      /\ BrokerAsSource \subseteq MultiHopInfo /\ FullBrokerRoute \subseteq MultiHopInfo
  BY <1>3, InboundIsTyped DEF BrokerAsSource, FullBrokerRoute
<1>. QED
  BY <1>4 DEF FindMultiHopRoute

LEMMA LegType ==
  ASSUME NEW from \in Chains, NEW to \in Chains, NEW d \in Denom
  PROVE  Leg(from, to, d) \in RouteLeg
BY DEF Leg, RouteLeg

LEMMA ListedDenoms ==
  ASSUME NEW t \in ListedTokens
  PROVE  t.chainDenom \in Denom /\ (t \in RouteTokens => t.ibcDenom \in Denom)
BY DEF ListedTokens, RouteTokens, TokenInfo

LEMMA IndirectAreTyped ==
  ASSUME IndexTypeOK, request \in RouteRequest, NEW path \in Paths, NEW legs \in IndirectLegs(path)
  PROVE  legs \in Seq(RouteLeg)
<1> DEFINE hops == 1..Len(path) - 1
           tokens == UNION {CurrentTokens(path[i]) : i \in hops}
<1>1. Len(path) - 1 \in Nat /\ path \in Seq(Chains)
  BY PathFacts
<1>2. \A i \in hops : path[i] \in Chains /\ path[i + 1] \in Chains
  <2>. SUFFICES ASSUME NEW i \in hops PROVE path[i] \in Chains /\ path[i + 1] \in Chains
    OBVIOUS
  <2>1. i \in 1..Len(path) /\ i + 1 \in 1..Len(path)
    BY <1>1
  <2>. QED
    BY <1>1, <2>1, ElementOfSeq
<1>3. PICK t \in [hops -> tokens] :
        /\ \A i \in hops : t[i] \in CurrentTokens(path[i])
        /\ legs = [i \in hops |-> Leg(path[i], path[i + 1], t[i].chainDenom)]
  BY DEF IndirectLegs
<1>4. \A i \in hops : Leg(path[i], path[i + 1], t[i].chainDenom) \in RouteLeg
  <2>. SUFFICES ASSUME NEW i \in hops PROVE Leg(path[i], path[i + 1], t[i].chainDenom) \in RouteLeg
    OBVIOUS
  <2>1. t[i] \in ListedTokens
    <3>1. request.from \in Chains
      BY DEF RouteRequest
    <3>. QED
      BY <1>2, <1>3, <3>1, LookupsAreTyped
  <2>. QED
    BY <1>2, <2>1, ListedDenoms, LegType
<1>5. legs \in [hops -> RouteLeg]
  BY <1>3, <1>4
<1>. QED
  BY <1>1, <1>5, FunctionIsSeq

\* The legs to the broker, the swap and the legs behind it.
LEMMA InboundLegsAreTyped ==
  ASSUME IndexTypeOK, request \in RouteRequest, NEW h \in MultiHopInfo, LeadsToBroker(h)
  PROVE  InboundLegs(h) \in Seq(RouteLeg) /\ TokenInOnBroker(h) \in Denom
<1>1. /\ h.inbound \in Seq(Chains) /\ h.tokenIn \in ListedTokens /\ Broker \in Chains
      /\ request.from \in Chains
  BY BrokerAssumption DEF MultiHopInfo, RouteRequest
<1>2. Len(h.inbound) \in Nat /\ DOMAIN h.inbound = 1..Len(h.inbound)
  BY <1>1, LenProperties
<1> DEFINE n == Len(h.inbound)
           stops == h.inbound \o <<Broker>>
           denom(i) == IF i = 1 THEN h.tokenIn.chainDenom ELSE h.inboundTokens[i - 1].chainDenom
<1>3. \A i \in 1..n : stops[i] \in Chains /\ stops[i + 1] \in Chains
  <2>. SUFFICES ASSUME NEW i \in 1..n PROVE stops[i] \in Chains /\ stops[i + 1] \in Chains
    OBVIOUS
  <2>1. <<Broker>> \in Seq(Chains) /\ Len(<<Broker>>) = 1
    BY <1>1
  <2>2. stops \in Seq(Chains) /\ Len(stops) = n + 1
    BY <1>1, <2>1, ConcatProperties
  <2>. HIDE DEF stops, n
  <2>3. i \in 1..Len(stops) /\ i + 1 \in 1..Len(stops)
    BY <1>2, <2>2 DEF n
  <2>. QED
    BY <2>2, <2>3, ElementOfSeq
<1>4. \A i \in 1..n : denom(i) \in Denom
  <2>1. h.tokenIn.chainDenom \in Denom
    BY <1>1, ListedDenoms
  <2>2. CASE AtSource(h) \/ OverOneHop(h)
    <3>1. n \in {0, 1}
      <4>1. Len(<< >>) = 0 /\ Len(<<request.from>>) = 1
        OBVIOUS
      <4>2. h.inbound = << >> \/ h.inbound = <<request.from>>
        BY <2>2 DEF AtSource, OverOneHop
      <4>. QED
        BY <4>1, <4>2
    <3>2. \A i \in 1..n : i = 1
      <4>. HIDE DEF n
      <4>. QED
        BY <3>1
    <3>. QED
      BY <2>1, <3>2
  <2>3. CASE OverTwoHops(h)
    <3>1. PICK c \in Chains : \E u \in AllowedTokens(c, Broker) :
            h.inbound = <<request.from, c>> /\ h.inboundTokens = <<u>>
      BY <2>3 DEF OverTwoHops
    <3>2. PICK u \in AllowedTokens(c, Broker) : h.inbound = <<request.from, c>> /\ h.inboundTokens = <<u>>
      BY <3>1
    <3>3. u.chainDenom \in Denom
      BY <3>2, LookupsAreTyped, RoutesList, ListedDenoms
    <3>4. n = 2 /\ h.inboundTokens[1] = u
      BY <3>2
    <3>5. \A i \in 1..n : i = 1 \/ i - 1 = 1
      <4>. HIDE DEF n
      <4>. QED
        BY <3>4
    <3>. QED
      BY <2>1, <3>3, <3>4, <3>5
  <2>. QED
    BY <2>2, <2>3 DEF LeadsToBroker
<1>5. InboundLegs(h) = [i \in 1..n |-> Leg(stops[i], stops[i + 1], denom(i))]
  BY <1>2 DEF InboundLegs
<1>. HIDE DEF n, stops, denom
<1>6. [i \in 1..n |-> Leg(stops[i], stops[i + 1], denom(i))] \in [1..n -> RouteLeg]
  BY <1>3, <1>4, LegType
<1>7. InboundLegs(h) \in Seq(RouteLeg)
  BY <1>2, <1>5, <1>6, FunctionIsSeq DEF n
<1>8. TokenInOnBroker(h) \in Denom
  <2>1. CASE AtSource(h)
    BY <1>1, <2>1, ListedDenoms DEF AtSource, TokenInOnBroker
  <2>2. CASE OverOneHop(h)
    <3>1. h.tokenIn \in RouteTokens /\ h.inbound # << >> /\ h.inboundTokens = << >>
      BY <1>1, <2>2, LookupsAreTyped DEF OverOneHop, TokensOf
    <3>. QED
      BY <1>1, <3>1, ListedDenoms DEF TokenInOnBroker
  <2>3. CASE OverTwoHops(h)
    <3>1. PICK c \in Chains : \E u \in AllowedTokens(c, Broker) :
            h.inbound = <<request.from, c>> /\ h.inboundTokens = <<u>>
      BY <2>3 DEF OverTwoHops
    <3>2. PICK u \in AllowedTokens(c, Broker) : h.inbound = <<request.from, c>> /\ h.inboundTokens = <<u>>
      BY <3>1
    <3>3. u.ibcDenom \in Denom
      BY <3>2, LookupsAreTyped, RoutesList, ListedDenoms
    <3>4. h.inbound # << >> /\ h.inboundTokens # << >> /\ Last(h.inboundTokens) = u
      BY <3>2 DEF Last
    <3>. QED
      BY <3>3, <3>4 DEF TokenInOnBroker
  <2>. QED
    BY <2>1, <2>2, <2>3 DEF LeadsToBroker
<1>. QED
  BY <1>7, <1>8

LEMMA OutboundLegsAreTyped ==
  ASSUME NEW h \in MultiHopInfo
  PROVE  OutboundLegs(h) \in Seq(RouteLeg)
<1>1. /\ h.outbound \in Seq(Chains) /\ h.tokenOnBroker \in ListedTokens /\ h.intermediate \in Seq(RouteTokens)
      /\ Broker \in Chains
  BY BrokerAssumption DEF MultiHopInfo
<1>2. Len(h.outbound) \in Nat /\ DOMAIN h.outbound = 1..Len(h.outbound) /\ Len(h.intermediate) \in Nat
  BY <1>1, LenProperties
<1> DEFINE n == Len(h.outbound)
           stops == <<Broker>> \o h.outbound
           denom(i) == IF i > 1 /\ i - 1 < Len(h.intermediate) THEN h.intermediate[i - 1].chainDenom
                                                              ELSE h.tokenOnBroker.chainDenom
<1>3. \A i \in 1..n : stops[i] \in Chains /\ stops[i + 1] \in Chains
  <2>. SUFFICES ASSUME NEW i \in 1..n PROVE stops[i] \in Chains /\ stops[i + 1] \in Chains
    OBVIOUS
  <2>1. <<Broker>> \in Seq(Chains) /\ Len(<<Broker>>) = 1
    BY <1>1
  <2>2. stops \in Seq(Chains) /\ Len(stops) = 1 + n
    BY <1>1, <2>1, ConcatProperties
  <2>. HIDE DEF stops, n
  <2>3. i \in 1..Len(stops) /\ i + 1 \in 1..Len(stops)
    BY <1>2, <2>2 DEF n
  <2>. QED
    BY <2>2, <2>3, ElementOfSeq
<1>4. \A i \in 1..n : denom(i) \in Denom
  <2>. SUFFICES ASSUME NEW i \in 1..n PROVE denom(i) \in Denom
    OBVIOUS
  <2>1. h.tokenOnBroker.chainDenom \in Denom
    BY <1>1, ListedDenoms
  <2>2. ASSUME i > 1, i - 1 < Len(h.intermediate)
        PROVE  h.intermediate[i - 1].chainDenom \in Denom
    <3>1. i - 1 \in 1..Len(h.intermediate)
      BY <1>2, <2>2
    <3>2. h.intermediate[i - 1] \in RouteTokens
      BY <1>1, <3>1, ElementOfSeq
    <3>. QED
      BY <3>2, RoutesList, ListedDenoms
  <2>. QED
    BY <2>1, <2>2
<1>5. OutboundLegs(h) = [i \in 1..n |-> Leg(stops[i], stops[i + 1], denom(i))]
  BY <1>2 DEF OutboundLegs
<1>. HIDE DEF n, stops, denom
<1>6. [i \in 1..n |-> Leg(stops[i], stops[i + 1], denom(i))] \in [1..n -> RouteLeg]
  BY <1>3, <1>4, LegType
<1>. QED
  BY <1>2, <1>5, <1>6, FunctionIsSeq DEF n

LEMMA AnswersAreTyped ==
  ASSUME IndexTypeOK, request \in RouteRequest, NEW r,
         IsDirect(r) \/ IsIndirect(r) \/ IsBrokerSwap(r) \/ IsImpossible(r)
  PROVE  r \in RouteResponse
<1>1. request.from \in Chains /\ request.to \in Chains /\ request.tokenIn \in Denom /\ Broker \in Chains
  BY BrokerAssumption DEF RouteRequest
<1>2. << >> \in Seq(Chains) /\ << >> \in Seq(RouteLeg)
  BY EmptySeq
<1>3. CASE IsDirect(r)
  <2>1. r = [kind |-> "direct", path |-> <<request.from, request.to>>,
             inbound |-> <<Leg(request.from, request.to, request.tokenIn)>>, swap |-> << >>, outbound |-> << >>,
             pfm |-> FALSE]
    BY <1>3 DEF IsDirect, NoResponse
  <2>2. <<Leg(request.from, request.to, request.tokenIn)>> \in Seq(RouteLeg)
    BY <1>1, LegType
  <2>3. <<request.from, request.to>> \in Seq(Chains)
    BY <1>1
  <2>. QED
    BY <1>2, <2>1, <2>2, <2>3 DEF RouteResponse, Kinds
<1>4. CASE IsIndirect(r)
  <2>1. PICK path : /\ FoundPath(path)
                    /\ \E legs \in IndirectLegs(path) :
                         r = [NoResponse EXCEPT !.kind = "indirect", !.path = path, !.inbound = legs,
                                !.pfm = CheckPFMSupport(path)]
    BY <1>4 DEF IsIndirect
  <2>2. PICK legs \in IndirectLegs(path) :
          r = [kind |-> "indirect", path |-> path, inbound |-> legs, swap |-> << >>, outbound |-> << >>,
               pfm |-> CheckPFMSupport(path)]
    BY <2>1 DEF NoResponse
  <2>3. path \in Seq(Chains) /\ legs \in Seq(RouteLeg) /\ CheckPFMSupport(path) \in BOOLEAN
    BY <2>1, <2>2, IndirectAreTyped DEF FoundPath, Paths, CheckPFMSupport
  <2>. QED
    BY <1>2, <2>2, <2>3 DEF RouteResponse, Kinds
<1>5. CASE IsBrokerSwap(r)
  <2>1. PICK h \in FindMultiHopRoute :
          r = [kind |-> "brokerSwap", path |-> BrokerPath(h), inbound |-> InboundLegs(h),
               swap |-> <<Swap(h)>>, outbound |-> OutboundLegs(h), pfm |-> OutboundPFM(h)]
    BY <1>5 DEF IsBrokerSwap
  <2>2. h \in MultiHopInfo /\ LeadsToBroker(h)
    BY TriedAreTyped, TriedRoutes
  <2>3. BrokerPath(h) \in Seq(Chains)
    <3>1. h.inbound \in Seq(Chains) /\ <<Broker>> \in Seq(Chains) /\ <<request.to>> \in Seq(Chains)
      BY <1>1, <2>2 DEF MultiHopInfo
    <3>2. h.inbound \o <<Broker>> \in Seq(Chains)
      BY <3>1, ConcatProperties
    <3>3. /\ (h.inbound \o <<Broker>>) \o <<request.to>> \in Seq(Chains)
          /\ (h.inbound \o <<Broker>>) \o << >> \in Seq(Chains)
      BY <1>2, <3>1, <3>2, ConcatProperties
    <3>. QED
      BY <3>3 DEF BrokerPath
  <2>4. InboundLegs(h) \in Seq(RouteLeg) /\ OutboundLegs(h) \in Seq(RouteLeg) /\ OutboundPFM(h) \in BOOLEAN
    BY <2>2, InboundLegsAreTyped, OutboundLegsAreTyped DEF OutboundPFM
  <2>5. Swap(h) \in RouteLeg
    <3>1. TokenInOnBroker(h) \in Denom
      BY <2>2, InboundLegsAreTyped
    <3>2. h.tokenOnBroker.chainDenom \in Denom
      BY <2>2, ListedDenoms DEF MultiHopInfo
    <3>. QED
      BY <1>1, <3>1, <3>2 DEF Swap, RouteLeg
  <2>6. <<Swap(h)>> \in Seq(RouteLeg)
    BY <2>5
  <2>. QED
    BY <2>1, <2>3, <2>4, <2>6 DEF RouteResponse, Kinds
<1>6. CASE IsImpossible(r)
  BY <1>2, <1>6 DEF IsImpossible, Impossible, NoResponse, RouteResponse, Kinds
<1>. QED
  BY <1>3, <1>4, <1>5, <1>6

\* What the server holds of the request it serves, and nothing of an earlier one.
HeldInv ==
  /\ request \in RouteRequest \cup {NoRequest}
  /\ hopInfo = NoHopInfo \/ (Serving /\ hopInfo \in FindMultiHopRoute)
  /\ pc # "answered" => response = NoResponse

LEMMA HeldIsOfRequest == Spec => []HeldInv
<1>1. Init => HeldInv
  BY DEF Init, HeldInv
<1>2. IndexInv /\ RequestInv /\ HeldInv /\ [Next]_vars => HeldInv'
  <2>. SUFFICES ASSUME IndexInv, RequestInv, HeldInv, [Next]_vars PROVE HeldInv'
    OBVIOUS
  <2>1. CASE Load
    BY <2>1 DEF Load, HeldInv, Serving
  <2>2. CASE Ask
    <3>1. PICK from \in network.built, to \in network.built :
            \E source \in index.tokens[from], inferred \in BOOLEAN :
              \E out \in IF inferred THEN InferTokenToDenom(source, to) ELSE index.tokens[to] :
                request' = [from |-> from, to |-> to, tokenIn |-> source.chainDenom,
                            tokenOut |-> out.chainDenom, inferred |-> inferred]
      BY <2>2 DEF Ask
    <3>2. PICK source \in index.tokens[from], out \in index.tokens[to], inferred \in BOOLEAN :
            request' = [from |-> from, to |-> to, tokenIn |-> source.chainDenom,
                        tokenOut |-> out.chainDenom, inferred |-> inferred]
      BY <3>1 DEF InferTokenToDenom, FindTokenByOrigin
    <3>3. from \in Chains /\ to \in Chains
      BY ConfiguredAreChains
    <3>4. source \in ListedTokens /\ out \in ListedTokens
      BY <3>3, IndexIsTyped DEF IndexTypeOK
    <3>5. request' \in RouteRequest
      BY <3>2, <3>3, <3>4, ListedDenoms DEF RouteRequest
    <3>. QED
      BY <2>2, <3>5 DEF Ask, HeldInv
  <2>3. CASE Find
    <3>1. /\ UNCHANGED <<network, index, request>> /\ Serving' /\ pc # "answered"
          /\ response' = response \/ pc' = "answered"
          /\ hopInfo' = hopInfo \/ hopInfo' \in FindMultiHopRoute
      BY <2>3 DEF Find, AnswerDirect, NoDirectRoute, Explore, AnswerIndirect, NoIndirectRoute,
                  ChooseBrokerRoute, NoRoute, SwapQuoted, SwapRefused, Serving
    <3>2. FindMultiHopRoute' = FindMultiHopRoute
      BY <3>1, RoutesKept
    <3>. QED
      BY <3>1, <3>2 DEF HeldInv
  <2>4. CASE UNCHANGED vars
    <3>1. FindMultiHopRoute' = FindMultiHopRoute
      BY <2>4, RoutesKept DEF vars
    <3>. QED
      BY <2>4, <3>1 DEF vars, HeldInv, Serving
  <2>. QED
    BY <2>1, <2>2, <2>3, <2>4 DEF Next
<1>. QED
  BY <1>1, <1>2, IndexIsBuilt, RequestsAreServed, PTL DEF Spec

\* Every variable has its type, for any set of chains and any configuration,
\* forwarded tokens included: what the index says of tokens, what is asked, the
\* broker route that is tried and the legs of an answer name chains and
\* denominations and never something that is missing; and the search goes along
\* simple paths.
THEOREM SearchIsTyped == Spec => []TypeOK
<1>1. IndexInv /\ RequestInv /\ PathsInv /\ SearchInv /\ ResponseInv /\ HeldInv => TypeOK
  <2>. SUFFICES ASSUME IndexInv, RequestInv, PathsInv, SearchInv, ResponseInv, HeldInv PROVE TypeOK
    OBVIOUS
  <2>1. ASSUME NEW i \in DOMAIN queue
        PROVE  IsInjective(queue[i]) /\ Head(queue[i]) = request.from
    <3>1. queue[i] \in Range(queue)
      BY DEF Range
    <3>2. queue[i] \in Paths
      BY <3>1, QueueFacts DEF PathsInv
    <3>. QED
      BY <3>1, <3>2, PathFacts DEF SearchInv, IsSimple
  <2>2. queue \in Seq(Seq(Chains))
    BY SeqMonotonic DEF PathsInv, Paths
  <2>3. IndexTypeOK
    BY IndexIsTyped
  <2>4. Serving => request \in RouteRequest
    <3>1. Serving => request.from \in Chains
      BY ConfiguredAreChains DEF RequestInv
    <3>2. NoRequest.from \notin Chains
      BY ChainsAssumption DEF NoRequest, None
    <3>. QED
      BY <3>1, <3>2 DEF HeldInv
  <2>5. hopInfo \in MultiHopInfo \cup {NoHopInfo}
    BY <2>3, <2>4, TriedAreTyped DEF HeldInv
  <2>6. response \in RouteResponse
    <3>1. CASE pc = "answered"
      <4>1. Serving
        BY <3>1 DEF Serving
      <4>. QED
        BY <2>3, <2>4, <3>1, <4>1, AnswersAreTyped DEF ResponseInv
    <3>2. CASE pc # "answered"
      <4>1. << >> \in Seq(Chains) /\ << >> \in Seq(RouteLeg)
        BY EmptySeq
      <4>2. response = NoResponse
        BY <3>2 DEF HeldInv
      <4>. QED
        BY <4>1, <4>2 DEF NoResponse, RouteResponse, Kinds
    <3>. QED
      BY <3>1, <3>2
  <2>. QED
    BY <2>1, <2>2, <2>3, <2>5, <2>6 DEF TypeOK, IndexInv, RequestInv, SearchInv, HeldInv
<1>. QED
  BY <1>1, IndexIsBuilt, RequestsAreServed, PathsAreSeqs, SearchStaysSimple, AnswersAreKnown, HeldIsOfRequest, PTL

(***************************************************************************)
(* The legs of an answer lead from chain to chain.                         *)
(***************************************************************************)
Answered(r) == IsDirect(r) \/ IsIndirect(r) \/ IsBrokerSwap(r) \/ IsImpossible(r)

\* Leg i leads from stop i to the next one.
Connects(legs, stops) ==
  /\ IsSeq(legs) /\ stops \in Paths /\ Len(stops) = Len(legs) + 1
  /\ \A i \in 1..Len(legs) : /\ legs[i].from = stops[i] /\ legs[i].to = stops[i + 1]
                             /\ stops[i] # stops[i + 1]

\* Only the last stop may be a chain whose configuration could not be built.
Configured(stops) == \A i \in 1..Len(stops) - 1 : stops[i] \in network.built

LEMMA ListOfLegs ==
  ASSUME NEW a, NEW b
  PROVE  /\ IsSeq(<<a, b>>) /\ Len(<<a, b>>) = 2 /\ <<a, b>>[1] = a /\ <<a, b>>[2] = b
         /\ Last(<<a, b>>) = b /\ Last(<<a>>) = a
<1>1. IsSeq(<<a, b>>)
  BY ShortLists
<1>. QED
  BY <1>1 DEF Last

LEMMA ShortConcats ==
  ASSUME NEW a, NEW b, NEW c
  PROVE  /\ << >> \o <<a>> = <<a>> /\ <<a>> \o << >> = <<a>> /\ <<a>> \o <<b>> = <<a, b>>
         /\ <<a, b>> \o <<c>> = <<a, b, c>> /\ <<a>> \o <<b, c>> = <<a, b, c>>
<1>1. << >> \o <<a>> = <<a>> /\ <<a>> \o << >> = <<a>>
  OBVIOUS
<1> DEFINE S == {a, b, c}
<1>2. /\ <<a>> \in Seq(S) /\ <<b>> \in Seq(S) /\ <<c>> \in Seq(S)
      /\ <<a, b>> \in Seq(S) /\ <<b, c>> \in Seq(S) /\ <<a, b, c>> \in Seq(S)
      /\ Len(<<a>>) = 1 /\ Len(<<b>>) = 1 /\ Len(<<c>>) = 1
      /\ Len(<<a, b>>) = 2 /\ Len(<<b, c>>) = 2 /\ Len(<<a, b, c>>) = 3
  OBVIOUS
<1>. HIDE DEF S
<1>3. /\ \A i \in 1..2 : i = 1 \/ i = 2
      /\ \A i \in 1..3 : i = 1 \/ i = 2 \/ i = 3
  OBVIOUS
<1>4. <<a>> \o <<b>> = <<a, b>>
  <2>1. <<a>> \o <<b>> \in Seq(S) /\ Len(<<a>> \o <<b>>) = 2
    BY <1>2, ConcatProperties
  <2>2. \A i \in 1..2 : (<<a>> \o <<b>>)[i] = IF i <= 1 THEN <<a>>[i] ELSE <<b>>[i - 1]
    BY <1>2, ConcatProperties
  <2>3. \A i \in 1..2 : (<<a>> \o <<b>>)[i] = <<a, b>>[i]
    BY <1>3, <2>2
  <2>. QED
    BY <1>2, <2>1, <2>3, SeqEqual
<1>5. <<a, b>> \o <<c>> = <<a, b, c>>
  <2>1. <<a, b>> \o <<c>> \in Seq(S) /\ Len(<<a, b>> \o <<c>>) = 3
    BY <1>2, ConcatProperties
  <2>2. \A i \in 1..3 : (<<a, b>> \o <<c>>)[i] = IF i <= 2 THEN <<a, b>>[i] ELSE <<c>>[i - 2]
    BY <1>2, ConcatProperties
  <2>3. \A i \in 1..3 : (<<a, b>> \o <<c>>)[i] = <<a, b, c>>[i]
    BY <1>3, <2>2
  <2>. QED
    BY <1>2, <2>1, <2>3, SeqEqual
<1>6. <<a>> \o <<b, c>> = <<a, b, c>>
  <2>1. <<a>> \o <<b, c>> \in Seq(S) /\ Len(<<a>> \o <<b, c>>) = 3
    BY <1>2, ConcatProperties
  <2>2. \A i \in 1..3 : (<<a>> \o <<b, c>>)[i] = IF i <= 1 THEN <<a>>[i] ELSE <<b, c>>[i - 1]
    BY <1>2, ConcatProperties
  <2>3. \A i \in 1..3 : (<<a>> \o <<b, c>>)[i] = <<a, b, c>>[i]
    BY <1>3, <2>2
  <2>. QED
    BY <1>2, <2>1, <2>3, SeqEqual
<1>. QED
  BY <1>1, <1>4, <1>5, <1>6

\* A chain that is a stop of its own has no legs.
LEMMA StayingConnects ==
  ASSUME NEW legs, IsSeq(legs), Len(legs) = 0, NEW c \in Chains
  PROVE  /\ Connects(legs, <<c>>) /\ Configured(<<c>>)
         /\ Len(<<c>>) = 1 /\ <<c>>[1] = c /\ Last(<<c>>) = c
<1>1. <<c>> \in Paths /\ Len(<<c>>) = 1 /\ <<c>>[1] = c
  BY DEF Paths
<1>2. \A i : i \notin 1..0
  OBVIOUS
<1>. QED
  BY <1>1, <1>2 DEF Connects, Configured, Last

LEMMA OneLegConnects ==
  ASSUME NEW legs, IsSeq(legs), Len(legs) = 1, NEW c \in Chains, NEW d \in Chains, c # d, c \in network.built,
         legs[1].from = c, legs[1].to = d
  PROVE  /\ Connects(legs, <<c, d>>) /\ Configured(<<c, d>>)
         /\ Len(<<c, d>>) = 2 /\ <<c, d>>[1] = c /\ <<c, d>>[2] = d /\ Last(<<c, d>>) = d
<1>1. <<c, d>> \in Paths /\ Len(<<c, d>>) = 2 /\ <<c, d>>[1] = c /\ <<c, d>>[2] = d
  BY DEF Paths
<1>2. \A i : i \in 1..1 <=> i = 1
  OBVIOUS
<1>. QED
  BY <1>1, <1>2 DEF Connects, Configured, Last

LEMMA DirectConnects ==
  ASSUME IndexInv, RequestInv, Serving, FindDirectRoute
  PROVE  Connects(<<Leg(request.from, request.to, request.tokenIn)>>, <<request.from, request.to>>)
<1> DEFINE leg == Leg(request.from, request.to, request.tokenIn)
<1>1. request.from \in Chains /\ request.to \in Chains
  BY ConfiguredAreChains DEF RequestInv
<1>2. request.from # request.to
  BY <1>1, AllowedFacts DEF FindDirectRoute, Denoms
<1>3. leg.from = request.from /\ leg.to = request.to
  BY DEF Leg
<1>4. IsSeq(<<leg>>) /\ Len(<<leg>>) = 1 /\ <<leg>>[1] = leg
  BY SingletonFacts
<1>. QED
  BY <1>1, <1>2, <1>3, <1>4, OneLegConnects DEF RequestInv

LEMMA IndirectConnects ==
  ASSUME NEW path, FoundPath(path), NEW legs \in IndirectLegs(path)
  PROVE  /\ Connects(legs, path)
         /\ \A i \in 1..Len(legs) : \E t \in CurrentTokens(path[i]) : legs[i].denom = t.chainDenom
<1> DEFINE n == Len(path) - 1
           hops == 1..n
<1>1. path \in Paths /\ n \in Nat /\ Len(path) = n + 1 /\ DOMAIN path = 1..n + 1
  BY PathFacts DEF FoundPath
<1>2. PICK t \in [hops -> UNION {CurrentTokens(path[i]) : i \in hops}] :
        /\ \A i \in hops : t[i] \in CurrentTokens(path[i])
        /\ legs = [i \in hops |-> Leg(path[i], path[i + 1], t[i].chainDenom)]
  BY DEF IndirectLegs
<1>3. legs \in [1..n -> Range(legs)]
  BY <1>2, SMTT(30) DEF Range
<1>4. IsSeq(legs) /\ Len(legs) = n
  BY <1>1, <1>3, FunctionIsSeq
<1>5. \A i \in 1..n : legs[i].from = path[i] /\ legs[i].to = path[i + 1] /\ legs[i].denom = t[i].chainDenom
  BY <1>2 DEF Leg
<1>6. \A i \in 1..n : path[i] # path[i + 1]
  <2>1. \A i \in 1..n : i \in DOMAIN path /\ i + 1 \in DOMAIN path /\ i # i + 1
    BY <1>1
  <2>. QED
    BY <2>1 DEF FoundPath, IsInjective
<1>7. Connects(legs, path)
  BY <1>1, <1>4, <1>5, <1>6 DEF Connects
<1>. QED
  BY <1>2, <1>4, <1>5, <1>7

\* The chains on the way to the broker, and on from it.
InboundStops(h)  == h.inbound \o <<Broker>>
OutboundStops(h) == <<Broker>> \o h.outbound

LEMMA InboundConnects ==
  ASSUME IndexInv, RequestInv, Serving, Broker \in network.built, NEW h, LeadsToBroker(h)
  PROVE  /\ Connects(InboundLegs(h), InboundStops(h)) /\ Configured(InboundStops(h))
         /\ InboundStops(h)[1] = request.from /\ Last(InboundStops(h)) = Broker
         /\ Len(InboundLegs(h)) = Len(h.inbound) /\ Len(h.inbound) \in 0..2
<1>1. request.from \in Chains /\ request.from \in network.built /\ Broker \in Chains
  BY ConfiguredAreChains, BrokerAssumption DEF RequestInv
<1>2. CASE AtSource(h)
  <2>1. h.inbound = << >> /\ InboundStops(h) = <<Broker>> /\ request.from = Broker
    BY <1>2, ShortConcats DEF AtSource, InboundStops
  <2>2. InboundLegs(h) \in [1..0 -> {}]
    BY <2>1 DEF InboundLegs
  <2>3. IsSeq(InboundLegs(h)) /\ Len(InboundLegs(h)) = 0
    BY <2>2, FunctionIsSeq
  <2>. QED
    BY <1>1, <2>1, <2>3, StayingConnects, EmptyFacts
<1>3. CASE OverOneHop(h)
  <2>1. h.inbound = <<request.from>> /\ InboundStops(h) = <<request.from, Broker>> /\ Len(h.inbound) = 1
    BY <1>3, ShortConcats DEF OverOneHop, InboundStops
  <2>2. request.from # Broker
    BY <1>1, <1>3, AllowedFacts DEF OverOneHop, TokensOf
  <2>3. InboundLegs(h) = [i \in 1..1 |-> Leg(request.from, Broker, h.tokenIn.chainDenom)]
    BY <2>1 DEF InboundLegs, InboundStops
  <2>4. InboundLegs(h) \in [1..1 -> {Leg(request.from, Broker, h.tokenIn.chainDenom)}]
    BY <2>3
  <2>5. IsSeq(InboundLegs(h)) /\ Len(InboundLegs(h)) = 1
    BY <2>4, FunctionIsSeq
  <2>6. InboundLegs(h)[1].from = request.from /\ InboundLegs(h)[1].to = Broker
    BY <2>3 DEF Leg
  <2>. QED
    BY <1>1, <2>1, <2>2, <2>5, <2>6, OneLegConnects
<1>4. CASE OverTwoHops(h)
  <2>1. PICK c \in Chains \ {request.from, Broker} : \E u \in AllowedTokens(c, Broker) :
          /\ h.inbound = <<request.from, c>> /\ h.inboundTokens = <<u>>
          /\ h.tokenIn \in TokensOf(AllowedTokens(request.from, c), request.tokenIn)
    BY <1>4 DEF OverTwoHops
  <2>2. c \in network.built
    BY <2>1, AllowedFacts
  <2>3. InboundStops(h) = <<request.from, c, Broker>>
    <3>1. <<request.from, c>> \o <<Broker>> = <<request.from, c, Broker>>
      BY ShortConcats
    <3>. QED
      BY <2>1, <3>1 DEF InboundStops
  <2>4. InboundLegs(h) = [i \in 1..2 |-> Leg(InboundStops(h)[i], InboundStops(h)[i + 1],
                            IF i = 1 THEN h.tokenIn.chainDenom ELSE h.inboundTokens[i - 1].chainDenom)]
    BY <2>1 DEF InboundLegs, InboundStops
  <2>5. InboundLegs(h) \in [1..2 -> Range(InboundLegs(h))]
    BY <2>4 DEF Range
  <2>6. IsSeq(InboundLegs(h)) /\ Len(InboundLegs(h)) = 2
    BY <2>5, FunctionIsSeq
  <2>7. \A i \in 1..2 : InboundLegs(h)[i].from = InboundStops(h)[i] /\ InboundLegs(h)[i].to = InboundStops(h)[i + 1]
    BY <2>4 DEF Leg
  <2>8. /\ InboundStops(h) \in Paths /\ Len(InboundStops(h)) = 3
        /\ InboundStops(h)[1] = request.from /\ InboundStops(h)[2] = c /\ InboundStops(h)[3] = Broker
    BY <1>1, <2>3 DEF Paths
  <2>9. \A i \in 1..2 : InboundStops(h)[i] # InboundStops(h)[i + 1]
    BY <2>1, <2>8
  <2>10. Len(h.inbound) = 2 /\ Last(InboundStops(h)) = Broker
    BY <2>1, <2>8 DEF Last
  <2>11. \A i \in 1..2 : i = 1 \/ i = 2
    OBVIOUS
  <2>12. Configured(InboundStops(h))
    BY <1>1, <2>2, <2>8, <2>11 DEF Configured
  <2>. QED
    BY <2>6, <2>7, <2>8, <2>9, <2>10, <2>12 DEF Connects
<1>. QED
  BY <1>2, <1>3, <1>4 DEF LeadsToBroker

\* The swap leaves the token on the broker; from there it goes on.
LEMMA OutboundConnects ==
  ASSUME IndexInv, RequestInv, Serving, Broker \in network.built, NEW h, LeadsOn(h)
  PROVE  /\ Connects(OutboundLegs(h), OutboundStops(h)) /\ Configured(OutboundStops(h))
         /\ OutboundStops(h)[1] = Broker /\ Last(OutboundStops(h)) = request.to
         /\ Len(OutboundLegs(h)) = Len(h.outbound) /\ Len(h.outbound) \in 0..2
         /\ h.outbound = << >> <=> Len(h.outbound) = 0
         /\ Len(h.outbound) = 2 => OutboundStops(h)[2] # request.to
         /\ \A i \in 1..Len(h.outbound) : OutboundLegs(h)[i].denom = h.tokenOnBroker.chainDenom
<1>1. request.to \in Chains /\ request.to \in network.built /\ Broker \in Chains
  BY ConfiguredAreChains, BrokerAssumption DEF RequestInv
<1>2. CASE AtDestination(h)
  <2>1. h.outbound = << >> /\ OutboundStops(h) = <<Broker>> /\ request.to = Broker
    BY <1>2, ShortConcats DEF AtDestination, OutboundStops
  <2>2. OutboundLegs(h) \in [1..0 -> {}]
    BY <2>1 DEF OutboundLegs
  <2>3. IsSeq(OutboundLegs(h)) /\ Len(OutboundLegs(h)) = 0
    BY <2>2, FunctionIsSeq
  <2>. QED
    BY <1>1, <2>1, <2>3, StayingConnects, EmptyFacts
<1>3. CASE BackOneHop(h)
  <2>1. /\ h.outbound = <<request.to>> /\ OutboundStops(h) = <<Broker, request.to>>
        /\ Len(h.outbound) = 1 /\ h.outbound # << >>
    <3>1. <<Broker>> \o <<request.to>> = <<Broker, request.to>>
      BY ShortConcats
    <3>. QED
      BY <1>3, <3>1 DEF BackOneHop, OutboundStops
  <2>2. request.to # Broker
    BY <1>1, <1>3, AllowedFacts DEF BackOneHop, BecomesRequested
  <2>3. OutboundLegs(h) = [i \in 1..1 |-> Leg(Broker, request.to, h.tokenOnBroker.chainDenom)]
    <3>1. DOMAIN h.outbound = 1..1
      BY <2>1
    <3>2. \A i \in 1..1 : ~(i > 1) /\ (<<Broker>> \o h.outbound)[i] = Broker /\ (<<Broker>> \o h.outbound)[i + 1] = request.to
      BY <2>1
    <3>. QED
      BY <3>1, <3>2 DEF OutboundLegs
  <2>4. OutboundLegs(h) \in [1..1 -> {Leg(Broker, request.to, h.tokenOnBroker.chainDenom)}]
    BY <2>3
  <2>5. IsSeq(OutboundLegs(h)) /\ Len(OutboundLegs(h)) = 1
    BY <2>4, FunctionIsSeq
  <2>6. /\ OutboundLegs(h)[1].from = Broker /\ OutboundLegs(h)[1].to = request.to
        /\ OutboundLegs(h)[1].denom = h.tokenOnBroker.chainDenom
    BY <2>3 DEF Leg
  <2>7. \A i : i \in 1..1 <=> i = 1
    OBVIOUS
  <2>. QED
    BY <1>1, <2>1, <2>2, <2>5, <2>6, <2>7, OneLegConnects
<1>4. CASE OverHome(h)
  <2>1. PICK token \in Info(request.to, request.tokenOut) :
          /\ token.originChain \notin {Broker, request.to}
          /\ h.outbound = <<token.originChain, request.to>>
          /\ h.tokenOnBroker \in AllowedTokens(Broker, token.originChain)
          /\ BecomesRequested(AllowedTokens(token.originChain, request.to)) # {}
          /\ Len(h.intermediate) = 1
    BY <1>4 DEF OverHome
  <2> DEFINE origin == token.originChain
  <2>2. origin \in Chains
    BY <1>1, <2>1, AllowedFacts
  <2>3. origin \in network.built
    BY <2>1, <2>2, AllowedFacts DEF BecomesRequested
  <2>. HIDE DEF origin
  <2>4. OutboundStops(h) = <<Broker, origin, request.to>>
    BY <2>1, ShortConcats, ZenonT(60) DEF OutboundStops, origin
  <2>5. OutboundLegs(h) = [i \in 1..2 |-> Leg(OutboundStops(h)[i], OutboundStops(h)[i + 1], h.tokenOnBroker.chainDenom)]
    <3>1. DOMAIN h.outbound = 1..2
      BY <2>1
    <3>2. \A i \in 1..2 : ~(i > 1 /\ i - 1 < Len(h.intermediate))
      BY <2>1
    <3>. QED
      BY <3>1, <3>2 DEF OutboundLegs, OutboundStops
  <2>6. OutboundLegs(h) \in [1..2 -> Range(OutboundLegs(h))]
    BY <2>5 DEF Range
  <2>7. IsSeq(OutboundLegs(h)) /\ Len(OutboundLegs(h)) = 2
    BY <2>6, FunctionIsSeq
  <2>8. \A i \in 1..2 : /\ OutboundLegs(h)[i].from = OutboundStops(h)[i] /\ OutboundLegs(h)[i].to = OutboundStops(h)[i + 1]
                        /\ OutboundLegs(h)[i].denom = h.tokenOnBroker.chainDenom
    BY <2>5 DEF Leg
  <2>9. /\ OutboundStops(h) \in Paths /\ Len(OutboundStops(h)) = 3
        /\ OutboundStops(h)[1] = Broker /\ OutboundStops(h)[2] = origin /\ OutboundStops(h)[3] = request.to
    BY <1>1, <2>2, <2>4 DEF Paths
  <2>10. \A i \in 1..2 : i = 1 \/ i = 2
    OBVIOUS
  <2>11. \A i \in 1..2 : OutboundStops(h)[i] # OutboundStops(h)[i + 1]
    BY <2>1, <2>9, <2>10 DEF origin
  <2>12. Len(h.outbound) = 2 /\ h.outbound # << >> /\ Last(OutboundStops(h)) = request.to /\ origin # request.to
    BY <2>1, <2>9 DEF Last, origin
  <2>13. Configured(OutboundStops(h))
    BY <2>3, <2>9, <2>10 DEF Configured
  <2>. QED
    BY <2>7, <2>8, <2>9, <2>11, <2>12, <2>13 DEF Connects
<1>. QED
  BY <1>2, <1>3, <1>4 DEF LeadsOn

\* The search goes on from configured chains only.
LEMMA FoundAreConfigured ==
  ASSUME RequestInv, Serving, NEW path, FoundPath(path)
  PROVE  Configured(path)
<1>. SUFFICES ASSUME NEW i \in 1..Len(path) - 1 PROVE path[i] \in network.built
  BY DEF Configured
<1>1. path \in Paths /\ Len(path) \in Nat /\ DOMAIN path = 1..Len(path) /\ path \in Seq(Chains)
  BY PathFacts DEF FoundPath
<1>2. path[i] \in Chains
  BY <1>1, ElementOfSeq
<1>3. PICK t \in CurrentTokens(path[i]) : TRUE
  BY DEF FoundPath, MayFollow
<1>4. index.tokens[path[i]] # {}
  BY <1>3 DEF CurrentTokens, Info, FindTokenByOrigin
<1>. QED
  BY <1>2, <1>4, DescribedChains DEF Serving

(***************************************************************************)
(* The journey of an answer: its legs, in their order, and its stops.      *)
(***************************************************************************)
LegsAreSeqs(r) == IsSeq(r.inbound) /\ IsSeq(r.swap) /\ IsSeq(r.outbound)

LEMMA JourneyFacts ==
  ASSUME LegsAreSeqs(response)
  PROVE  /\ IsSeq(Journey)
         /\ Len(Journey) = Len(response.inbound) + Len(response.swap) + Len(response.outbound)
         /\ Range(Journey) = Range(response.inbound) \cup Range(response.swap) \cup Range(response.outbound)
BY ConcatFacts DEF LegsAreSeqs, Journey

LEMMA ElementsOfConcat ==
  ASSUME NEW s, NEW t, IsSeq(s), IsSeq(t)
  PROVE  /\ Len(s) \in Nat /\ Len(t) \in Nat /\ Len(s \o t) = Len(s) + Len(t)
         /\ \A i \in 1..Len(s) : (s \o t)[i] = s[i]
         /\ \A i \in 1..Len(t) : (s \o t)[Len(s) + i] = t[i]
<1> DEFINE S == Range(s) \cup Range(t)
<1>1. s \in Seq(S) /\ t \in Seq(S)
  BY SeqMonotonic DEF IsSeq
<1>2. /\ Len(s) \in Nat /\ Len(t) \in Nat /\ Len(s \o t) = Len(s) + Len(t)
      /\ \A i \in 1..Len(s) + Len(t) : (s \o t)[i] = IF i <= Len(s) THEN s[i] ELSE t[i - Len(s)]
  BY <1>1, ConcatProperties, LenProperties
<1>3. \A i \in 1..Len(s) : (s \o t)[i] = s[i]
  BY <1>2
<1>4. \A i \in 1..Len(t) : (s \o t)[Len(s) + i] = t[i]
  <2>. TAKE i \in 1..Len(t)
  <2>1. Len(s) + i \in 1..Len(s) + Len(t) /\ ~(Len(s) + i <= Len(s)) /\ (Len(s) + i) - Len(s) = i
    BY <1>2
  <2>. QED
    BY <1>2, <2>1
<1>. QED
  BY <1>2, <1>3, <1>4

LEMMA ElementsOfThree ==
  ASSUME NEW s, NEW t, NEW u, IsSeq(s), IsSeq(t), IsSeq(u)
  PROVE  /\ Len(s) \in Nat /\ Len(t) \in Nat /\ Len(u) \in Nat
         /\ \A i \in 1..Len(s) : (s \o t \o u)[i] = s[i]
         /\ \A i \in 1..Len(t) : (s \o t \o u)[Len(s) + i] = t[i]
         /\ \A i \in 1..Len(u) : (s \o t \o u)[Len(s) + Len(t) + i] = u[i]
<1>1. /\ Len(s) \in Nat /\ Len(t) \in Nat /\ Len(s \o t) = Len(s) + Len(t)
      /\ \A i \in 1..Len(s) : (s \o t)[i] = s[i]
      /\ \A i \in 1..Len(t) : (s \o t)[Len(s) + i] = t[i]
  BY ElementsOfConcat
<1>2. IsSeq(s \o t)
  BY ConcatFacts
<1>3. /\ Len(u) \in Nat
      /\ \A i \in 1..Len(s \o t) : (s \o t \o u)[i] = (s \o t)[i]
      /\ \A i \in 1..Len(u) : (s \o t \o u)[Len(s \o t) + i] = u[i]
  BY <1>2, ElementsOfConcat
<1>4. \A i \in 1..Len(s) : i \in 1..Len(s \o t)
  BY <1>1
<1>5. \A i \in 1..Len(t) : Len(s) + i \in 1..Len(s \o t)
  BY <1>1
<1>. QED
  BY <1>1, <1>3, <1>4, <1>5

LEMMA JourneyLegs ==
  ASSUME LegsAreSeqs(response)
  PROVE  LET n == Len(response.inbound)
             k == Len(response.swap)
             m == Len(response.outbound)
         IN /\ n \in Nat /\ k \in Nat /\ m \in Nat
            /\ \A i \in 1..n : Journey[i] = response.inbound[i]
            /\ \A i \in 1..k : Journey[n + i] = response.swap[i]
            /\ \A i \in 1..m : Journey[n + k + i] = response.outbound[i]
<1> DEFINE in   == response.inbound
           swap == response.swap
           out  == response.outbound
<1>1. IsSeq(in) /\ IsSeq(swap) /\ IsSeq(out)
  BY DEF LegsAreSeqs
<1>2. Journey = in \o swap \o out
  BY DEF Journey
<1>. HIDE DEF in, swap, out
<1>3. /\ Len(in) \in Nat /\ Len(swap) \in Nat /\ Len(out) \in Nat
      /\ \A i \in 1..Len(in) : Journey[i] = in[i]
      /\ \A i \in 1..Len(swap) : Journey[Len(in) + i] = swap[i]
      /\ \A i \in 1..Len(out) : Journey[Len(in) + Len(swap) + i] = out[i]
  BY <1>1, <1>2, ElementsOfThree
<1>. QED
  BY <1>3 DEF in, swap, out

SwapAt(i) == response.kind = "brokerSwap" /\ i = Len(response.inbound) + 1

\* Leg i leads from stop i to the next, which is another chain unless the leg is
\* the swap; the last stop is the destination.
JourneyStops(stops) ==
  /\ IsSeq(Journey) /\ stops \in Paths /\ Len(stops) = Len(Journey) + 1
  /\ stops[1] = request.from /\ Last(stops) = request.to /\ Configured(stops)
  /\ \A i \in 1..Len(Journey) : /\ Journey[i].from = stops[i] /\ Journey[i].to = stops[i + 1]
                                /\ stops[i] = stops[i + 1] <=> SwapAt(i)

\* The path of an answer with a swap leaves the home of the swapped token out.
PathFits(stops) ==
  LET n == Len(response.inbound)
      m == Len(response.outbound)
  IN /\ LegsAreSeqs(response)
     /\ response.path \in Paths /\ response.path[1] = request.from
     /\ response.kind \in {"direct", "indirect"} =>
          response.swap = << >> /\ response.outbound = << >> /\ response.path = stops
     /\ response.kind = "direct" => n = 1
     /\ response.kind = "brokerSwap" =>
          /\ n \in 0..2 /\ Len(response.swap) = 1 /\ m \in 0..2 /\ (response.outbound = << >> <=> m = 0)
          /\ response.path[n + 1] = Broker /\ stops[n + 1] = Broker
          /\ Len(response.path) = IF m = 0 THEN n + 1 ELSE n + 2
          /\ m # 0 => response.path[n + 2] = request.to
          /\ m = 2 => response.path[n + 2] # stops[n + 3]

LEMMA DirectLeads ==
  ASSUME IndexInv, RequestInv, Serving, IsDirect(response)
  PROVE  \E stops : JourneyStops(stops) /\ PathFits(stops)
<1> DEFINE stops == <<request.from, request.to>>
           leg   == Leg(request.from, request.to, request.tokenIn)
<1>1. /\ response.kind = "direct" /\ response.inbound = <<leg>> /\ response.swap = << >>
      /\ response.outbound = << >> /\ response.path = stops
  BY DEF IsDirect, NoResponse
<1>2. Connects(<<leg>>, stops)
  BY DirectConnects DEF IsDirect
<1>3. stops[1] = request.from /\ Last(stops) = request.to /\ Configured(stops)
  <2>1. \A i \in 1..1 : i = 1
    OBVIOUS
  <2>2. Len(stops) = 2 /\ stops[1] = request.from /\ stops[2] = request.to
    OBVIOUS
  <2>. QED
    BY <2>1, <2>2 DEF Last, Configured, RequestInv
<1>. HIDE DEF stops, leg
<1>4. /\ IsSeq(<<leg>>) /\ Len(<<leg>>) = 1 /\ stops \in Paths /\ Len(stops) = 2
      /\ \A i \in 1..1 : <<leg>>[i].from = stops[i] /\ <<leg>>[i].to = stops[i + 1] /\ stops[i] # stops[i + 1]
  BY <1>2, SingletonFacts DEF Connects
<1>5. LegsAreSeqs(response)
  BY <1>1, <1>4, EmptyFacts DEF LegsAreSeqs
<1>6. IsSeq(Journey) /\ Len(Journey) = 1 /\ \A i \in 1..1 : Journey[i] = <<leg>>[i]
  BY <1>1, <1>4, <1>5, JourneyFacts, JourneyLegs, EmptyFacts
<1>7. JourneyStops(stops)
  BY <1>1, <1>3, <1>4, <1>6 DEF JourneyStops, SwapAt
<1>8. PathFits(stops)
  BY <1>1, <1>3, <1>4, <1>5 DEF PathFits
<1>. QED
  BY <1>7, <1>8

LEMMA IndirectLeads ==
  ASSUME IndexInv, RequestInv, Serving, IsIndirect(response)
  PROVE  \E stops : JourneyStops(stops) /\ PathFits(stops)
<1>1. PICK path : FoundPath(path) /\ \E legs \in IndirectLegs(path) :
       response = [NoResponse EXCEPT !.kind = "indirect", !.path = path, !.inbound = legs, !.pfm = CheckPFMSupport(path)]
  BY DEF IsIndirect
<1>2. PICK legs \in IndirectLegs(path) :
       response = [NoResponse EXCEPT !.kind = "indirect", !.path = path, !.inbound = legs, !.pfm = CheckPFMSupport(path)]
  BY <1>1
<1>3. /\ response.kind = "indirect" /\ response.inbound = legs /\ response.swap = << >>
      /\ response.outbound = << >> /\ response.path = path
  BY <1>2 DEF NoResponse
<1>4. Connects(legs, path) /\ Configured(path)
  BY <1>1, IndirectConnects, FoundAreConfigured
<1>5. LegsAreSeqs(response)
  BY <1>3, <1>4, EmptyFacts DEF LegsAreSeqs, Connects
<1>6. IsSeq(Journey) /\ Len(Journey) = Len(legs) /\ \A i \in 1..Len(legs) : Journey[i] = legs[i]
  <2>1. Len(legs) \in Nat
    BY <1>4, SeqFacts DEF Connects, IsSeq
  <2>. QED
    BY <1>3, <1>5, <2>1, JourneyFacts, JourneyLegs, EmptyFacts
<1>7. JourneyStops(path)
  BY <1>1, <1>3, <1>4, <1>6 DEF JourneyStops, SwapAt, Connects, FoundPath
<1>8. PathFits(path)
  BY <1>1, <1>3, <1>4, <1>5 DEF PathFits, Connects, FoundPath
<1>. QED
  BY <1>7, <1>8

LEMMA JoinedPaths ==
  ASSUME NEW a \in Paths, NEW b \in Paths
  PROVE  /\ a \o b \in Paths /\ Len(a \o b) = Len(a) + Len(b) /\ Len(a) \in Nat /\ Len(b) \in Nat
         /\ \A i \in 1..Len(a) : (a \o b)[i] = a[i]
         /\ \A i \in 1..Len(b) : (a \o b)[Len(a) + i] = b[i]
         /\ (a \o b)[1] = a[1] /\ Last(a \o b) = Last(b)
<1>1. a \in Seq(Chains) /\ b \in Seq(Chains) /\ Len(a) \in Nat \ {0} /\ Len(b) \in Nat \ {0}
  BY PathFacts
<1>2. IsSeq(a) /\ IsSeq(b)
  BY <1>1, SeqFacts
<1>3. a \o b \in Seq(Chains) /\ Len(a \o b) = Len(a) + Len(b)
  BY <1>1, ConcatProperties
<1>4. a \o b \in Paths
  BY <1>1, <1>3, EmptySeq DEF Paths
<1>5. /\ \A i \in 1..Len(a) : (a \o b)[i] = a[i]
      /\ \A i \in 1..Len(b) : (a \o b)[Len(a) + i] = b[i]
  BY <1>2, ElementsOfConcat
<1>6. 1 \in 1..Len(a) /\ Len(b) \in 1..Len(b)
  BY <1>1
<1>7. Last(a \o b) = Last(b)
  BY <1>3, <1>5, <1>6 DEF Last
<1>. QED
  BY <1>1, <1>3, <1>4, <1>5, <1>6, <1>7

\* Two ways that meet on the broker make one, with the swap between them.
LEMMA JoinedStops ==
  ASSUME LegsAreSeqs(response), response.kind = "brokerSwap", Len(response.swap) = 1,
         response.swap[1].from = Broker, response.swap[1].to = Broker, Broker \in network.built,
         NEW in, Connects(response.inbound, in), Configured(in), in[1] = request.from, Last(in) = Broker,
         NEW out, Connects(response.outbound, out), Configured(out), out[1] = Broker, Last(out) = request.to
  PROVE  JourneyStops(in \o out)
<1> DEFINE n == Len(response.inbound)
           m == Len(response.outbound)
           stops == in \o out
<1>1. /\ n \in Nat /\ m \in Nat /\ Len(in) = n + 1 /\ Len(out) = m + 1 /\ in \in Paths /\ out \in Paths
      /\ \A i \in 1..n : Journey[i] = response.inbound[i]
      /\ \A i \in 1..1 : Journey[n + i] = response.swap[i]
      /\ \A i \in 1..m : Journey[n + 1 + i] = response.outbound[i]
      /\ IsSeq(Journey) /\ Len(Journey) = n + 1 + m
  BY JourneyLegs, JourneyFacts DEF Connects
<1>2. /\ stops \in Paths /\ Len(stops) = n + m + 2 /\ stops[1] = request.from /\ Last(stops) = request.to
      /\ \A i \in 1..n + 1 : stops[i] = in[i]
      /\ \A i \in 1..m + 1 : stops[n + 1 + i] = out[i]
  <2>1. /\ stops \in Paths /\ Len(stops) = Len(in) + Len(out)
        /\ \A i \in 1..Len(in) : stops[i] = in[i]
        /\ \A i \in 1..Len(out) : stops[Len(in) + i] = out[i]
        /\ stops[1] = in[1] /\ Last(stops) = Last(out)
    BY <1>1, JoinedPaths
  <2>. HIDE DEF stops, n, m
  <2>. QED
    BY <1>1, <2>1
<1>3. in[n + 1] = Broker
  BY <1>1 DEF Last
<1>4. /\ \A i \in 1..n : /\ response.inbound[i].from = in[i] /\ response.inbound[i].to = in[i + 1]
                         /\ in[i] # in[i + 1] /\ in[i] \in network.built
      /\ \A i \in 1..m : /\ response.outbound[i].from = out[i] /\ response.outbound[i].to = out[i + 1]
                         /\ out[i] # out[i + 1] /\ out[i] \in network.built
  BY <1>1 DEF Connects, Configured
<1>5. \A i : SwapAt(i) <=> i = n + 1
  BY DEF SwapAt
<1>. HIDE DEF stops, n, m
<1>6. ASSUME NEW i \in 1..Len(Journey)
      PROVE  /\ Journey[i].from = stops[i] /\ Journey[i].to = stops[i + 1]
             /\ (stops[i] = stops[i + 1] <=> SwapAt(i)) /\ stops[i] \in network.built
  <2>1. CASE i \in 1..n
    <3>1. i \in 1..n + 1 /\ i + 1 \in 1..n + 1 /\ i # n + 1
      BY <1>1, <2>1
    <3>. QED
      BY <1>1, <1>2, <1>4, <1>5, <2>1, <3>1, ZenonT(60)
  <2>2. CASE i = n + 1
    <3>1. n + 1 \in 1..n + 1 /\ 1 \in 1..m + 1 /\ 1 \in 1..1
      BY <1>1
    <3>2. stops[n + 1] = Broker /\ stops[n + 1 + 1] = Broker /\ Journey[n + 1] = response.swap[1]
      BY <1>1, <1>2, <1>3, <3>1
    <3>. QED
      BY <1>5, <2>2, <3>2
  <2>3. ASSUME NEW j \in 1..m, i = n + 1 + j
        PROVE  /\ Journey[i].from = stops[i] /\ Journey[i].to = stops[i + 1]
               /\ (stops[i] = stops[i + 1] <=> SwapAt(i)) /\ stops[i] \in network.built
    <3>1. j \in 1..m + 1 /\ j + 1 \in 1..m + 1 /\ i + 1 = n + 1 + (j + 1) /\ i # n + 1
      BY <1>1, <2>3
    <3>2. stops[i] = out[j] /\ stops[i + 1] = out[j + 1] /\ Journey[i] = response.outbound[j]
      BY <1>1, <1>2, <2>3, <3>1
    <3>. QED
      BY <1>4, <1>5, <3>1, <3>2
  <2>4. i \in 1..n \/ i = n + 1 \/ \E j \in 1..m : i = n + 1 + j
    <3>1. i \in Nat /\ i >= 1 /\ i <= n + 1 + m
      BY <1>1
    <3>2. CASE i > n + 1
      <4>1. i - (n + 1) \in 1..m /\ i = n + 1 + (i - (n + 1))
        BY <1>1, <3>1, <3>2
      <4>. QED
        BY <4>1
    <3>3. CASE i <= n + 1
      BY <1>1, <3>1, <3>3
    <3>. QED
      BY <1>1, <3>1, <3>2, <3>3
  <2>. QED
    BY <2>1, <2>2, <2>3, <2>4
<1>7. Configured(stops)
  <2>1. Len(stops) - 1 = Len(Journey)
    BY <1>1, <1>2
  <2>. QED
    BY <1>6, <2>1 DEF Configured
<1>. QED
  BY <1>1, <1>2, <1>6, <1>7 DEF JourneyStops, stops

LEMMA BrokerLeads ==
  ASSUME IndexInv, RequestInv, Serving, IsBrokerSwap(response)
  PROVE  \E stops : JourneyStops(stops) /\ PathFits(stops)
<1>1. PICK h \in FindMultiHopRoute :
        response = [kind |-> "brokerSwap", path |-> BrokerPath(h), inbound |-> InboundLegs(h),
                    swap |-> <<Swap(h)>>, outbound |-> OutboundLegs(h), pfm |-> OutboundPFM(h)]
  BY DEF IsBrokerSwap
<1>2. Broker \in network.built /\ LeadsToBroker(h) /\ LeadsOn(h)
  BY TriedRoutes
<1> DEFINE in == InboundStops(h)
           out == OutboundStops(h)
           n == Len(response.inbound)
           m == Len(response.outbound)
<1>3. /\ response.kind = "brokerSwap" /\ response.path = BrokerPath(h) /\ response.inbound = InboundLegs(h)
      /\ response.swap = <<Swap(h)>> /\ response.outbound = OutboundLegs(h)
  BY <1>1
<1>4. /\ Connects(response.inbound, in) /\ Configured(in) /\ in[1] = request.from /\ Last(in) = Broker
      /\ n \in 0..2
  BY <1>2, <1>3, InboundConnects
<1>5. /\ Connects(response.outbound, out) /\ Configured(out) /\ out[1] = Broker /\ Last(out) = request.to
      /\ m = Len(h.outbound) /\ m \in 0..2 /\ (h.outbound = << >> <=> m = 0)
      /\ m = 2 => out[2] # request.to
  BY <1>2, <1>3, OutboundConnects
<1>6. /\ IsSeq(response.swap) /\ Len(response.swap) = 1
      /\ response.swap[1].from = Broker /\ response.swap[1].to = Broker
  BY <1>3, SingletonFacts DEF Swap
<1>7. LegsAreSeqs(response)
  BY <1>4, <1>5, <1>6 DEF LegsAreSeqs, Connects
<1>8. JourneyStops(in \o out)
  BY <1>2, <1>3, <1>4, <1>5, <1>6, <1>7, JoinedStops
<1>9. response.path = IF m = 0 THEN in ELSE in \o <<request.to>>
  <2>1. response.path = in \o IF h.outbound = << >> THEN << >> ELSE <<request.to>>
    BY <1>3 DEF BrokerPath, InboundStops
  <2>2. in \in Seq(Chains)
    BY <1>4 DEF Connects, Paths
  <2>3. in \o << >> = in
    BY <2>2, ConcatEmptySeq
  <2>. QED
    BY <1>5, <2>1, <2>3
<1>10. /\ in \in Paths /\ Len(in) = n + 1 /\ in[n + 1] = Broker /\ out \in Paths /\ Len(out) = m + 1
       /\ n \in Nat /\ m \in Nat
  BY <1>4, <1>5 DEF Connects, Last
<1>11. request.to \in Chains
  BY ConfiguredAreChains DEF RequestInv
<1>12. <<request.to>> \in Paths /\ Len(<<request.to>>) = 1 /\ <<request.to>>[1] = request.to
  BY <1>11 DEF Paths
<1>13. /\ in \o <<request.to>> \in Paths /\ Len(in \o <<request.to>>) = n + 2
       /\ \A i \in 1..n + 1 : (in \o <<request.to>>)[i] = in[i]
       /\ (in \o <<request.to>>)[n + 2] = request.to /\ (in \o <<request.to>>)[1] = request.from
  <2>1. /\ in \o <<request.to>> \in Paths /\ Len(in \o <<request.to>>) = Len(in) + 1
        /\ \A i \in 1..Len(in) : (in \o <<request.to>>)[i] = in[i]
        /\ \A i \in 1..1 : (in \o <<request.to>>)[Len(in) + i] = <<request.to>>[i]
        /\ (in \o <<request.to>>)[1] = in[1]
    BY <1>10, <1>12, JoinedPaths
  <2>2. 1 \in 1..1 /\ Len(in) + 1 = n + 2
    BY <1>10
  <2>. QED
    BY <1>4, <1>10, <1>12, <2>1, <2>2
<1>14. /\ \A i \in 1..n + 1 : (in \o out)[i] = in[i]
       /\ \A i \in 1..m + 1 : (in \o out)[n + 1 + i] = out[i]
  <2>. HIDE DEF in, out, n, m
  <2>1. /\ \A i \in 1..Len(in) : (in \o out)[i] = in[i]
        /\ \A i \in 1..Len(out) : (in \o out)[Len(in) + i] = out[i]
    BY <1>10, JoinedPaths
  <2>. QED
    BY <1>10, <2>1
<1>. HIDE DEF in, out, n, m
<1>15. n + 1 \in 1..n + 1 /\ (m = 2 => 2 \in 1..m + 1 /\ n + 1 + 2 = n + 3)
  BY <1>10
<1>16. PathFits(in \o out)
  <2>1. response.path \in Paths /\ response.path[1] = request.from
    BY <1>4, <1>9, <1>10, <1>13
  <2>2. response.path[n + 1] = Broker /\ (in \o out)[n + 1] = Broker
    BY <1>9, <1>10, <1>13, <1>14, <1>15
  <2>3. Len(response.path) = IF m = 0 THEN n + 1 ELSE n + 2
    BY <1>9, <1>10, <1>13
  <2>4. m = 2 => response.path[n + 2] # (in \o out)[n + 3]
    <3>1. m = 2 => (in \o out)[n + 3] = out[2]
      <4>1. m = 2 => (in \o out)[n + 1 + 2] = out[2]
        BY <1>14, <1>15
      <4>. QED
        BY <1>15, <4>1
    <3>2. m = 2 => response.path[n + 2] = request.to
      BY <1>9, <1>13
    <3>. QED
      BY <1>5, <3>1, <3>2
  <2>5. response.outbound = << >> <=> m = 0
    BY <1>5, SeqFacts DEF m, Connects, IsSeq
  <2>6. m # 0 => response.path[n + 2] = request.to
    BY <1>9, <1>13
  <2>. QED
    BY <1>3, <1>4, <1>5, <1>6, <1>7, <2>1, <2>2, <2>3, <2>4, <2>5, <2>6 DEF PathFits, n, m
<1>. QED
  BY <1>8, <1>16

LEMMA KindsOfAnswers ==
  /\ IsDirect(response) => response.kind = "direct"
  /\ IsIndirect(response) => response.kind = "indirect"
  /\ IsBrokerSwap(response) => response.kind = "brokerSwap"
  /\ IsImpossible(response) => response.kind = "impossible"
<1>1. IsDirect(response) => response.kind = "direct"
  BY DEF IsDirect, NoResponse
<1>2. ASSUME IsIndirect(response) PROVE response.kind = "indirect"
  <2>1. PICK path, legs :
          response = [NoResponse EXCEPT !.kind = "indirect", !.path = path, !.inbound = legs, !.pfm = CheckPFMSupport(path)]
    BY <1>2 DEF IsIndirect
  <2>. QED
    BY <2>1 DEF NoResponse
<1>3. ASSUME IsBrokerSwap(response) PROVE response.kind = "brokerSwap"
  BY <1>3 DEF IsBrokerSwap
<1>4. IsImpossible(response) => response.kind = "impossible"
  BY DEF IsImpossible, Impossible, NoResponse
<1>. QED
  BY <1>1, <1>2, <1>3, <1>4

LEMMA AnswersLead ==
  ASSUME IndexInv, RequestInv, ResponseInv, pc = "answered", response.kind # "impossible"
  PROVE  \E stops : JourneyStops(stops) /\ PathFits(stops)
<1>1. Serving
  BY DEF Serving
<1>2. ~IsImpossible(response)
  BY KindsOfAnswers
<1>. QED
  BY <1>1, <1>2, DirectLeads, IndirectLeads, BrokerLeads DEF ResponseInv

\* Wherever an answer sends a token, and whatever could not be configured, the
\* server has a configuration of that chain.
THEOREM ConfiguredChainsArePassed == Spec => []PassesConfiguredChains
<1>1. IndexInv /\ RequestInv /\ ResponseInv => PassesConfiguredChains
  <2>. SUFFICES ASSUME IndexInv, RequestInv, ResponseInv, pc = "answered", NEW i \in DOMAIN Journey
                PROVE  Journey[i].to \in network.built
    BY DEF PassesConfiguredChains
  <2>1. CASE response.kind = "impossible"
    <3>1. response = Impossible
      BY <2>1, KindsOfAnswers DEF ResponseInv, IsImpossible
    <3>2. response.inbound = << >> /\ response.swap = << >> /\ response.outbound = << >>
      BY <3>1 DEF Impossible, NoResponse
    <3>3. IsSeq(Journey) /\ Len(Journey) = 0
      BY <3>2, EmptyFacts, JourneyFacts DEF LegsAreSeqs
    <3>4. DOMAIN Journey = 1..0
      BY <3>3, SeqFacts DEF IsSeq
    <3>. QED
      BY <3>4
  <2>2. CASE response.kind # "impossible"
    <3>1. PICK stops : JourneyStops(stops)
      BY <2>2, AnswersLead
    <3>2. /\ IsSeq(Journey) /\ Len(stops) = Len(Journey) + 1 /\ stops[Len(stops)] = request.to /\ Configured(stops)
          /\ \A j \in 1..Len(Journey) : Journey[j].to = stops[j + 1]
      BY <3>1 DEF JourneyStops, Last
    <3>3. i \in 1..Len(Journey) /\ Len(Journey) \in Nat
      BY <3>2, SeqFacts DEF IsSeq
    <3>4. CASE i = Len(Journey)
      BY <3>2, <3>3, <3>4 DEF RequestInv, Serving
    <3>5. CASE i # Len(Journey)
      <4>1. i + 1 \in 1..Len(stops) - 1
        BY <3>2, <3>3, <3>5
      <4>. QED
        BY <3>2, <3>3, <4>1 DEF Configured
    <3>. QED
      BY <3>4, <3>5
  <2>. QED
    BY <2>1, <2>2
<1>. QED
  BY <1>1, IndexIsBuilt, RequestsAreServed, AnswersAreKnown, PTL

(***************************************************************************)
(* The requested token, on every chain.                                    *)
(***************************************************************************)

\* Wherever the search looks the token up, it finds the token of that origin and
\* base name.
IsRequested(o, d) ==
  /\ o \in Chains /\ IsBase(d)
  /\ request.tokenIn = DenomOn(request.from, o, d)
  /\ \A c \in Chains : \A t \in CurrentTokens(c) : Known(t, c) /\ t.originChain = o /\ t.baseDenom = d

LEMMA RequestedToken ==
  ASSUME IndexInv, RequestInv, Serving, NativesOnly(network)
  PROVE  \E o, d : IsRequested(o, d)
<1>1. request.from \in Chains
  BY ConfiguredAreChains DEF RequestInv
<1>2. PICK s \in Info(request.from, request.tokenIn) : TRUE
  BY DEF RequestInv
<1>3. \A c \in Chains : \A t \in index.tokens[c] : Known(t, c)
  BY DescribedAreKnown
<1>4. Known(s, request.from) /\ s.chainDenom = request.tokenIn
  BY <1>1, <1>2, <1>3 DEF Info
<1> DEFINE o == s.originChain
           d == s.baseDenom
<1>5. o \in Chains /\ IsBase(d) /\ request.tokenIn = DenomOn(request.from, o, d)
  BY <1>4 DEF Known
<1>6. ASSUME NEW t \in Info(request.from, request.tokenIn)
      PROVE  t.originChain = o /\ t.baseDenom = d /\ Known(t, request.from)
  <2>1. Known(t, request.from) /\ t.chainDenom = request.tokenIn
    BY <1>1, <1>3 DEF Info
  <2>2. IsBase(t.baseDenom) /\ DenomOn(request.from, t.originChain, t.baseDenom) = DenomOn(request.from, o, d)
    BY <1>5, <2>1 DEF Known
  <2>3. t.originChain = o /\ t.baseDenom = d
    BY <1>5, <2>2, DenomsIdentify
  <2>. QED
    BY <2>1, <2>3
<1>7. ASSUME NEW c \in Chains, NEW t \in CurrentTokens(c)
      PROVE  Known(t, c) /\ t.originChain = o /\ t.baseDenom = d
  <2>1. CASE c = request.from
    BY <1>6, <1>7, <2>1 DEF CurrentTokens
  <2>2. CASE c # request.from
    <3>1. PICK u \in Info(request.from, request.tokenIn) : t \in FindTokenByOrigin(c, u)
      BY <1>7, <2>2 DEF CurrentTokens
    <3>. QED
      BY <1>3, <1>6, <3>1 DEF FindTokenByOrigin, SameToken
  <2>. QED
    BY <2>1, <2>2
<1>8. IsRequested(o, d)
  <2>. HIDE DEF o, d
  <2>. QED
    BY <1>5, <1>7 DEF IsRequested
<1>. QED
  BY <1>8

\* What is asked for is that token exactly when it is called as the token is
\* called on the destination.
LEMMA SameTokenByDenom ==
  ASSUME IndexInv, RequestInv, Serving, NativesOnly(network), NEW o, NEW d, IsRequested(o, d)
  PROVE  IsSameToken <=> request.tokenOut = DenomOn(request.to, o, d)
<1>1. request.from \in Chains /\ request.to \in Chains
  BY ConfiguredAreChains DEF RequestInv
<1>2. \A u \in Info(request.to, request.tokenOut) : Known(u, request.to) /\ u.chainDenom = request.tokenOut
  BY <1>1, DescribedAreKnown DEF Info
<1>3. \A t \in Info(request.from, request.tokenIn) : t.originChain = o /\ t.baseDenom = d
  BY <1>1 DEF IsRequested, CurrentTokens
<1>4. ASSUME IsSameToken PROVE request.tokenOut = DenomOn(request.to, o, d)
  <2>1. PICK t \in Info(request.from, request.tokenIn), u \in Info(request.to, request.tokenOut) : SameToken(t, u)
    BY <1>4 DEF IsSameToken
  <2>. QED
    BY <1>2, <1>3, <2>1 DEF SameToken, Known
<1>5. ASSUME request.tokenOut = DenomOn(request.to, o, d) PROVE IsSameToken
  <2>1. PICK t \in Info(request.from, request.tokenIn), u \in Info(request.to, request.tokenOut) : TRUE
    BY DEF RequestInv
  <2>2. IsBase(u.baseDenom) /\ IsBase(d) /\ DenomOn(request.to, u.originChain, u.baseDenom) = DenomOn(request.to, o, d)
    BY <1>2, <1>5, <2>1 DEF Known, IsRequested
  <2>3. u.originChain = o /\ u.baseDenom = d
    BY <2>2, DenomsIdentify
  <2>. QED
    BY <1>3, <2>1, <2>3 DEF IsSameToken, SameToken
<1>. QED
  BY <1>4, <1>5

\* A hop of the token leads from its home or to it.
LEMMA HopsOfToken ==
  ASSUME IndexInv, NativesOnly(network), NEW o, NEW d, IsRequested(o, d),
         NEW c \in Chains, NEW to, NEW t \in TokensOf(AllowedTokens(c, to), DenomOn(c, o, d))
  PROVE  /\ to \in Chains /\ c # to /\ o \in {c, to} /\ t.ibcDenom = DenomOn(to, o, d)
         /\ Arrives(c, to, DenomOn(c, o, d)) = DenomOn(to, o, d)
<1>1. t \in AllowedTokens(c, to) /\ t.chainDenom = DenomOn(c, o, d)
  BY DEF TokensOf
<1>2. to \in Chains /\ Sendable(t, c, to)
  BY <1>1, AllowedAreSendable
<1>3. IsBase(d) /\ IsBase(t.baseDenom) /\ DenomOn(c, t.originChain, t.baseDenom) = DenomOn(c, o, d)
  BY <1>1, <1>2 DEF Sendable, Known, IsRequested
<1>4. t.originChain = o /\ t.baseDenom = d
  BY <1>3, DenomsIdentify
<1>. QED
  BY <1>2, <1>3, <1>4, DenomsTravel DEF Sendable

(***************************************************************************)
(* One hop, when one is enough.                                            *)
(***************************************************************************)
LEMMA OneHopIsReached ==
  ASSUME IndexInv, RequestInv, PathsInv, Serving, NativesOnly(network), OneHop
  PROVE  ~Unreached
<1>1. PICK o, d : IsRequested(o, d)
  BY RequestedToken
<1>2. PICK t \in TokensOf(AllowedTokens(request.from, request.to), request.tokenIn) : t.ibcDenom = request.tokenOut
  BY DEF OneHop
<1>3. request.from \in Chains /\ request.tokenIn = DenomOn(request.from, o, d)
  BY <1>1 DEF PathsInv, IsRequested
<1>4. request.tokenOut = DenomOn(request.to, o, d)
  BY <1>1, <1>2, <1>3, HopsOfToken
<1>5. IsSameToken
  BY <1>1, <1>4, SameTokenByDenom
<1>6. SurelyTravels(request.from, request.to)
  BY OneHopIsSure
<1>. QED
  BY <1>5, <1>6 DEF Unreached

\* Without forwarded tokens, and however the chains are linked, a request that
\* one hop can satisfy is answered with that one hop.
THEOREM OneHopIsEnough ==
  ASSUME \A n \in Networks : NativesOnly(n)
  PROVE  Spec => []OneHopWhenPossible
<1>1. IndexInv /\ RequestInv /\ PathsInv /\ ResponseInv => OneHopWhenPossible
  <2>. SUFFICES ASSUME IndexInv, RequestInv, PathsInv, ResponseInv, pc = "answered", OneHop
                PROVE  response.kind \in {"direct", "indirect"} /\ Len(Journey) = 1
    BY DEF OneHopWhenPossible
  <2>1. Serving /\ NativesOnly(network)
    BY DEF Serving, IndexInv
  <2>2. ~Unreached
    BY <2>1, OneHopIsReached
  <2>3. \/ response.kind = "direct" /\ IsDirect(response)
        \/ response.kind = "indirect" /\ IsIndirect(response)
    BY <2>2, KindsOfAnswers DEF ResponseInv, IsBrokerSwap, IsImpossible
  <2>4. PICK stops : JourneyStops(stops) /\ PathFits(stops)
    BY <2>3, AnswersLead
  <2>5. /\ LegsAreSeqs(response) /\ response.swap = << >> /\ response.outbound = << >> /\ response.path = stops
        /\ IsSeq(Journey) /\ Len(stops) = Len(Journey) + 1
        /\ response.kind = "direct" => Len(response.inbound) = 1
    BY <2>3, <2>4 DEF PathFits, JourneyStops
  <2>6. Len(Journey) \in Nat /\ Len(response.inbound) \in Nat /\ Len(Journey) = Len(response.inbound) + 0 + 0
    BY <2>5, JourneyFacts, EmptyFacts, SeqFacts DEF IsSeq, LegsAreSeqs
  <2>7. CASE response.kind = "direct"
    BY <2>5, <2>6, <2>7
  <2>8. CASE response.kind = "indirect"
    <3>1. PICK path, legs : FoundPath(path) /\
            response = [NoResponse EXCEPT !.kind = "indirect", !.path = path, !.inbound = legs, !.pfm = CheckPFMSupport(path)]
      BY <2>3, <2>8 DEF IsIndirect
    <3>2. response.path = path
      BY <3>1 DEF NoResponse
    <3>3. Len(stops) = 2
      BY <2>5, <3>1, <3>2 DEF FoundPath
    <3>4. Len(Journey) = 1
      <4>1. \A a \in Nat : 2 = a + 1 => a = 1
        OBVIOUS
      <4>2. Len(Journey) \in Nat /\ 2 = Len(Journey) + 1
        BY <2>5, <2>6, <3>3
      <4>. QED
        BY <4>1, <4>2
    <3>. QED
      BY <2>8, <3>4
  <2>. QED
    BY <2>3, <2>7, <2>8
<1>. QED
  BY <1>1, IndexIsBuilt, RequestsAreServed, PathsAreSeqs, AnswersAreKnown, PTL

(***************************************************************************)
(* No swap where plain transfers are enough.                               *)
(***************************************************************************)
LEMMA AllowedAreDescribed ==
  ASSUME index = BuildIndex(network), NEW c \in Chains, NEW to, NEW t \in AllowedTokens(c, to)
  PROVE  Info(c, t.chainDenom) # {}
<1> DEFINE built   == BuildRoutesForChain(network, c)
           routes  == [x \in built |-> BuildAllowedTokensForRoute(network, c, x)]
           natives == {RouteToken(x.denom, NoDenom, x.denom, c) :
                         x \in {y \in NativeTokens(network, c) : c \in network.built}}
           described == UNION {{x \in routes[r] : \A l \in Later(routes, r) : x.chainDenom \notin Denoms(routes[l])} :
                                 r \in DOMAIN routes}
           T == {r \in built : t.chainDenom \in Denoms(routes[r])}
<1>1. index.tokens[c] = DenomToTokenInfo(routes, natives) /\ index.routes[c] = routes
  BY DEF BuildIndex
<1>2. DOMAIN routes = built /\ built \subseteq Chains
  BY DEF BuildRoutesForChain
<1>. HIDE DEF routes, natives, built
<1>3. to \in T
  BY <1>1, <1>2 DEF AllowedTokens, Denoms
<1>4. PICK m \in T : \A r \in T : r <= m
  BY <1>2, <1>3, LastOfChains
<1>5. PICK s \in routes[m] : s.chainDenom = t.chainDenom
  BY <1>4 DEF Denoms
<1>6. \A r \in Later(routes, m) : s.chainDenom \notin Denoms(routes[r])
  <2>. SUFFICES ASSUME NEW r \in built, r > m, t.chainDenom \in Denoms(routes[r]) PROVE FALSE
    BY <1>2, <1>5 DEF Later
  <2>. QED
    BY <1>2, <1>4, ChainsAssumption
<1>7. s \in described
  BY <1>2, <1>4, <1>5, <1>6
<1>8. described \subseteq index.tokens[c]
  BY <1>1 DEF DenomToTokenInfo
<1>. QED
  BY <1>5, <1>7, <1>8 DEF Info

\* Where the token may go, the search is sure to see that it may.
LEMMA AllowedIsSure ==
  ASSUME IndexInv, RequestInv, Serving, NativesOnly(network), NEW o, NEW d, IsRequested(o, d),
         NEW c \in Chains, NEW to, NEW t \in TokensOf(AllowedTokens(c, to), DenomOn(c, o, d))
  PROVE  SurelyTravels(c, to)
<1>1. t \in AllowedTokens(c, to) /\ t.chainDenom = DenomOn(c, o, d)
  BY DEF TokensOf
<1>2. to \in DOMAIN index.routes[c]
  BY <1>1 DEF AllowedTokens
<1>3. \A s \in CurrentTokens(c) : MayTravel(s, c, to)
  BY <1>1 DEF IsRequested, Known, MayTravel, Denoms
<1>4. CurrentTokens(c) # {}
  <2>1. CASE c = request.from
    BY <2>1 DEF CurrentTokens, RequestInv
  <2>2. CASE c # request.from
    <3>1. index = BuildIndex(network)
      BY <1>1, AllowedFacts
    <3>2. PICK s \in index.tokens[c] : s.chainDenom = DenomOn(c, o, d)
      BY <1>1, <3>1, AllowedAreDescribed DEF Info
    <3>3. Known(s, c)
      BY <3>2, DescribedAreKnown
    <3>4. IsBase(d) /\ IsBase(s.baseDenom) /\ DenomOn(c, s.originChain, s.baseDenom) = DenomOn(c, o, d)
      BY <3>2, <3>3 DEF Known, IsRequested
    <3>5. s.originChain = o /\ s.baseDenom = d
      BY <3>4, DenomsIdentify
    <3>6. PICK u \in Info(request.from, request.tokenIn) : TRUE
      BY DEF RequestInv
    <3>7. request.from \in Chains
      BY ConfiguredAreChains DEF RequestInv
    <3>8. u.originChain = o /\ u.baseDenom = d
      BY <3>6, <3>7 DEF IsRequested, CurrentTokens
    <3>. QED
      BY <2>2, <3>2, <3>5, <3>6, <3>8 DEF CurrentTokens, FindTokenByOrigin, SameToken
  <2>. QED
    BY <2>1, <2>2
<1>. QED
  BY <1>2, <1>3, <1>4 DEF SurelyTravels

\* Of some natural numbers, one is the least.
LEMMA LeastOf ==
  ASSUME NEW T, T \subseteq Nat, T # {}
  PROVE  \E n \in T : \A m \in T : n <= m
<1> DEFINE F == {1..n : n \in T}
<1>1. F \subseteq FiniteSubsetsOf(Nat)
  <2>. SUFFICES ASSUME NEW n \in T PROVE 1..n \subseteq Nat /\ IsFiniteSet(1..n)
    BY DEF FiniteSubsetsOf
  <2>1. n \in Nat
    OBVIOUS
  <2>. QED
    BY <2>1, FS_Interval
<1>2. F # {}
  OBVIOUS
<1>3. IsWellFoundedOn(StrictSubsetOrdering(Nat), FiniteSubsetsOf(Nat))
  BY FS_StrictSubsetOrderingWellFounded
<1>. HIDE DEF F
<1>4. PICK a \in F : \A b \in F : <<b, a>> \notin StrictSubsetOrdering(Nat)
  BY <1>1, <1>2, <1>3, WFMin
<1>5. PICK n \in T : a = 1..n
  BY DEF F
<1>6. ASSUME NEW m \in T, m < n PROVE FALSE
  <2>1. m \in Nat /\ n \in Nat
    OBVIOUS
  <2>2. 1..m \subseteq 1..n /\ n \in 1..n /\ n \notin 1..m /\ 1..n \subseteq Nat
    BY <1>6, <2>1
  <2>3. <<1..m, 1..n>> \in StrictSubsetOrdering(Nat)
    BY <2>2 DEF StrictSubsetOrdering
  <2>. QED
    BY <1>4, <1>5, <2>3 DEF F
<1>. QED
  BY <1>6

\* One more hop, and the function that counts the hops.
OneHopMore(places) ==
  places \cup UNION {{<<to, t.ibcDenom>> : t \in TokensOf(AllowedTokens(p[1], to), p[2])} : p \in places, to \in Chains}

CarriesUpTo(f, n) ==
  f = [k \in 0..n |-> IF k = 0 THEN {<<request.from, request.tokenIn>>} ELSE OneHopMore(f[k - 1])]

LEMMA CarriedIsDefined ==
  \E f : CarriesUpTo(f, Cardinality(Chains)) /\ Carried = f[Cardinality(Chains)]
<1> DEFINE N == Cardinality(Chains)
<1>1. N \in Nat
  BY ChainsAssumption, FS_CardinalityType
<1>2. ASSUME NEW n \in Nat PROVE \E f : CarriesUpTo(f, n)
  <2> DEFINE T == {m \in Nat : ~ \E f : CarriesUpTo(f, m)}
  <2>. SUFFICES ASSUME T # {} PROVE FALSE
    OBVIOUS
  <2>1. PICK m \in T : \A l \in T : m <= l
    BY LeastOf
  <2>2. CASE m = 0
    <3>1. CarriesUpTo([k \in 0..0 |-> {<<request.from, request.tokenIn>>}], 0)
      BY DEF CarriesUpTo
    <3>. QED
      BY <2>1, <2>2, <3>1
  <2>3. CASE m # 0
    <3>1. m - 1 \in Nat /\ m - 1 \notin T
      BY <2>1, <2>3
    <3>2. PICK f : CarriesUpTo(f, m - 1)
      BY <3>1
    <3> DEFINE g == [k \in 0..m |-> IF k = m THEN OneHopMore(f[m - 1]) ELSE f[k]]
    <3>3. f = [k \in 0..m - 1 |-> IF k = 0 THEN {<<request.from, request.tokenIn>>} ELSE OneHopMore(f[k - 1])]
      BY <3>2 DEF CarriesUpTo
    <3>4. ASSUME NEW k \in 0..m
          PROVE  g[k] = IF k = 0 THEN {<<request.from, request.tokenIn>>} ELSE OneHopMore(g[k - 1])
      <4>1. CASE k = m
        <5>1. k # 0 /\ k - 1 \in 0..m /\ k - 1 # m
          BY <2>3, <4>1
        <5>. QED
          BY <4>1, <5>1
      <4>2. CASE k # m
        <5>1. k \in 0..m - 1 /\ (k # 0 => k - 1 \in 0..m /\ k - 1 # m)
          BY <4>2
        <5>. QED
          BY <3>3, <4>2, <5>1
      <4>. QED
        BY <4>1, <4>2
    <3>5. CarriesUpTo(g, m)
      <4>1. g = [k \in 0..m |-> g[k]]
        OBVIOUS
      <4>. HIDE DEF g
      <4>. QED
        BY <3>4, <4>1 DEF CarriesUpTo
    <3>. QED
      BY <2>1, <3>5
  <2>. QED
    BY <2>2, <2>3
<1> DEFINE carried[k \in 0..N] ==
             IF k = 0 THEN {<<request.from, request.tokenIn>>} ELSE OneHopMore(carried[k - 1])
<1>3. Carried = carried[N]
  BY DEF Carried, OneHopMore
<1>4. carried = CHOOSE f : CarriesUpTo(f, N)
  BY DEF CarriesUpTo
<1>. HIDE DEF carried
<1>5. CarriesUpTo(carried, N)
  BY <1>1, <1>2, <1>4
<1>. QED
  BY <1>3, <1>5

\* Places that no hop leaves hold all the places the token is carried to.
LEMMA CarriedStaysWithin ==
  ASSUME NEW P, <<request.from, request.tokenIn>> \in P,
         \A p \in P : \A to \in Chains : \A t \in TokensOf(AllowedTokens(p[1], to), p[2]) : <<to, t.ibcDenom>> \in P
  PROVE  Carried \subseteq P
<1> DEFINE N == Cardinality(Chains)
<1>1. N \in Nat
  BY ChainsAssumption, FS_CardinalityType
<1>2. PICK f : CarriesUpTo(f, N) /\ Carried = f[N]
  BY CarriedIsDefined
<1>3. \A k \in 0..N : f[k] = IF k = 0 THEN {<<request.from, request.tokenIn>>} ELSE OneHopMore(f[k - 1])
  BY <1>2 DEF CarriesUpTo
<1> DEFINE T == {k \in 0..N : ~(f[k] \subseteq P)}
<1>4. T = {}
  <2>. SUFFICES ASSUME T # {} PROVE FALSE
    OBVIOUS
  <2>1. T \subseteq Nat
    BY <1>1
  <2>2. PICK m \in T : \A l \in T : m <= l
    BY <2>1, LeastOf
  <2>3. CASE m = 0
    BY <1>3, <2>2, <2>3
  <2>4. CASE m # 0
    <3>1. m - 1 \in 0..N /\ m - 1 \notin T
      BY <1>1, <2>2, <2>4
    <3>2. f[m - 1] \subseteq P /\ f[m] = OneHopMore(f[m - 1])
      BY <1>3, <2>2, <2>4, <3>1
    <3>3. OneHopMore(f[m - 1]) \subseteq P
      BY <3>2 DEF OneHopMore
    <3>. QED
      BY <2>2, <3>2, <3>3
  <2>. QED
    BY <2>3, <2>4
<1>. QED
  BY <1>1, <1>2, <1>4

\* A set of chains that the token cannot surely leave holds all it is carried to.
LEMMA CarriedIsReached ==
  ASSUME IndexInv, RequestInv, Serving, NativesOnly(network), NEW o, NEW d, IsRequested(o, d),
         NEW V \in SUBSET Chains, request.from \in V, \A c \in V : \A to \in Chains : SurelyTravels(c, to) => to \in V
  PROVE  Carried \subseteq {<<c, DenomOn(c, o, d)>> : c \in V}
<1> DEFINE P == {<<c, DenomOn(c, o, d)>> : c \in V}
<1>1. <<request.from, request.tokenIn>> \in P
  BY DEF IsRequested
<1>2. ASSUME NEW p \in P, NEW to \in Chains, NEW t \in TokensOf(AllowedTokens(p[1], to), p[2])
      PROVE  <<to, t.ibcDenom>> \in P
  <2>1. PICK c \in V : p = <<c, DenomOn(c, o, d)>>
    OBVIOUS
  <2>2. c \in Chains /\ t \in TokensOf(AllowedTokens(c, to), DenomOn(c, o, d))
    BY <2>1
  <2>3. SurelyTravels(c, to) /\ t.ibcDenom = DenomOn(to, o, d)
    BY <2>2, AllowedIsSure, HopsOfToken
  <2>. QED
    BY <2>3
<1>. HIDE DEF P
<1>3. Carried \subseteq P
  BY <1>1, <1>2, CarriedStaysWithin
<1>. QED
  BY <1>3 DEF P

\* Without forwarded tokens, and however the chains are linked, a token is
\* swapped or a request refused only when no chain of transfers brings what was
\* asked for.
THEOREM SwapsAreNeeded ==
  ASSUME \A n \in Networks : NativesOnly(n)
  PROVE  Spec => []SwapsOnlyWhenNeeded
<1>1. IndexInv /\ RequestInv /\ ResponseInv => SwapsOnlyWhenNeeded
  <2>. SUFFICES ASSUME IndexInv, RequestInv, ResponseInv, pc = "answered",
                       response.kind \in {"brokerSwap", "impossible"}, <<request.to, request.tokenOut>> \in Carried
                PROVE  FALSE
    BY DEF SwapsOnlyWhenNeeded
  <2>1. Serving /\ NativesOnly(network)
    BY DEF Serving, IndexInv
  <2>2. Unreached
    BY KindsOfAnswers DEF ResponseInv, IsBrokerSwap, IsImpossible
  <2>3. PICK o, d : IsRequested(o, d)
    BY <2>1, RequestedToken
  <2>4. request.from \in Chains /\ request.to \in Chains
    BY <2>1, ConfiguredAreChains DEF RequestInv
  <2>5. CASE ~IsSameToken
    <3>1. \A c \in Chains : \A to \in Chains : SurelyTravels(c, to) => to \in Chains
      OBVIOUS
    <3>2. Carried \subseteq {<<c, DenomOn(c, o, d)>> : c \in Chains}
      BY <2>1, <2>3, <2>4, <3>1, CarriedIsReached
    <3>3. request.tokenOut = DenomOn(request.to, o, d)
      BY <3>2
    <3>. QED
      BY <2>1, <2>3, <2>5, <3>3, SameTokenByDenom
  <2>6. ASSUME NEW V \in SUBSET Chains, request.from \in V, request.to \notin V,
               \A c \in V : \A to : SurelyTravels(c, to) => to \in V
        PROVE  FALSE
    <3>1. Carried \subseteq {<<c, DenomOn(c, o, d)>> : c \in V}
      BY <2>1, <2>3, <2>6, CarriedIsReached
    <3>. QED
      BY <2>6, <3>1
  <2>. QED
    BY <2>2, <2>5, <2>6 DEF Unreached
<1>. QED
  BY <1>1, IndexIsBuilt, RequestsAreServed, AnswersAreKnown, PTL

(***************************************************************************)
(* What an answer makes of the token, from stop to stop.                   *)
(***************************************************************************)
Arrive(legs, denoms) ==
  \A i \in 1..Len(legs) : denoms[i + 1] = Arrives(legs[i].from, legs[i].to, denoms[i])

\* The token starts as it was offered and ends as it was asked for.  Each leg
\* names what is there, except the second one behind the swap.
Delivers(denoms) ==
  LET n == Len(Journey)
  IN /\ denoms[1] = request.tokenIn /\ denoms[n + 1] = request.tokenOut
     /\ \A i \in 1..n : denoms[i + 1] = IF SwapAt(i) THEN Journey[i].gives
                                        ELSE Arrives(Journey[i].from, Journey[i].to, denoms[i])
     /\ \A i \in 1..n : \/ Journey[i].denom = denoms[i]
                        \/ response.kind = "brokerSwap" /\ i > Len(response.inbound) + 2

LEMMA DirectDelivers ==
  ASSUME IndexInv, RequestInv, Serving, NativesOnly(network), IsDirect(response)
  PROVE  \E denoms : Delivers(denoms)
<1> DEFINE leg    == Leg(request.from, request.to, request.tokenIn)
           denoms == <<request.tokenIn, request.tokenOut>>
<1>1. /\ response.kind = "direct" /\ response.inbound = <<leg>> /\ response.swap = << >> /\ response.outbound = << >>
  BY DEF IsDirect, NoResponse
<1>2. leg.from = request.from /\ leg.to = request.to /\ leg.denom = request.tokenIn
  BY DEF Leg
<1>3. Arrives(request.from, request.to, request.tokenIn) = request.tokenOut
  <2>1. request.from \in Chains /\ request.to \in Chains
    BY ConfiguredAreChains DEF RequestInv
  <2>2. PICK o, d : IsRequested(o, d)
    BY RequestedToken
  <2>3. IsBase(d) /\ request.tokenIn = DenomOn(request.from, o, d)
    BY <2>2 DEF IsRequested
  <2>4. PICK s \in AllowedTokens(request.from, request.to) : s.chainDenom = request.tokenIn
    BY DEF IsDirect, FindDirectRoute, Denoms
  <2>5. s \in TokensOf(AllowedTokens(request.from, request.to), DenomOn(request.from, o, d))
    BY <2>3, <2>4 DEF TokensOf
  <2>6. /\ o \in {request.from, request.to} /\ request.from # request.to
        /\ Arrives(request.from, request.to, request.tokenIn) = DenomOn(request.to, o, d)
    BY <2>1, <2>2, <2>3, <2>5, HopsOfToken
  <2>7. PICK t \in Info(request.from, request.tokenIn) : t.ibcDenom = request.tokenOut
    BY DEF IsDirect, FindDirectRoute
  <2>8. t \in index.tokens[request.from] /\ t.chainDenom = request.tokenIn
    BY <2>7 DEF Info
  <2>9. t.chainDenom \in Denoms(AllowedTokens(request.from, request.to))
    BY <2>4, <2>8 DEF Denoms
  <2>10. PICK to \in Chains : t \in AllowedTokens(request.from, to)
    BY <2>1, <2>8, <2>9, DescribedAreKnown
  <2>11. t \in TokensOf(AllowedTokens(request.from, to), DenomOn(request.from, o, d))
    BY <2>3, <2>8, <2>10 DEF TokensOf
  <2>12. request.tokenOut = DenomOn(to, o, d) /\ o \in {request.from, to}
    BY <2>1, <2>2, <2>7, <2>11, HopsOfToken
  <2>13. PICK u \in Info(request.to, request.tokenOut) : TRUE
    BY DEF RequestInv
  <2>14. Known(u, request.to) /\ u.chainDenom = request.tokenOut
    BY <2>1, <2>13, DescribedAreKnown DEF Info
  <2>15. /\ IsBase(u.baseDenom)
         /\ DenomOn(to, o, d) = DenomOn(request.to, u.originChain, u.baseDenom)
    BY <2>12, <2>14 DEF Known
  <2>16. to = request.to
    <3>1. /\ to = o <=> request.to = u.originChain
          /\ to # o => to = request.to
      BY <2>3, <2>15, DenomsDiffer
    <3>2. CASE to = o
      <4>1. to # request.from
        BY <2>10, <2>1, AllowedFacts
      <4>. QED
        BY <2>6, <3>2, <4>1
    <3>. QED
      BY <3>1, <3>2
  <2>. QED
    BY <2>6, <2>12, <2>16
<1>. HIDE DEF leg
<1>4. IsSeq(<<leg>>) /\ Len(<<leg>>) = 1 /\ <<leg>>[1] = leg
  BY SingletonFacts
<1>5. LegsAreSeqs(response)
  BY <1>1, <1>4, EmptyFacts DEF LegsAreSeqs
<1>6. Len(Journey) = 1 /\ \A i \in 1..1 : i = 1 /\ Journey[i] = leg
  <2>1. Len(Journey) = 1 + 0 + 0 /\ \A i \in 1..1 : Journey[i] = <<leg>>[i]
    BY <1>1, <1>4, <1>5, JourneyFacts, JourneyLegs, EmptyFacts
  <2>2. \A i \in 1..1 : i = 1
    OBVIOUS
  <2>. QED
    BY <1>4, <2>1, <2>2
<1>7. denoms[1] = request.tokenIn /\ denoms[2] = request.tokenOut /\ ~SwapAt(1)
  BY <1>1 DEF SwapAt
<1>. HIDE DEF denoms
<1>8. Delivers(denoms)
  BY <1>2, <1>3, <1>6, <1>7 DEF Delivers
<1>. QED
  BY <1>8

LEMMA IndirectDelivers ==
  ASSUME IndexInv, RequestInv, Serving, NativesOnly(network), IsIndirect(response)
  PROVE  \E denoms : Delivers(denoms)
<1>1. PICK path : FoundPath(path) /\ \E legs \in IndirectLegs(path) :
       response = [NoResponse EXCEPT !.kind = "indirect", !.path = path, !.inbound = legs, !.pfm = CheckPFMSupport(path)]
  BY DEF IsIndirect
<1>2. PICK legs \in IndirectLegs(path) :
       response = [NoResponse EXCEPT !.kind = "indirect", !.path = path, !.inbound = legs, !.pfm = CheckPFMSupport(path)]
  BY <1>1
<1>3. /\ response.kind = "indirect" /\ response.inbound = legs /\ response.swap = << >> /\ response.outbound = << >>
  BY <1>2 DEF NoResponse
<1>4. /\ Connects(legs, path)
      /\ \A i \in 1..Len(legs) : \E t \in CurrentTokens(path[i]) : legs[i].denom = t.chainDenom
  BY <1>1, IndirectConnects
<1>5. LegsAreSeqs(response)
  BY <1>3, <1>4, EmptyFacts DEF LegsAreSeqs, Connects
<1>6. Len(legs) \in Nat /\ Len(Journey) = Len(legs) /\ \A i \in 1..Len(legs) : Journey[i] = legs[i]
  <2>1. Len(legs) \in Nat
    BY <1>4, SeqFacts DEF Connects, IsSeq
  <2>. QED
    BY <1>3, <1>5, <2>1, JourneyFacts, JourneyLegs, EmptyFacts
<1> DEFINE n == Len(legs)
<1>7. PICK o, d : IsRequested(o, d)
  BY RequestedToken
<1> DEFINE denoms == [i \in 1..n + 1 |-> DenomOn(path[i], o, d)]
<1>8. /\ path \in Paths /\ Len(path) = n + 1 /\ path[1] = request.from /\ path[n + 1] = request.to
      /\ \A i \in 1..n + 1 : path[i] \in Chains
  <2>1. path \in Paths /\ Len(path) = n + 1 /\ path[1] = request.from /\ Last(path) = request.to
    BY <1>1, <1>4 DEF FoundPath, Connects
  <2>2. Last(path) = path[n + 1] /\ path \in Seq(Chains)
    BY <2>1, PathFacts
  <2>. QED
    BY <2>1, <2>2, ElementOfSeq
<1>9. /\ 1 \in 1..n + 1 /\ n + 1 \in 1..n + 1 /\ \A i \in 1..n : i \in 1..n + 1 /\ i + 1 \in 1..n + 1
  BY <1>6
<1>10. \A i \in 1..n : legs[i].denom = DenomOn(path[i], o, d)
  BY <1>4, <1>7, <1>8, <1>9 DEF IsRequested, Known
<1>11. ASSUME NEW i \in 1..n
       PROVE  Arrives(legs[i].from, legs[i].to, denoms[i]) = denoms[i + 1]
  <2>1. path[i] \in Chains /\ denoms[i] = DenomOn(path[i], o, d) /\ denoms[i + 1] = DenomOn(path[i + 1], o, d)
        /\ legs[i].from = path[i] /\ legs[i].to = path[i + 1]
    BY <1>4, <1>8, <1>9 DEF Connects
  <2>2. i \in 1..Len(path) - 1
    BY <1>6, <1>8
  <2>3. PICK t \in CurrentTokens(path[i]) : MayTravel(t, path[i], path[i + 1])
    BY <1>1, <2>2 DEF FoundPath, MayFollow
  <2>4. t.chainDenom = DenomOn(path[i], o, d)
    BY <1>7, <2>1 DEF IsRequested, Known
  <2>5. PICK s \in AllowedTokens(path[i], path[i + 1]) : s.chainDenom = DenomOn(path[i], o, d)
    BY <2>3, <2>4 DEF MayTravel, Denoms
  <2>6. s \in TokensOf(AllowedTokens(path[i], path[i + 1]), DenomOn(path[i], o, d))
    BY <2>5 DEF TokensOf
  <2>7. Arrives(path[i], path[i + 1], DenomOn(path[i], o, d)) = DenomOn(path[i + 1], o, d)
    BY <1>7, <2>1, <2>6, HopsOfToken
  <2>. QED
    BY <2>1, <2>7
<1>12. denoms[1] = request.tokenIn /\ denoms[n + 1] = request.tokenOut
  <2>1. request.tokenIn = DenomOn(request.from, o, d) /\ request.tokenOut = DenomOn(request.to, o, d)
    BY <1>7, SameTokenByDenom DEF IsRequested, IsIndirect
  <2>. QED
    BY <1>8, <1>9, <2>1
<1>13. \A i : ~SwapAt(i)
  BY <1>3 DEF SwapAt
<1>14. \A i \in 1..n : denoms[i] = DenomOn(path[i], o, d)
  BY <1>9
<1>. HIDE DEF denoms, n
<1>15. Len(Journey) = n /\ \A i \in 1..n : Journey[i] = legs[i]
  BY <1>6 DEF n
<1>16. Delivers(denoms)
  BY <1>10, <1>11, <1>12, <1>13, <1>14, <1>15 DEF Delivers
<1>. QED
  BY <1>16

\* The token arrives on the broker as the swap takes it.
LEMMA InboundDelivers ==
  ASSUME IndexInv, RequestInv, Serving, Broker \in network.built, NativesOnly(network),
         NEW h, LeadsToBroker(h)
  PROVE  \E denoms : /\ denoms[1] = request.tokenIn /\ denoms[Len(InboundLegs(h)) + 1] = TokenInOnBroker(h)
                     /\ Arrive(InboundLegs(h), denoms)
                     /\ \A i \in 1..Len(InboundLegs(h)) : InboundLegs(h)[i].denom = denoms[i]
<1>1. /\ Connects(InboundLegs(h), InboundStops(h)) /\ Len(InboundLegs(h)) = Len(h.inbound)
      /\ Len(InboundStops(h)) = Len(h.inbound) + 1
  BY InboundConnects DEF Connects
<1>2. request.from \in Chains /\ Broker \in Chains
  BY ConfiguredAreChains, BrokerAssumption DEF RequestInv
<1>3. \A c \in Chains : \A to : \A t \in AllowedTokens(c, to) : t.ibcDenom = Arrives(c, to, t.chainDenom)
  <2>. SUFFICES ASSUME NEW c \in Chains, NEW to, NEW t \in AllowedTokens(c, to)
                PROVE  t.ibcDenom = Arrives(c, to, t.chainDenom)
    OBVIOUS
  <2>1. to \in Chains /\ t \in BuildAllowedTokensForRoute(network, c, to) /\ network \in Networks
    BY AllowedFacts DEF IndexInv
  <2>. QED
    BY <2>1, AllowedTokensArrive
<1>4. CASE AtSource(h)
  <2>1. h.inbound = << >> /\ h.tokenIn.chainDenom = request.tokenIn
    BY <1>4 DEF AtSource, Info
  <2>2. TokenInOnBroker(h) = request.tokenIn /\ Len(InboundLegs(h)) = 0
    BY <1>1, <2>1, EmptyFacts DEF TokenInOnBroker
  <2> DEFINE denoms == <<request.tokenIn>>
  <2>3. \A i : i \notin 1..0
    OBVIOUS
  <2>4. denoms[1] = request.tokenIn
    OBVIOUS
  <2>. HIDE DEF denoms
  <2>5. Arrive(InboundLegs(h), denoms)
    BY <2>2, <2>3 DEF Arrive
  <2>6. denoms[Len(InboundLegs(h)) + 1] = request.tokenIn
    BY <2>2, <2>4
  <2>. QED
    BY <2>2, <2>3, <2>4, <2>5, <2>6
<1>5. CASE OverOneHop(h)
  <2> DEFINE denoms == <<request.tokenIn, h.tokenIn.ibcDenom>>
             leg    == InboundLegs(h)[1]
  <2>1. /\ h.inbound = <<request.from>> /\ h.inboundTokens = << >> /\ h.tokenIn.chainDenom = request.tokenIn
        /\ h.tokenIn \in AllowedTokens(request.from, Broker)
    BY <1>5 DEF OverOneHop, TokensOf
  <2>2. Len(h.inbound) = 1 /\ DOMAIN h.inbound = 1..1 /\ h.inbound # << >>
    BY <2>1
  <2>3. InboundStops(h)[1] = request.from /\ InboundStops(h)[2] = Broker
    BY <2>1 DEF InboundStops
  <2>4. \A i : i \in 1..1 <=> i = 1
    OBVIOUS
  <2>5. leg.from = request.from /\ leg.to = Broker /\ leg.denom = request.tokenIn
    <3>1. leg = Leg(InboundStops(h)[1], InboundStops(h)[2], h.tokenIn.chainDenom)
      BY <2>2 DEF InboundLegs, InboundStops
    <3>. QED
      BY <2>1, <2>3, <3>1 DEF Leg
  <2>6. TokenInOnBroker(h) = h.tokenIn.ibcDenom
    BY <2>1, <2>2 DEF TokenInOnBroker
  <2>7. denoms[1] = request.tokenIn /\ denoms[2] = h.tokenIn.ibcDenom
    OBVIOUS
  <2>8. h.tokenIn.ibcDenom = Arrives(request.from, Broker, request.tokenIn)
    BY <1>2, <1>3, <2>1
  <2>9. Len(InboundLegs(h)) = 1
    BY <1>1, <2>2
  <2>. HIDE DEF denoms, leg
  <2>10. Arrive(InboundLegs(h), denoms)
    BY <2>4, <2>5, <2>7, <2>8, <2>9 DEF Arrive, leg
  <2>. QED
    BY <2>4, <2>5, <2>6, <2>7, <2>9, <2>10 DEF leg
<1>6. CASE OverTwoHops(h)
  <2>1. PICK c \in Chains \ {request.from, Broker} : \E u \in AllowedTokens(c, Broker) :
          /\ h.inbound = <<request.from, c>> /\ h.inboundTokens = <<u>>
          /\ h.tokenIn \in TokensOf(AllowedTokens(request.from, c), request.tokenIn)
          /\ u.chainDenom = h.tokenIn.ibcDenom
    BY <1>6 DEF OverTwoHops
  <2>2. PICK u \in AllowedTokens(c, Broker) :
          /\ h.inbound = <<request.from, c>> /\ h.inboundTokens = <<u>>
          /\ h.tokenIn \in TokensOf(AllowedTokens(request.from, c), request.tokenIn)
          /\ u.chainDenom = h.tokenIn.ibcDenom
    BY <2>1
  <2> DEFINE denoms == <<request.tokenIn, u.chainDenom, u.ibcDenom>>
             first  == InboundLegs(h)[1]
             second == InboundLegs(h)[2]
  <2>3. Len(h.inbound) = 2 /\ DOMAIN h.inbound = 1..2 /\ h.inbound # << >>
    BY <2>2
  <2>4. InboundStops(h)[1] = request.from /\ InboundStops(h)[2] = c /\ InboundStops(h)[3] = Broker
    <3>1. <<request.from, c>> \o <<Broker>> = <<request.from, c, Broker>>
      BY ShortConcats
    <3>. QED
      BY <2>2, <3>1 DEF InboundStops
  <2>5. \A i : i \in 1..2 <=> i = 1 \/ i = 2
    OBVIOUS
  <2>6. first.from = request.from /\ first.to = c /\ first.denom = request.tokenIn
    <3>1. first = Leg(InboundStops(h)[1], InboundStops(h)[2], h.tokenIn.chainDenom)
      BY <2>3 DEF InboundLegs, InboundStops
    <3>. QED
      BY <2>2, <2>4, <3>1 DEF Leg, TokensOf
  <2>7. second.from = c /\ second.to = Broker /\ second.denom = u.chainDenom
    <3>0. 2 \in DOMAIN h.inbound /\ 2 # 1 /\ 2 - 1 = 1 /\ 2 + 1 = 3
      BY <2>3
    <3>1. second = Leg(InboundStops(h)[2], InboundStops(h)[3], h.inboundTokens[1].chainDenom)
      BY <2>3, <3>0 DEF InboundLegs, InboundStops
    <3>2. h.inboundTokens[1] = u
      BY <2>2
    <3>. QED
      BY <2>4, <3>1, <3>2 DEF Leg
  <2>8. TokenInOnBroker(h) = u.ibcDenom
    <3>1. h.inboundTokens # << >> /\ Last(h.inboundTokens) = u
      BY <2>2, SingletonFacts, ListOfLegs
    <3>. QED
      BY <2>3, <3>1 DEF TokenInOnBroker
  <2>9. denoms[1] = request.tokenIn /\ denoms[2] = u.chainDenom /\ denoms[3] = u.ibcDenom
    OBVIOUS
  <2>10. /\ u.ibcDenom = Arrives(c, Broker, u.chainDenom)
         /\ u.chainDenom = Arrives(request.from, c, request.tokenIn)
    BY <1>2, <1>3, <2>2 DEF TokensOf
  <2>11. Len(InboundLegs(h)) = 2
    BY <1>1, <2>3
  <2>. HIDE DEF denoms, first, second
  <2>12. Arrive(InboundLegs(h), denoms)
    BY <2>5, <2>6, <2>7, <2>9, <2>10, <2>11 DEF Arrive, first, second
  <2>. QED
    BY <2>5, <2>6, <2>7, <2>8, <2>9, <2>11, <2>12 DEF first, second
<1>. QED
  BY <1>4, <1>5, <1>6 DEF LeadsToBroker

\* What the swap gives arrives at the destination as it was asked for, although
\* the second leg names it as it is called on the broker.
LEMMA OutboundDelivers ==
  ASSUME IndexInv, RequestInv, Serving, Broker \in network.built, NativesOnly(network),
         NEW h, LeadsOn(h)
  PROVE  \E denoms : /\ denoms[1] = h.tokenOnBroker.chainDenom /\ denoms[Len(OutboundLegs(h)) + 1] = request.tokenOut
                     /\ Arrive(OutboundLegs(h), denoms)
<1>1. /\ Connects(OutboundLegs(h), OutboundStops(h)) /\ Len(OutboundLegs(h)) = Len(h.outbound)
      /\ \A i \in 1..Len(h.outbound) : /\ OutboundLegs(h)[i].from = OutboundStops(h)[i]
                                       /\ OutboundLegs(h)[i].to = OutboundStops(h)[i + 1]
  BY OutboundConnects DEF Connects
<1>2. request.to \in Chains /\ Broker \in Chains
  BY ConfiguredAreChains, BrokerAssumption DEF RequestInv
<1>3. \A c \in Chains : \A to : \A t \in AllowedTokens(c, to) :
        to \in Chains /\ Sendable(t, c, to) /\ t.ibcDenom = Arrives(c, to, t.chainDenom)
  <2>. SUFFICES ASSUME NEW c \in Chains, NEW to, NEW t \in AllowedTokens(c, to)
                PROVE  to \in Chains /\ Sendable(t, c, to) /\ t.ibcDenom = Arrives(c, to, t.chainDenom)
    OBVIOUS
  <2>1. to \in Chains /\ t \in BuildAllowedTokensForRoute(network, c, to) /\ network \in Networks
    BY AllowedFacts DEF IndexInv
  <2>. QED
    BY <2>1, AllowedTokensArrive, AllowedAreSendable
<1>4. CASE AtDestination(h)
  <2>1. h.outbound = << >> /\ h.tokenOnBroker.chainDenom = request.tokenOut
    BY <1>4 DEF AtDestination, Info
  <2>2. Len(OutboundLegs(h)) = 0
    BY <1>1, <2>1, EmptyFacts
  <2> DEFINE denoms == <<request.tokenOut>>
  <2>3. \A i : i \notin 1..0
    OBVIOUS
  <2>4. denoms[1] = request.tokenOut
    OBVIOUS
  <2>. HIDE DEF denoms
  <2>5. Arrive(OutboundLegs(h), denoms)
    BY <2>2, <2>3 DEF Arrive
  <2>6. denoms[Len(OutboundLegs(h)) + 1] = request.tokenOut
    BY <2>2, <2>4
  <2>. QED
    BY <2>1, <2>4, <2>5, <2>6
<1>5. CASE BackOneHop(h)
  <2> DEFINE denoms == <<h.tokenOnBroker.chainDenom, request.tokenOut>>
  <2>1. /\ h.outbound = <<request.to>> /\ h.tokenOnBroker \in AllowedTokens(Broker, request.to)
        /\ h.tokenOnBroker.ibcDenom = request.tokenOut
    BY <1>5 DEF BackOneHop, BecomesRequested
  <2>2. Len(OutboundLegs(h)) = 1 /\ Len(h.outbound) = 1
    BY <1>1, <2>1
  <2>3. OutboundStops(h)[1] = Broker /\ OutboundStops(h)[2] = request.to
    BY <2>1 DEF OutboundStops
  <2>4. request.tokenOut = Arrives(Broker, request.to, h.tokenOnBroker.chainDenom)
    BY <1>2, <1>3, <2>1
  <2>5. \A i : i \in 1..1 <=> i = 1
    OBVIOUS
  <2>6. denoms[1] = h.tokenOnBroker.chainDenom /\ denoms[2] = request.tokenOut
    OBVIOUS
  <2>. HIDE DEF denoms
  <2>7. Arrive(OutboundLegs(h), denoms)
    BY <1>1, <2>2, <2>3, <2>4, <2>5, <2>6 DEF Arrive
  <2>. QED
    BY <2>2, <2>6, <2>7
<1>6. CASE OverHome(h)
  <2>1. PICK token \in Info(request.to, request.tokenOut) :
          /\ token.originChain \notin {Broker, request.to}
          /\ h.outbound = <<token.originChain, request.to>>
          /\ h.tokenOnBroker \in AllowedTokens(Broker, token.originChain) /\ SameToken(h.tokenOnBroker, token)
          /\ BecomesRequested(AllowedTokens(token.originChain, request.to)) # {}
    BY <1>6 DEF OverHome
  <2> DEFINE origin == token.originChain
             base   == token.baseDenom
             denoms == <<h.tokenOnBroker.chainDenom, base, request.tokenOut>>
  <2>2. Known(token, request.to) /\ token.chainDenom = request.tokenOut
    BY <1>2, <2>1, DescribedAreKnown DEF Info
  <2>3. IsBase(base) /\ request.tokenOut = DenomOn(request.to, origin, base)
    BY <2>2 DEF Known
  <2>4. /\ Arrives(Broker, origin, h.tokenOnBroker.chainDenom) = base
        /\ origin \in Chains
    <3>1. /\ origin \in Chains /\ Sendable(h.tokenOnBroker, Broker, origin)
          /\ h.tokenOnBroker.ibcDenom = Arrives(Broker, origin, h.tokenOnBroker.chainDenom)
      BY <1>2, <1>3, <2>1
    <3>2. h.tokenOnBroker.ibcDenom = DenomOn(origin, origin, base)
      BY <2>1, <3>1 DEF Sendable, SameToken
    <3>. QED
      BY <3>1, <3>2 DEF DenomOn
  <2>5. Arrives(origin, request.to, base) = request.tokenOut
    <3>1. Arrives(origin, request.to, DenomOn(origin, origin, base)) = DenomOn(request.to, origin, base)
      BY <2>1, <2>3, DenomsTravel
    <3>. QED
      BY <2>3, <3>1 DEF DenomOn
  <2>6. Len(OutboundLegs(h)) = 2 /\ Len(h.outbound) = 2
    BY <1>1, <2>1
  <2>7. OutboundStops(h)[1] = Broker /\ OutboundStops(h)[2] = origin /\ OutboundStops(h)[3] = request.to
    <3>1. <<Broker>> \o <<origin, request.to>> = <<Broker, origin, request.to>>
      BY ShortConcats
    <3>. QED
      BY <2>1, <3>1 DEF OutboundStops
  <2>8. \A i : i \in 1..2 <=> i = 1 \/ i = 2
    OBVIOUS
  <2>9. denoms[1] = h.tokenOnBroker.chainDenom /\ denoms[2] = base /\ denoms[3] = request.tokenOut
    OBVIOUS
  <2>. HIDE DEF denoms, origin, base
  <2>10. Arrive(OutboundLegs(h), denoms)
    BY <1>1, <2>4, <2>5, <2>6, <2>7, <2>8, <2>9 DEF Arrive
  <2>. QED
    BY <2>6, <2>9, <2>10
<1>. QED
  BY <1>4, <1>5, <1>6 DEF LeadsOn

LEMMA BrokerDelivers ==
  ASSUME IndexInv, RequestInv, Serving, NativesOnly(network), IsBrokerSwap(response)
  PROVE  \E denoms : Delivers(denoms)
<1>1. PICK h \in FindMultiHopRoute :
        response = [kind |-> "brokerSwap", path |-> BrokerPath(h), inbound |-> InboundLegs(h),
                    swap |-> <<Swap(h)>>, outbound |-> OutboundLegs(h), pfm |-> OutboundPFM(h)]
  BY DEF IsBrokerSwap
<1>2. Broker \in network.built /\ LeadsToBroker(h) /\ LeadsOn(h)
  BY TriedRoutes
<1> DEFINE n == Len(response.inbound)
           m == Len(response.outbound)
<1>3. /\ response.kind = "brokerSwap" /\ response.inbound = InboundLegs(h)
      /\ response.swap = <<Swap(h)>> /\ response.outbound = OutboundLegs(h)
  BY <1>1
<1>4. IsSeq(response.inbound)
  BY <1>2, <1>3, InboundConnects DEF Connects
<1>5. /\ IsSeq(response.outbound) /\ m = Len(h.outbound)
      /\ \A i \in 1..m : response.outbound[i].denom = h.tokenOnBroker.chainDenom
  BY <1>2, <1>3, OutboundConnects DEF Connects
<1>6. IsSeq(response.swap) /\ Len(response.swap) = 1 /\ response.swap[1] = Swap(h)
  BY <1>3, SingletonFacts
<1>7. Swap(h).denom = TokenInOnBroker(h) /\ Swap(h).gives = h.tokenOnBroker.chainDenom
  BY DEF Swap
<1>8. LegsAreSeqs(response)
  BY <1>4, <1>5, <1>6 DEF LegsAreSeqs
<1>9. PICK a : /\ a[1] = request.tokenIn /\ a[n + 1] = TokenInOnBroker(h)
               /\ Arrive(response.inbound, a)
               /\ \A i \in 1..n : response.inbound[i].denom = a[i]
  BY <1>2, <1>3, InboundDelivers
<1>10. PICK b : /\ b[1] = h.tokenOnBroker.chainDenom /\ b[m + 1] = request.tokenOut
                /\ Arrive(response.outbound, b)
  BY <1>2, <1>3, OutboundDelivers
<1>11. /\ n \in Nat /\ m \in Nat /\ Len(Journey) = n + 1 + m
       /\ \A i \in 1..n : Journey[i] = response.inbound[i]
       /\ \A i \in 1..1 : Journey[n + i] = response.swap[i]
       /\ \A i \in 1..m : Journey[n + 1 + i] = response.outbound[i]
  BY <1>6, <1>8, JourneyFacts, JourneyLegs
<1>12. \A i : SwapAt(i) <=> i = n + 1
  BY <1>3 DEF SwapAt
<1>13. /\ \A i \in 1..n : a[i + 1] = Arrives(response.inbound[i].from, response.inbound[i].to, a[i])
       /\ \A i \in 1..m : b[i + 1] = Arrives(response.outbound[i].from, response.outbound[i].to, b[i])
  BY <1>9, <1>10 DEF Arrive
<1> DEFINE denoms == [i \in 1..n + m + 2 |-> IF i <= n + 1 THEN a[i] ELSE b[i - (n + 1)]]
<1>. HIDE DEF n, m
<1>14. /\ \A i \in 1..n + 1 : denoms[i] = a[i]
       /\ \A i \in 1..m + 1 : denoms[n + 1 + i] = b[i]
  <2>1. ASSUME NEW i \in 1..n + 1 PROVE denoms[i] = a[i]
    <3>1. i \in 1..n + m + 2 /\ i <= n + 1
      BY <1>11
    <3>. QED
      BY <3>1
  <2>2. ASSUME NEW i \in 1..m + 1 PROVE denoms[n + 1 + i] = b[i]
    <3>1. n + 1 + i \in 1..n + m + 2 /\ ~(n + 1 + i <= n + 1) /\ (n + 1 + i) - (n + 1) = i
      BY <1>11
    <3>. QED
      BY <3>1
  <2>. QED
    BY <2>1, <2>2
<1>. HIDE DEF denoms
<1>15. denoms[1] = request.tokenIn /\ denoms[Len(Journey) + 1] = request.tokenOut
  <2>1. 1 \in 1..n + 1 /\ m + 1 \in 1..m + 1 /\ Len(Journey) + 1 = n + 1 + (m + 1)
    BY <1>11
  <2>. QED
    BY <1>9, <1>10, <1>14, <2>1
<1>16. ASSUME NEW i \in 1..Len(Journey)
       PROVE  /\ denoms[i + 1] = IF SwapAt(i) THEN Journey[i].gives
                                 ELSE Arrives(Journey[i].from, Journey[i].to, denoms[i])
              /\ Journey[i].denom = denoms[i] \/ i > n + 2
  <2>1. CASE i \in 1..n
    <3>1. i \in 1..n + 1 /\ i + 1 \in 1..n + 1 /\ i # n + 1
      BY <1>11, <2>1
    <3>. QED
      BY <1>9, <1>11, <1>12, <1>13, <1>14, <2>1, <3>1
  <2>2. CASE i = n + 1
    <3>1. n + 1 \in 1..n + 1 /\ 1 \in 1..m + 1 /\ 1 \in 1..1
      BY <1>11
    <3>2. denoms[n + 1] = TokenInOnBroker(h) /\ denoms[n + 1 + 1] = h.tokenOnBroker.chainDenom /\ Journey[n + 1] = Swap(h)
      BY <1>6, <1>9, <1>10, <1>11, <1>14, <3>1
    <3>. QED
      BY <1>7, <1>12, <2>2, <3>2
  <2>3. ASSUME NEW j \in 1..m, i = n + 1 + j
        PROVE  /\ denoms[i + 1] = IF SwapAt(i) THEN Journey[i].gives
                                  ELSE Arrives(Journey[i].from, Journey[i].to, denoms[i])
               /\ Journey[i].denom = denoms[i] \/ i > n + 2
    <3>1. j \in 1..m + 1 /\ j + 1 \in 1..m + 1 /\ i + 1 = n + 1 + (j + 1) /\ i # n + 1 /\ (j = 1 \/ i > n + 2)
      BY <1>11, <2>3
    <3>2. denoms[i] = b[j] /\ denoms[i + 1] = b[j + 1] /\ Journey[i] = response.outbound[j]
      BY <1>11, <1>14, <2>3, <3>1
    <3>3. Journey[i].denom = h.tokenOnBroker.chainDenom
      BY <1>5, <3>2 DEF m
    <3>. QED
      BY <1>10, <1>12, <1>13, <3>1, <3>2, <3>3
  <2>4. i \in 1..n \/ i = n + 1 \/ \E j \in 1..m : i = n + 1 + j
    <3>1. i \in Nat /\ i >= 1 /\ i <= n + 1 + m
      BY <1>11
    <3>2. CASE i > n + 1
      <4>1. i - (n + 1) \in 1..m /\ i = n + 1 + (i - (n + 1))
        BY <1>11, <3>1, <3>2
      <4>. QED
        BY <4>1
    <3>. QED
      BY <1>11, <3>1, <3>2
  <2>. QED
    BY <2>1, <2>2, <2>3, <2>4
<1>17. Delivers(denoms)
  BY <1>3, <1>15, <1>16 DEF Delivers, n
<1>. QED
  BY <1>17

LEMMA AnswersDeliver ==
  ASSUME IndexInv, RequestInv, ResponseInv, NativesOnly(network), pc = "answered", response.kind # "impossible"
  PROVE  \E denoms : Delivers(denoms)
<1>1. Serving
  BY DEF Serving
<1>2. ~IsImpossible(response)
  BY KindsOfAnswers
<1>. QED
  BY <1>1, <1>2, DirectDelivers, IndirectDelivers, BrokerDelivers DEF ResponseInv

(***************************************************************************)
(* The client with its server behaves as the server alone.                 *)
(***************************************************************************)

\* Every step of the client that changes the server is one of the server, so
\* that what holds of RouteFinding holds here.
THEOREM StepsImplementFinding == StepsSpec => Spec
<1>1. StepsInit => Init
  BY DEF StepsInit
<1>2. [StepsNext]_allVars => [Next]_vars
  <2>. SUFFICES ASSUME [StepsNext]_allVars PROVE [Next]_vars
    OBVIOUS
  <2>1. CASE AskInMode
    BY <2>1 DEF AskInMode, Next
  <2>2. CASE Serve
    BY <2>2 DEF Serve, Next, Find
  <2>3. CASE Quote
    BY <2>3 DEF Quote, Next, Find
  <2>4. CASE Submit
    BY <2>4 DEF Submit
  <2>5. CASE Execute
    BY <2>5 DEF Execute, Sign, SignFails, Forward, Confirm, GiveUp
  <2>6. CASE UNCHANGED allVars
    BY <2>6 DEF allVars
  <2>. QED
    BY <2>1, <2>2, <2>3, <2>4, <2>5, <2>6 DEF StepsNext
<1>. QED
  BY <1>1, <1>2, PTL DEF StepsSpec, Spec

\* In particular the denominations the client is told are the ones that arrive.
THEOREM StepsTokensArrive ==
  ASSUME \A n \in Networks : NativesOnly(n)
  PROVE  StepsSpec => []IndexedTokensArrive
BY StepsImplementFinding, TokensArrive, PTL

(***************************************************************************)
(* The answers.                                                            *)
(***************************************************************************)
ServerInv == IndexInv /\ RequestInv /\ ResponseInv

LEMMA ServerIsWell == StepsSpec => []ServerInv
<1>1. IndexInv /\ RequestInv /\ ResponseInv => ServerInv
  BY DEF ServerInv
<1>. QED
  BY <1>1, StepsImplementFinding, IndexIsBuilt, RequestsAreServed, AnswersAreKnown, PTL

HasRoute == pc = "answered" /\ response.kind # "impossible"

\* Only a swap in smart mode is executed in one transaction: by a contract when
\* it starts on the broker, by a memo when it does not.
ExecutionFits ==
  /\ mode \in {"manual", "smart"} /\ execution \in {"none", "memo", "contract"}
  /\ execution # "none" => /\ pc = "answered" /\ response.kind = "brokerSwap"
                           /\ execution = "contract" <=> response.inbound = << >>

AnswerInv ==
  /\ ExecutionFits
  /\ pc # "answered" => response = NoResponse

\* What an answer says is kept until the next request.
LEMMA AnswersStayWell == AnswerInv /\ [StepsNext]_allVars => AnswerInv'
<1>. SUFFICES ASSUME AnswerInv, [StepsNext]_allVars PROVE AnswerInv'
  OBVIOUS
<1>1. CASE AskInMode
  BY <1>1 DEF AskInMode, Ask, AnswerInv, ExecutionFits
<1>2. CASE Serve
  <2>1. pc # "answered" /\ mode' = mode /\ execution' = execution
    BY <1>2 DEF Serve, clientVars, Load, AnswerDirect, NoDirectRoute, Explore, AnswerIndirect, NoIndirectRoute,
                ChooseBrokerRoute, NoRoute, SwapRefused
  <2>2. pc' = "answered" \/ response' = response
    BY <1>2 DEF Serve, Load, AnswerDirect, NoDirectRoute, Explore, AnswerIndirect, NoIndirectRoute,
                ChooseBrokerRoute, NoRoute, SwapRefused
  <2>. QED
    BY <2>1, <2>2 DEF AnswerInv, ExecutionFits
<1>3. CASE Quote
  <2>1. response'.kind = "brokerSwap" /\ pc' = "answered" /\ mode' = mode
    BY <1>3 DEF Quote, SwapQuoted
  <2>. QED
    BY <1>3, <2>1 DEF Quote, Executions, AnswerInv, ExecutionFits
<1>4. CASE UNCHANGED <<vars, mode, execution>>
  BY <1>4 DEF vars, AnswerInv, ExecutionFits
<1>5. CASE Submit
  BY <1>4, <1>5 DEF Submit
<1>6. CASE Execute
  BY <1>4, <1>6 DEF Execute, Sign, SignFails, Forward, Confirm, GiveUp
<1>7. CASE UNCHANGED allVars
  BY <1>4, <1>7 DEF allVars, clientVars
<1>. QED
  BY <1>1, <1>2, <1>3, <1>5, <1>6, <1>7 DEF StepsNext

LEMMA AnswersAreWell == StepsSpec => []AnswerInv
<1>1. StepsInit => AnswerInv
  BY DEF StepsInit, Init, AnswerInv, ExecutionFits
<1>. QED
  BY <1>1, AnswersStayWell, PTL DEF StepsSpec

\* An answer with its stops.  A route that can be forwarded has a chain between.
Leads(stops) ==
  /\ JourneyStops(stops) /\ PathFits(stops)
  /\ response.kind = "indirect" /\ response.pfm => Len(response.path) > 2
  /\ response.kind \in {"direct", "indirect", "brokerSwap"}

LEMMA RoutesLead ==
  ASSUME ServerInv, HasRoute
  PROVE  \E stops : Leads(stops)
<1>1. PICK stops : JourneyStops(stops) /\ PathFits(stops)
  BY AnswersLead DEF ServerInv, HasRoute
<1>2. response.kind \in {"direct", "indirect", "brokerSwap"}
  BY KindsOfAnswers DEF ServerInv, ResponseInv, HasRoute
<1>3. ASSUME response.kind = "indirect", response.pfm
      PROVE  Len(response.path) > 2
  <2>1. IsIndirect(response)
    BY <1>3, KindsOfAnswers DEF ServerInv, ResponseInv, HasRoute
  <2>2. PICK path, legs :
          response = [NoResponse EXCEPT !.kind = "indirect", !.path = path, !.inbound = legs, !.pfm = CheckPFMSupport(path)]
    BY <2>1 DEF IsIndirect
  <2>3. response.path = path /\ response.pfm = CheckPFMSupport(path)
    BY <2>2 DEF NoResponse
  <2>. QED
    BY <1>3, <2>3 DEF CheckPFMSupport
<1>. QED
  BY <1>1, <1>2, <1>3 DEF Leads

\* The numbers of legs of an answer, and its stops as chains.
LEMMA LeadsFacts ==
  ASSUME NEW stops, Leads(stops)
  PROVE  LET n == Len(response.inbound)
             k == Len(response.swap)
             m == Len(response.outbound)
         IN /\ n \in Nat /\ k \in Nat /\ m \in Nat
            /\ IsSeq(Journey) /\ Len(Journey) \in Nat /\ DOMAIN Journey = 1..Len(Journey)
            /\ Len(Journey) = n + k + m /\ Len(stops) = Len(Journey) + 1
            /\ response.kind \in {"direct", "indirect"} => k = 0 /\ m = 0
            /\ response.kind = "direct" => n = 1
            /\ response.kind = "brokerSwap" => k = 1 /\ n \in 0..2 /\ m \in 0..2
            /\ \A i \in 1..n : Journey[i] = response.inbound[i]
            /\ \A i \in 1..k : Journey[n + i] = response.swap[i]
            /\ \A i \in 1..m : Journey[n + k + i] = response.outbound[i]
            /\ \A i \in 1..Len(Journey) + 1 : stops[i] \in Chains
            /\ response.inbound = << >> <=> n = 0
            /\ stops[1] = request.from /\ stops[Len(Journey) + 1] = request.to
<1>1. LegsAreSeqs(response) /\ IsSeq(Journey) /\ stops \in Paths /\ Len(stops) = Len(Journey) + 1
  BY DEF Leads, JourneyStops, PathFits
<1>2. /\ Len(response.inbound) \in Nat /\ Len(response.swap) \in Nat /\ Len(response.outbound) \in Nat
      /\ \A i \in 1..Len(response.inbound) : Journey[i] = response.inbound[i]
      /\ \A i \in 1..Len(response.swap) : Journey[Len(response.inbound) + i] = response.swap[i]
      /\ \A i \in 1..Len(response.outbound) :
           Journey[Len(response.inbound) + Len(response.swap) + i] = response.outbound[i]
  BY <1>1, JourneyLegs
<1>3. /\ Len(Journey) \in Nat /\ DOMAIN Journey = 1..Len(Journey)
      /\ Len(Journey) = Len(response.inbound) + Len(response.swap) + Len(response.outbound)
      /\ response.inbound = << >> <=> Len(response.inbound) = 0
  BY <1>1, JourneyFacts, SeqFacts DEF IsSeq, LegsAreSeqs
<1>4. \A i \in 1..Len(Journey) + 1 : stops[i] \in Chains
  BY <1>1, PathFacts, ElementOfSeq
<1>5. stops[1] = request.from /\ stops[Len(Journey) + 1] = request.to
  BY <1>1 DEF Leads, JourneyStops, Last
<1>6. response.kind \in {"direct", "indirect"} => Len(response.swap) = 0 /\ Len(response.outbound) = 0
  BY EmptyFacts DEF Leads, PathFits
<1>7. /\ response.kind = "direct" => Len(response.inbound) = 1
      /\ response.kind = "brokerSwap" =>
           Len(response.swap) = 1 /\ Len(response.inbound) \in 0..2 /\ Len(response.outbound) \in 0..2
  BY DEF Leads, PathFits
<1>. QED
  BY <1>1, <1>2, <1>3, <1>4, <1>5, <1>6, <1>7

LEMMA PlacesOfLegs ==
  ASSUME NEW stops, Leads(stops)
  PROVE  LET n == Len(response.inbound)
             k == Len(response.swap)
             m == Len(response.outbound)
         IN /\ \A i \in 1..n : i \in 1..Len(Journey)
            /\ \A i \in 1..m : n + k + i \in 1..Len(Journey)
<1> DEFINE n == Len(response.inbound)
           k == Len(response.swap)
           m == Len(response.outbound)
<1>1. n \in Nat /\ k \in Nat /\ m \in Nat /\ Len(Journey) = n + k + m
  BY LeadsFacts
<1>2. /\ \A i \in 1..n : i \in 1..Len(Journey)
      /\ \A i \in 1..m : n + k + i \in 1..Len(Journey)
  <2>. HIDE DEF n, k, m
  <2>. QED
    BY <1>1
<1>. QED
  BY <1>2

(***************************************************************************)
(* The steps made of an answer.                                            *)
(***************************************************************************)

\* Whether one transaction makes the whole transfer.
OneInAll ==
  /\ mode = "smart"
  /\ \/ response.kind = "indirect" /\ response.pfm
     \/ response.kind = "brokerSwap" /\ execution # "none"

TypeOf(i) == IF SwapAt(i) THEN "swap" ELSE "ibc_transfer"

\* One step that takes the whole journey, or one for each leg.
StepsFit(list) ==
  /\ IsSeq(list)
  /\ OneInAll =>
       /\ Len(list) = 1 /\ Len(Journey) > 0
       /\ list[1].type \in {"multi-hop", "multi-hop + swap", "wasm-execution"}
       /\ list[1].from = request.from /\ list[1].to \in Chains
       /\ list[1].legs = Journey /\ list[1].watched = response.path
  /\ ~OneInAll =>
       /\ Len(list) = Len(Journey)
       /\ \A i \in 1..Len(Journey) : list[i] = OneLeg(TypeOf(i), Journey[i].from, Journey[i].to, Journey[i])

LEMMA TransfersAreListed ==
  ASSUME NEW legs, IsSeq(legs)
  PROVE  /\ IsSeq(TransferSteps(legs)) /\ Len(TransferSteps(legs)) = Len(legs)
         /\ \A i \in 1..Len(legs) : TransferSteps(legs)[i] = OneLeg("ibc_transfer", legs[i].from, legs[i].to, legs[i])
<1>1. Len(legs) \in Nat /\ DOMAIN legs = 1..Len(legs)
  BY SeqFacts DEF IsSeq
<1>2. TransferSteps(legs) \in [1..Len(legs) -> Range(TransferSteps(legs))]
  BY <1>1 DEF TransferSteps, Range
<1>3. IsSeq(TransferSteps(legs)) /\ Len(TransferSteps(legs)) = Len(legs)
  BY <1>1, <1>2, FunctionIsSeq
<1>. QED
  BY <1>1, <1>3 DEF TransferSteps

LEMMA SwapsAreListed ==
  ASSUME IsSeq(response.swap)
  PROVE  LET chain == response.path[Len(response.inbound) + 1]
         IN /\ IsSeq(SwapSteps) /\ Len(SwapSteps) = Len(response.swap)
            /\ \A i \in 1..Len(response.swap) : SwapSteps[i] = OneLeg("swap", chain, chain, response.swap[i])
<1>1. Len(response.swap) \in Nat /\ DOMAIN response.swap = 1..Len(response.swap)
  BY SeqFacts DEF IsSeq
<1>2. SwapSteps \in [1..Len(response.swap) -> Range(SwapSteps)]
  BY <1>1 DEF SwapSteps, Range
<1>3. IsSeq(SwapSteps) /\ Len(SwapSteps) = Len(response.swap)
  BY <1>1, <1>2, FunctionIsSeq
<1>. QED
  BY <1>1, <1>3 DEF SwapSteps

LEMMA ManualTransfers ==
  ASSUME NEW stops, Leads(stops), response.kind # "brokerSwap"
  PROVE  /\ IsSeq(TransferSteps(response.inbound)) /\ Len(TransferSteps(response.inbound)) = Len(Journey)
         /\ \A i \in 1..Len(Journey) :
              TransferSteps(response.inbound)[i] = OneLeg(TypeOf(i), Journey[i].from, Journey[i].to, Journey[i])
<1>1. /\ Len(Journey) = Len(response.inbound)
      /\ \A i \in 1..Len(response.inbound) : Journey[i] = response.inbound[i]
  <2>1. /\ Len(response.inbound) \in Nat
        /\ Len(Journey) = Len(response.inbound) + Len(response.swap) + Len(response.outbound)
        /\ \A i \in 1..Len(response.inbound) : Journey[i] = response.inbound[i]
    BY LeadsFacts
  <2>2. Len(response.swap) = 0 /\ Len(response.outbound) = 0
    BY LeadsFacts DEF Leads
  <2>3. \A x, y, z \in Nat : y = 0 /\ z = 0 => x + y + z = x
    OBVIOUS
  <2>. QED
    BY <2>1, <2>2, <2>3
<1>2. \A i : TypeOf(i) = "ibc_transfer"
  BY DEF TypeOf, SwapAt
<1>3. IsSeq(response.inbound)
  BY DEF Leads, PathFits, LegsAreSeqs
<1>. QED
  BY <1>1, <1>2, <1>3, TransfersAreListed

LEMMA ManualSwap ==
  ASSUME NEW stops, Leads(stops), response.kind = "brokerSwap"
  PROVE  LET list == TransferSteps(response.inbound) \o SwapSteps \o TransferSteps(response.outbound)
         IN /\ IsSeq(list) /\ Len(list) = Len(Journey)
            /\ \A i \in 1..Len(Journey) : list[i] = OneLeg(TypeOf(i), Journey[i].from, Journey[i].to, Journey[i])
<1> DEFINE n == Len(response.inbound)
           m == Len(response.outbound)
           in == TransferSteps(response.inbound)
           swap == SwapSteps
           out == TransferSteps(response.outbound)
<1>1. /\ n \in Nat /\ m \in Nat /\ Len(Journey) = n + 1 + m /\ Len(response.swap) = 1
      /\ \A i \in 1..n : Journey[i] = response.inbound[i]
      /\ \A i \in 1..1 : Journey[n + i] = response.swap[i]
      /\ \A i \in 1..m : Journey[n + 1 + i] = response.outbound[i]
  BY LeadsFacts
<1>2. IsSeq(response.inbound) /\ IsSeq(response.swap) /\ IsSeq(response.outbound)
  BY DEF Leads, PathFits, LegsAreSeqs
<1>3. /\ IsSeq(in) /\ Len(in) = n
      /\ \A i \in 1..n : in[i] = OneLeg("ibc_transfer", response.inbound[i].from, response.inbound[i].to, response.inbound[i])
  BY <1>2, TransfersAreListed
<1>4. /\ IsSeq(out) /\ Len(out) = m
      /\ \A i \in 1..m :
           out[i] = OneLeg("ibc_transfer", response.outbound[i].from, response.outbound[i].to, response.outbound[i])
  BY <1>2, TransfersAreListed
<1>5. /\ IsSeq(swap) /\ Len(swap) = 1
      /\ \A i \in 1..1 : swap[i] = OneLeg("swap", response.path[n + 1], response.path[n + 1], response.swap[i])
  BY <1>1, <1>2, SwapsAreListed
<1>6. n + 1 \in 1..Len(Journey) /\ 1 \in 1..1
  <2>1. n \in Nat /\ m \in Nat /\ Len(Journey) = n + 1 + m
    BY <1>1
  <2>. HIDE DEF n, m
  <2>. QED
    BY <2>1
<1>7. Journey[n + 1].from = response.path[n + 1] /\ Journey[n + 1].to = response.path[n + 1]
  <2>1. SwapAt(n + 1)
    BY DEF SwapAt
  <2>2. Journey[n + 1].from = stops[n + 1] /\ Journey[n + 1].to = stops[n + 1]
    BY <1>6, <2>1 DEF Leads, JourneyStops
  <2>3. response.path[n + 1] = Broker /\ stops[n + 1] = Broker
    BY DEF Leads, PathFits
  <2>. QED
    BY <2>2, <2>3
<1>8. \A i : TypeOf(i) = IF i = n + 1 THEN "swap" ELSE "ibc_transfer"
  BY DEF TypeOf, SwapAt
<1>. HIDE DEF n, m, in, swap, out
<1> DEFINE list == in \o swap \o out
<1>9. IsSeq(list) /\ Len(list) = Len(Journey)
  <2>1. IsSeq(in \o swap) /\ Len(in \o swap) = n + 1
    BY <1>3, <1>5, ConcatFacts
  <2>. QED
    BY <1>1, <1>4, <2>1, ConcatFacts
<1>10. /\ \A i \in 1..n : list[i] = in[i]
       /\ \A i \in 1..1 : list[n + i] = swap[i]
       /\ \A i \in 1..m : list[n + 1 + i] = out[i]
  <2>0. IsSeq(in) /\ IsSeq(swap) /\ IsSeq(out)
    BY <1>3, <1>4, <1>5
  <2>1. /\ \A i \in 1..Len(in) : (in \o swap \o out)[i] = in[i]
        /\ \A i \in 1..Len(swap) : (in \o swap \o out)[Len(in) + i] = swap[i]
        /\ \A i \in 1..Len(out) : (in \o swap \o out)[Len(in) + Len(swap) + i] = out[i]
    BY <2>0, ElementsOfThree
  <2>. QED
    BY <1>3, <1>4, <1>5, <2>1
<1>. HIDE DEF list
<1>11. ASSUME NEW i \in 1..Len(Journey)
       PROVE  list[i] = OneLeg(TypeOf(i), Journey[i].from, Journey[i].to, Journey[i])
  <2>1. CASE i <= n
    <3>1. i \in 1..n /\ i # n + 1
      BY <1>1, <2>1
    <3>. QED
      BY <1>1, <1>3, <1>8, <1>10, <3>1
  <2>2. CASE i = n + 1
    <3>1. list[n + 1] = OneLeg("swap", response.path[n + 1], response.path[n + 1], response.swap[1])
      BY <1>5, <1>6, <1>10
    <3>. QED
      BY <1>1, <1>6, <1>7, <1>8, <2>2, <3>1
  <2>3. CASE i > n + 1
    <3>1. /\ i - (n + 1) \in 1..m /\ n + 1 + (i - (n + 1)) = i /\ i # n + 1
      BY <1>1, <2>3
    <3>2. Journey[i] = response.outbound[i - (n + 1)] /\ list[i] = out[i - (n + 1)]
      BY <1>1, <1>10, <3>1
    <3>. QED
      BY <1>4, <1>8, <3>1, <3>2
  <2>. QED
    BY <1>1, <2>1, <2>2, <2>3
<1>. QED
  BY <1>9, <1>11 DEF list, in, swap, out

LEMMA OneTransactionFits ==
  ASSUME NEW stops, Leads(stops), OneInAll, Len(Journey) > 0, NEW to \in Chains,
         NEW type \in {"multi-hop", "multi-hop + swap", "wasm-execution"}
  PROVE  StepsFit(OneTransaction(type, to))
<1> DEFINE s == [type |-> type, from |-> response.path[1], to |-> to, legs |-> Journey, watched |-> response.path]
<1>1. OneTransaction(type, to) = <<s>>
  BY DEF OneTransaction
<1>2. s.type = type /\ s.from = request.from /\ s.to = to /\ s.legs = Journey /\ s.watched = response.path
  BY DEF Leads, PathFits
<1>. HIDE DEF s
<1>3. IsSeq(<<s>>) /\ Len(<<s>>) = 1 /\ <<s>>[1] = s
  BY SingletonFacts
<1>. QED
  BY <1>1, <1>2, <1>3 DEF StepsFit

LEMMA GeneratedSteps ==
  ASSUME NEW stops, Leads(stops), ExecutionFits
  PROVE  StepsFit(GenerateSteps) /\ Len(GenerateSteps) = StepCount
<1> DEFINE n == Len(response.inbound)
<1>1. /\ n \in Nat /\ Len(Journey) \in Nat
      /\ response.kind = "direct" => Len(Journey) = 1
      /\ response.kind = "indirect" => Len(Journey) = n
      /\ response.kind = "brokerSwap" => Len(Journey) > 0
      /\ response.inbound = << >> <=> n = 0
  <2> DEFINE k == Len(response.swap)
             m == Len(response.outbound)
  <2>1. n \in Nat /\ k \in Nat /\ m \in Nat /\ Len(Journey) = n + k + m
    BY LeadsFacts
  <2>2. /\ response.kind \in {"direct", "indirect"} => k = 0 /\ m = 0
        /\ response.kind = "direct" => n = 1
        /\ response.kind = "brokerSwap" => k = 1
        /\ response.inbound = << >> <=> n = 0
    BY LeadsFacts
  <2>. HIDE DEF n, k, m
  <2>. QED
    BY <2>1, <2>2
<1>2. response.path \in Paths /\ \A i \in 1..Len(response.path) : response.path[i] \in Chains
  BY PathFacts, ElementOfSeq DEF Leads, PathFits
<1>3. CASE response.kind = "direct"
  <2>1. GenerateSteps = TransferSteps(response.inbound) /\ StepCount = 1 /\ ~OneInAll
    BY <1>3 DEF GenerateSteps, StepCount, ExecutionFits, OneInAll
  <2>. QED
    BY <1>1, <1>3, <2>1, ManualTransfers DEF StepsFit
<1>4. CASE response.kind = "indirect" /\ mode = "smart" /\ response.pfm
  <2>1. GenerateSteps = OneTransaction("multi-hop", response.path[2]) /\ StepCount = 1 /\ OneInAll
    BY <1>4 DEF GenerateSteps, StepCount, ExecutionFits, OneInAll
  <2>2. Len(response.path) = Len(Journey) + 1 /\ Len(response.path) > 2
    BY <1>4 DEF Leads, PathFits, JourneyStops
  <2>3. Len(Journey) > 0 /\ response.path[2] \in Chains
    BY <1>1, <1>2, <2>2
  <2>4. StepsFit(GenerateSteps)
    BY <2>1, <2>3, OneTransactionFits
  <2>. QED
    BY <2>1, <2>4 DEF StepsFit
<1>5. CASE response.kind = "indirect" /\ ~(mode = "smart" /\ response.pfm)
  <2>1. GenerateSteps = TransferSteps(response.inbound) /\ StepCount = n /\ ~OneInAll
    BY <1>5 DEF GenerateSteps, StepCount, ExecutionFits, OneInAll
  <2>. QED
    BY <1>1, <1>5, <2>1, ManualTransfers DEF StepsFit
<1>6. CASE response.kind = "brokerSwap" /\ mode = "smart" /\ execution = "contract"
  <2>1. GenerateSteps = OneTransaction("wasm-execution", Last(response.path)) /\ StepCount = 1 /\ OneInAll
    BY <1>6 DEF GenerateSteps, StepCount, ExecutionFits, OneInAll
  <2>2. StepsFit(GenerateSteps)
    BY <1>1, <1>2, <1>6, <2>1, OneTransactionFits, PathFacts
  <2>. QED
    BY <2>1, <2>2 DEF StepsFit
<1>7. CASE response.kind = "brokerSwap" /\ mode = "smart" /\ execution = "memo"
  <2>1. GenerateSteps = OneTransaction("multi-hop + swap", response.path[2]) /\ StepCount = 1 /\ OneInAll
    BY <1>7 DEF GenerateSteps, StepCount, OneInAll
  <2>2. n # 0
    BY <1>1, <1>7 DEF ExecutionFits
  <2>3. Len(response.path) = n + 1 \/ Len(response.path) = n + 2
    BY <1>7 DEF Leads, PathFits
  <2>4. response.path[2] \in Chains
    BY <1>1, <1>2, <2>2, <2>3
  <2>5. StepsFit(GenerateSteps)
    BY <1>1, <1>7, <2>1, <2>4, OneTransactionFits
  <2>. QED
    BY <2>1, <2>5 DEF StepsFit
<1>8. CASE response.kind = "brokerSwap" /\ ~(mode = "smart" /\ execution # "none")
  <2>1. /\ GenerateSteps = TransferSteps(response.inbound) \o SwapSteps \o TransferSteps(response.outbound)
        /\ StepCount = Len(Journey) /\ ~OneInAll
    BY <1>8 DEF GenerateSteps, StepCount, ExecutionFits, OneInAll
  <2>. QED
    BY <1>8, <2>1, ManualSwap DEF StepsFit
<1>. QED
  BY <1>3, <1>4, <1>5, <1>6, <1>7, <1>8 DEF Leads, ExecutionFits

\* Every leg ends on a chain that the form asks for.
LEMMA LegsEndOnRequired ==
  ASSUME NEW stops, Leads(stops), NEW i \in 1..Len(Journey)
  PROVE  Journey[i].to \in RequiredChains
<1> DEFINE n == Len(response.inbound)
           k == Len(response.swap)
           m == Len(response.outbound)
<1>1. /\ n \in Nat /\ k \in Nat /\ m \in Nat /\ Len(Journey) = n + k + m
      /\ \A j \in 1..n : Journey[j] = response.inbound[j]
      /\ \A j \in 1..m : Journey[n + k + j] = response.outbound[j]
  BY LeadsFacts
<1>2. /\ response.kind \in {"direct", "indirect"} => k = 0 /\ m = 0
      /\ response.kind = "direct" => n = 1
      /\ response.kind = "brokerSwap" => k = 1
  BY LeadsFacts
<1>3. /\ \A j \in 1..n : j \in DOMAIN response.inbound
      /\ \A j \in 1..m : j \in DOMAIN response.outbound
  BY SeqFacts DEF Leads, PathFits, LegsAreSeqs, IsSeq
<1>4. /\ request.from = stops[1] /\ request.to = stops[Len(Journey) + 1]
      /\ request.from \in RequiredChains /\ request.to \in RequiredChains
  BY LeadsFacts DEF RequiredChains
<1>5. \A j \in 1..Len(Journey) : /\ Journey[j].to = stops[j + 1]
                                 /\ SwapAt(j) => stops[j] = stops[j + 1]
  BY DEF Leads, JourneyStops
<1>6. ASSUME response.kind # "direct"
      PROVE  \A j \in 1..n : Journey[j].to \in RequiredChains
  BY <1>1, <1>3, <1>6 DEF RequiredChains, IntermediateChainIds, ChainsAfter
<1>7. ASSUME response.kind # "direct"
      PROVE  \A j \in 1..m : Journey[n + k + j].to \in RequiredChains
  BY <1>1, <1>3, <1>7 DEF RequiredChains, IntermediateChainIds, ChainsAfter
<1>8. \A j : SwapAt(j) <=> response.kind = "brokerSwap" /\ j = n + 1
  BY DEF SwapAt
<1>. HIDE DEF n, k, m
<1>9. CASE response.kind = "direct"
  <2>1. i = Len(Journey)
    BY <1>1, <1>2, <1>9
  <2>. QED
    BY <1>4, <1>5, <2>1
<1>10. CASE response.kind = "indirect"
  <2>1. i \in 1..n
    BY <1>1, <1>2, <1>10
  <2>. QED
    BY <1>6, <1>10, <2>1
<1>11. CASE response.kind = "brokerSwap"
  <2>1. CASE i <= n
    <3>1. i \in 1..n
      BY <1>1, <2>1
    <3>. QED
      BY <1>6, <1>11, <3>1
  <2>2. CASE i = n + 1
    <3>1. Journey[i].to = stops[i]
      BY <1>5, <1>8, <1>11, <2>2
    <3>2. CASE n = 0
      BY <1>4, <2>2, <3>1, <3>2
    <3>3. CASE n # 0
      <4>1. n \in 1..n /\ n \in 1..Len(Journey) /\ i = n + 1
        BY <1>1, <2>2, <3>3
      <4>. QED
        BY <1>5, <1>6, <1>11, <3>1, <4>1
    <3>. QED
      BY <3>2, <3>3
  <2>3. CASE i > n + 1
    <3>1. i - (n + k) \in 1..m /\ n + k + (i - (n + k)) = i
      BY <1>1, <1>2, <1>11, <2>3
    <3>. QED
      BY <1>7, <1>11, <3>1
  <2>. QED
    BY <1>1, <2>1, <2>2, <2>3
<1>. QED
  BY <1>9, <1>10, <1>11 DEF Leads

\* Leg k of a step is the next but k - 1 of the journey, and the wallet signs
\* where the first one starts.
LEMMA LegsOfSteps ==
  ASSUME NEW stops, Leads(stops), StepsFit(steps), step \in 1..Len(steps)
  PROVE  /\ Len(Current.legs) \in Nat /\ Len(Current.legs) > 0
         /\ \A k \in 1..Len(Current.legs) : /\ step - 1 + k \in 1..Len(Journey)
                                            /\ Current.legs[k] = Journey[step - 1 + k]
         /\ OneInAll => /\ step = 1 /\ Len(steps) = 1 /\ Len(Current.legs) = Len(Journey)
                        /\ Current.watched = response.path /\ Current.type \notin {"swap", "ibc_transfer"}
         /\ ~OneInAll => /\ Len(steps) = Len(Journey) /\ Len(Current.legs) = 1
                         /\ Current.watched = <<Journey[step].from, Journey[step].to>>
                         /\ Current.type = TypeOf(step)
         /\ step \in 1..Len(Journey) /\ Current.from = stops[step]
<1>1. Len(Journey) \in Nat /\ IsSeq(Journey)
  BY LeadsFacts
<1>2. \A i \in 1..Len(Journey) : Journey[i].from = stops[i]
  BY DEF Leads, JourneyStops
<1>3. CASE OneInAll
  <2>1. /\ Len(steps) = 1 /\ Len(Journey) > 0
        /\ steps[1].type \in {"multi-hop", "multi-hop + swap", "wasm-execution"}
        /\ steps[1].from = request.from /\ steps[1].legs = Journey /\ steps[1].watched = response.path
    BY <1>3 DEF StepsFit
  <2>2. step = 1
    <3>1. step \in 1..1
      BY <2>1
    <3>. QED
      BY <3>1
  <2>3. /\ Current.legs = Journey /\ Current.watched = response.path /\ Current.from = request.from
        /\ Current.type \notin {"swap", "ibc_transfer"}
    BY <2>1, <2>2 DEF Current
  <2>4. \A k \in 1..Len(Current.legs) : /\ step - 1 + k \in 1..Len(Journey)
                                         /\ Current.legs[k] = Journey[step - 1 + k]
    <3>. SUFFICES ASSUME NEW k \in 1..Len(Current.legs)
                  PROVE  /\ step - 1 + k \in 1..Len(Journey)
                         /\ Current.legs[k] = Journey[step - 1 + k]
      OBVIOUS
    <3>1. k \in 1..Len(Journey) /\ step - 1 + k = k
      BY <1>1, <2>2, <2>3
    <3>. QED
      BY <2>3, <3>1
  <2>5. request.from = stops[1] /\ step \in 1..Len(Journey)
    <3>1. request.from = stops[1]
      BY LeadsFacts
    <3>2. 1 \in 1..Len(Journey)
      <4>1. Len(Journey) \in Nat /\ Len(Journey) > 0
        BY <1>1, <2>1
      <4>. QED
        BY <4>1
    <3>. QED
      BY <2>2, <3>1, <3>2
  <2>. QED
    BY <1>1, <1>3, <2>1, <2>2, <2>3, <2>4, <2>5
<1>4. CASE ~OneInAll
  <2>1. Len(steps) = Len(Journey) /\ step \in 1..Len(Journey)
    BY <1>4 DEF StepsFit
  <2>2. Current = OneLeg(TypeOf(step), Journey[step].from, Journey[step].to, Journey[step])
    BY <1>4, <2>1 DEF StepsFit, Current
  <2>3. /\ Current.legs = <<Journey[step]>> /\ Current.watched = <<Journey[step].from, Journey[step].to>>
        /\ Current.type = TypeOf(step) /\ Current.from = Journey[step].from
    BY <2>2 DEF OneLeg
  <2>4. Len(Current.legs) = 1 /\ Current.legs[1] = Journey[step]
    BY <2>3, SingletonFacts
  <2>5. \A k \in 1..1 : k = 1 /\ step - 1 + k = step
    BY <1>1, <2>1
  <2>. QED
    BY <1>2, <1>4, <2>1, <2>3, <2>4, <2>5
<1>. QED
  BY <1>3, <1>4

(***************************************************************************)
(* The transfer.                                                           *)
(***************************************************************************)
TaskFits ==
  /\ task \in {"idle", "signing", "confirming", "arrived", "stuck"}
  /\ task = "idle" => connected = {} /\ steps = << >> /\ step = 0 /\ hop = 0 /\ held = Nothing
  /\ task # "idle" => /\ HasRoute /\ connected = RequiredChains /\ steps = GenerateSteps
                      /\ held.chain \in connected /\ held = [chain |-> held.chain, denom |-> held.denom]

\* A step that is signed is at its start; one that is confirmed has moved the
\* token; the last leg of the last one ends the transfer.
PositionFits ==
  task # "idle" =>
    /\ steps = << >> => task = "stuck" /\ step = 1 /\ hop = 0
    /\ steps # << >> => /\ step \in 1..Len(steps) /\ hop \in 0..Len(Current.legs)
                        /\ task = "signing" => hop = 0
                        /\ task = "confirming" /\ refusedAt = 0 => hop > 0
                        /\ task = "arrived" /\ refusedAt = 0 => step + hop = Len(Journey) + 1

\* The token is where the legs that are done have brought it, as they have
\* brought it: so many legs as steps before this one, and those of this step.
TokenFits ==
  task # "idle" /\ refusedAt = 0 =>
    /\ \A stops : Leads(stops) => held.chain = stops[step + hop]
    /\ \A denoms : Delivers(denoms) => held.denom = denoms[step + hop]

\* The chains the token has met: of a transaction with a swap, one more than legs
\* until the swap, and then as many.
TrailFits ==
  LET n == Len(response.inbound)
  IN task \in {"signing", "confirming"} /\ refusedAt = 0 =>
       /\ trail \in Seq(Chains)
       /\ hop = 0 => trail = <<held.chain>>
       /\ OneInAll =>
            /\ Len(trail) = IF response.kind = "brokerSwap" /\ hop > n THEN hop ELSE hop + 1
            /\ response.kind = "brokerSwap" /\ hop > n + 1 =>
                 \A stops : Leads(stops) => trail[n + 2] = stops[n + 3]
       /\ ~OneInAll /\ hop = 1 /\ ~SwapAt(step) => trail = <<Journey[step].from, Journey[step].to>>

\* A packet that was not executed is one of the step that is confirmed, and not
\* the swap alone.  When its chain passes for reached, the token is not where the
\* next step sends it from; and behind the last step that chain is the destination.
RefundFits ==
  /\ refusedAt \in 0..Len(steps)
  /\ refusedAt # 0 =>
       /\ task = "signing" => held.chain # Current.from
       /\ task = "confirming" =>
            /\ refusedAt = step /\ trail \in Seq(Chains)
            /\ OneInAll => ~SwapAt(1) \/ Len(Journey) > 1
            /\ ~OneInAll => ~SwapAt(step) /\ held.chain = Current.from
       /\ task = "arrived" => refusedAt = Len(steps) /\ \E i \in 2..Len(trail) : trail[i] = request.to

TaskInv == TaskFits /\ PositionFits /\ TokenFits /\ TrailFits /\ RefundFits

\* The answer a transfer was made of stays as it is while the transfer lasts.
LEMMA AnswerIsKept ==
  ASSUME UNCHANGED <<network, pc, request, response, mode, execution>>
  PROVE  /\ GenerateSteps' = GenerateSteps /\ RequiredChains' = RequiredChains
         /\ Journey' = Journey /\ OneInAll' = OneInAll /\ HasRoute' = HasRoute
         /\ \A i : SwapAt(i)' <=> SwapAt(i)
         /\ \A stops : Leads(stops)' <=> Leads(stops)
         /\ \A denoms : Delivers(denoms)' <=> Delivers(denoms)
<1>1. SwapSteps' = SwapSteps /\ Journey' = Journey
  BY DEF SwapSteps, Journey
<1>2. \A type, to : OneTransaction(type, to)' = OneTransaction(type, to)
  BY <1>1 DEF OneTransaction
<1>3. GenerateSteps' = GenerateSteps /\ RequiredChains' = RequiredChains
  BY <1>1, <1>2 DEF GenerateSteps, TransferSteps, RequiredChains, IntermediateChainIds
<1>4. OneInAll' = OneInAll /\ HasRoute' = HasRoute /\ \A i : SwapAt(i)' <=> SwapAt(i)
  BY DEF OneInAll, HasRoute, SwapAt
<1>5. \A stops : Leads(stops)' <=> Leads(stops)
  BY <1>1, <1>4 DEF Leads, JourneyStops, PathFits, Configured
<1>6. \A denoms : Delivers(denoms)' <=> Delivers(denoms)
  BY <1>1, <1>4 DEF Delivers
<1>. QED
  BY <1>1, <1>3, <1>4, <1>5, <1>6

\* One leg brings the token to the next stop.
LEMMA LegMoves ==
  ASSUME NEW stops, Leads(stops), NEW k \in 1..Len(Journey), Moved(Journey[k]), held.chain = stops[k]
  PROVE  /\ held'.chain = stops[k + 1] /\ held'.chain \in RequiredChains /\ held'.chain \in Chains
         /\ hop' = hop + 1 /\ refusedAt' = refusedAt
         /\ SwapAt(k) => trail' = trail
         /\ ~SwapAt(k) => trail' = Append(trail, stops[k + 1])
         /\ \A denoms : Delivers(denoms) /\ held.denom = denoms[k] => held'.denom = denoms[k + 1]
<1>1. Journey[k].from = stops[k] /\ Journey[k].to = stops[k + 1] /\ (stops[k] = stops[k + 1] <=> SwapAt(k))
  BY DEF Leads, JourneyStops
<1>2. Swaps(Journey[k]) <=> SwapAt(k)
  BY <1>1 DEF Swaps
<1>3. stops[k + 1] \in Chains /\ stops[k + 1] \in RequiredChains
  <2>1. \A i \in 1..Len(Journey) + 1 : stops[i] \in Chains
    BY LeadsFacts
  <2>2. k + 1 \in 1..Len(Journey) + 1
    BY LeadsFacts
  <2>. QED
    BY <1>1, <2>1, <2>2, LegsEndOnRequired
<1>4. /\ held'.chain = Journey[k].to
      /\ held'.denom = IF Swaps(Journey[k]) THEN Journey[k].gives
                       ELSE Arrives(Journey[k].from, Journey[k].to, held.denom)
      /\ trail' = IF Swaps(Journey[k]) THEN trail ELSE Append(trail, Journey[k].to)
      /\ hop' = hop + 1 /\ refusedAt' = refusedAt
  BY DEF Moved
<1>5. \A denoms : Delivers(denoms) /\ held.denom = denoms[k] => held'.denom = denoms[k + 1]
  BY <1>2, <1>4 DEF Delivers
<1>. QED
  BY <1>1, <1>2, <1>3, <1>4, <1>5

\* Where a transfer that goes on stands.
LEMMA StandsAt ==
  ASSUME ServerInv, AnswerInv, TaskInv, task \in {"signing", "confirming"}
  PROVE  /\ HasRoute /\ steps = GenerateSteps /\ connected = RequiredChains
         /\ StepsFit(steps) /\ steps # << >> /\ step \in 1..Len(steps) /\ hop \in 0..Len(Current.legs)
         /\ Len(steps) \in Nat /\ Len(Current.legs) \in Nat /\ Len(Current.legs) > 0
         /\ \E stops : Leads(stops)
<1>1. HasRoute /\ steps = GenerateSteps /\ connected = RequiredChains
  BY DEF TaskInv, TaskFits
<1>2. PICK stops : Leads(stops)
  BY <1>1, RoutesLead
<1>3. StepsFit(steps)
  BY <1>1, <1>2, GeneratedSteps DEF AnswerInv
<1>4. steps # << >> /\ step \in 1..Len(steps) /\ hop \in 0..Len(Current.legs)
  BY DEF TaskInv, PositionFits
<1>5. Len(Current.legs) \in Nat /\ Len(Current.legs) > 0 /\ Len(steps) \in Nat
  BY <1>2, <1>3, <1>4, LegsOfSteps, SeqFacts DEF StepsFit, IsSeq
<1>. QED
  BY <1>1, <1>2, <1>3, <1>4, <1>5

LEMMA AppendedToOne ==
  ASSUME NEW a, NEW b
  PROVE  Append(<<a>>, b) = <<a, b>>
<1>1. <<a>> \in Seq({a, b}) /\ b \in {a, b}
  OBVIOUS
<1>2. Append(<<a>>, b) = <<a>> \o <<b>>
  BY <1>1, AppendIsConcat
<1>. QED
  BY <1>2, ShortConcats

\* What the token meets on the next leg.
LEMMA TrailGrows ==
  ASSUME NEW stops, Leads(stops), TrailFits, task \in {"signing", "confirming"}, refusedAt = 0,
         hop \in Nat, step \in Nat, NEW k \in 1..Len(Journey), k = step + hop,
         OneInAll => step = 1, ~OneInAll => hop = 0,
         Journey[k].from = stops[k], Journey[k].to = stops[k + 1], held.chain = stops[k], stops[k + 1] \in Chains,
         hop' = hop + 1, step' = step, UNCHANGED <<network, pc, request, response, mode, execution>>,
         SwapAt(k) => trail' = trail, ~SwapAt(k) => trail' = Append(trail, stops[k + 1])
  PROVE  TrailFits'
<1> DEFINE n == Len(response.inbound)
<1>1. /\ trail \in Seq(Chains)
      /\ hop = 0 => trail = <<held.chain>>
      /\ OneInAll =>
            /\ Len(trail) = IF response.kind = "brokerSwap" /\ hop > n THEN hop ELSE hop + 1
            /\ response.kind = "brokerSwap" /\ hop > n + 1 =>
                 \A s : Leads(s) => trail[n + 2] = s[n + 3]
  BY DEF TrailFits
<1>2. n \in Nat
  BY LeadsFacts
<1>3. /\ Append(trail, stops[k + 1]) \in Seq(Chains) /\ Len(Append(trail, stops[k + 1])) = Len(trail) + 1
      /\ \A i \in 1..Len(trail) : Append(trail, stops[k + 1])[i] = trail[i]
      /\ Append(trail, stops[k + 1])[Len(trail) + 1] = stops[k + 1]
      /\ Len(trail) \in Nat
  BY <1>1, AppendProperties, LenProperties
<1>4. trail' \in Seq(Chains)
  BY <1>1, <1>3
<1>5. SwapAt(k) <=> response.kind = "brokerSwap" /\ k = n + 1
  BY DEF SwapAt
<1>6. \A s : Leads(s) => s[k + 1] = stops[k + 1]
  BY DEF Leads, JourneyStops
<1>7. hop' # 0 /\ n' = n /\ response' = response
  <2>1. hop + 1 # 0
    OBVIOUS
  <2>. QED
    BY <2>1
<1>8. /\ Journey' = Journey /\ OneInAll' = OneInAll
      /\ \A i : SwapAt(i)' <=> SwapAt(i)
      /\ \A s : Leads(s)' <=> Leads(s)
  BY AnswerIsKept
<1>. HIDE DEF n
<1>9. ASSUME OneInAll
      PROVE  Len(trail') = IF response.kind = "brokerSwap" /\ hop' > n THEN hop' ELSE hop' + 1
  <2>1. k = hop + 1
    BY <1>9
  <2>2. CASE SwapAt(k)
    <3>1. response.kind = "brokerSwap" /\ hop = n /\ trail' = trail
      BY <1>2, <1>5, <2>1, <2>2
    <3>2. Len(trail) = hop + 1 /\ hop' > n
      BY <1>1, <1>2, <1>9, <3>1
    <3>. QED
      BY <3>1, <3>2
  <2>3. CASE ~SwapAt(k)
    <3>1. Len(trail') = Len(trail) + 1
      BY <1>3, <2>3
    <3>2. response.kind = "brokerSwap" => hop # n
      BY <1>5, <2>1, <2>3
    <3>3. CASE response.kind = "brokerSwap" /\ hop > n
      <4>1. Len(trail) = hop /\ hop' > n
        BY <1>1, <1>2, <1>9, <3>3
      <4>. QED
        BY <3>1, <3>3, <4>1
    <3>4. CASE ~(response.kind = "brokerSwap" /\ hop > n)
      <4>1. Len(trail) = hop + 1
        BY <1>1, <1>9, <3>4
      <4>2. ~(response.kind = "brokerSwap" /\ hop' > n)
        BY <1>2, <3>2, <3>4
      <4>. QED
        BY <3>1, <4>1, <4>2
    <3>. QED
      BY <3>3, <3>4
  <2>. QED
    BY <2>2, <2>3
<1>10. ASSUME OneInAll, response.kind = "brokerSwap", hop' > n + 1, NEW s, Leads(s)
       PROVE  trail'[n + 2] = s[n + 3]
  <2>1. k = hop + 1 /\ hop > n
    BY <1>2, <1>10
  <2>2. ~SwapAt(k)
    BY <1>2, <1>5, <2>1
  <2>3. Len(trail) = hop
    BY <1>1, <1>10, <2>1
  <2>4. CASE hop = n + 1
    <3>1. n + 2 = Len(trail) + 1 /\ n + 3 = k + 1
      BY <1>2, <2>1, <2>3, <2>4
    <3>2. trail'[Len(trail) + 1] = stops[k + 1]
      BY <1>3, <2>2
    <3>. QED
      BY <1>6, <1>10, <3>1, <3>2
  <2>5. CASE hop > n + 1
    <3>1. n + 2 \in 1..Len(trail)
      BY <1>2, <2>3, <2>5
    <3>2. trail'[n + 2] = trail[n + 2]
      BY <1>3, <2>2, <3>1
    <3>. QED
      BY <1>1, <1>10, <2>5, <3>2
  <2>. QED
    BY <1>2, <2>1, <2>4, <2>5
<1>11. ASSUME ~OneInAll, ~SwapAt(step)
       PROVE  trail' = <<Journey[step].from, Journey[step].to>>
  <2>1. hop = 0 /\ k = step
    BY <1>11
  <2>2. trail = <<stops[k]>> /\ trail' = Append(trail, stops[k + 1])
    BY <1>1, <1>11, <2>1
  <2>3. Append(<<stops[k]>>, stops[k + 1]) = <<stops[k], stops[k + 1]>>
    BY AppendedToOne
  <2>. QED
    BY <2>1, <2>2, <2>3
<1>. QED
  BY <1>4, <1>7, <1>8, <1>9, <1>10, <1>11 DEF TrailFits, n

\* A leg that is done, signed or forwarded.
LEMMA LegIsDone ==
  ASSUME ServerInv, AnswerInv, TaskInv, task \in {"signing", "confirming"}, refusedAt = 0,
         hop < Len(Current.legs), Moved(Current.legs[hop + 1]),
         step' = step, task' = "confirming", UNCHANGED <<vars, mode, execution, connected, steps>>
  PROVE  TaskInv'
<1>1. /\ HasRoute /\ steps = GenerateSteps /\ connected = RequiredChains
      /\ StepsFit(steps) /\ steps # << >> /\ step \in 1..Len(steps) /\ hop \in 0..Len(Current.legs)
      /\ Len(steps) \in Nat /\ Len(Current.legs) \in Nat
  BY StandsAt
<1>2. PICK stops : Leads(stops)
  BY StandsAt
<1> DEFINE k == step + hop
<1>3. hop + 1 \in 1..Len(Current.legs) /\ hop \in Nat /\ step \in Nat /\ step - 1 + (hop + 1) = k
  BY <1>1
<1>4. k \in 1..Len(Journey) /\ Current.legs[hop + 1] = Journey[k]
  <2>1. /\ step - 1 + (hop + 1) \in 1..Len(Journey)
        /\ Current.legs[hop + 1] = Journey[step - 1 + (hop + 1)]
    BY <1>1, <1>2, <1>3, LegsOfSteps
  <2>. QED
    BY <1>3, <2>1
<1>5. /\ \A s : Leads(s) => held.chain = s[k]
      /\ \A d : Delivers(d) => held.denom = d[k]
  BY DEF TaskInv, TokenFits
<1>6. Moved(Journey[k])
  BY <1>4
<1>7. UNCHANGED <<network, pc, request, response, mode, execution>>
  BY DEF vars
<1>8. /\ GenerateSteps' = GenerateSteps /\ RequiredChains' = RequiredChains
      /\ Journey' = Journey /\ HasRoute' = HasRoute
      /\ \A s : Leads(s)' <=> Leads(s)
      /\ \A d : Delivers(d)' <=> Delivers(d)
  BY <1>7, AnswerIsKept
<1>9. step' + hop' = k + 1 /\ hop' = hop + 1
  <2>1. hop' = hop + 1
    BY DEF Moved
  <2>. QED
    BY <1>3, <2>1
<1>. HIDE DEF k
<1>10. TaskFits'
  <2>1. held'.chain \in RequiredChains
    BY <1>2, <1>4, <1>5, <1>6, LegMoves
  <2>2. held' = [chain |-> held'.chain, denom |-> held'.denom]
    BY DEF Moved
  <2>. QED
    BY <1>1, <1>8, <2>1, <2>2 DEF TaskFits
<1>11. PositionFits'
  <2>1. Current' = Current
    BY DEF Current
  <2>2. hop' \in 0..Len(Current.legs) /\ hop' > 0
    BY <1>1, <1>3, <1>9
  <2>. QED
    BY <1>1, <2>1, <2>2 DEF PositionFits
<1>12. TokenFits'
  <2>1. ASSUME NEW s, Leads(s)
        PROVE  held'.chain = s[k + 1]
    BY <1>4, <1>5, <1>6, <2>1, LegMoves
  <2>2. ASSUME NEW d, Delivers(d)
        PROVE  held'.denom = d[k + 1]
    <3>1. held.denom = d[k] /\ held.chain = stops[k]
      BY <1>2, <1>5, <2>2
    <3>. QED
      BY <1>2, <1>4, <1>6, <2>2, <3>1, LegMoves
  <2>. QED
    BY <1>8, <1>9, <2>1, <2>2 DEF TokenFits
<1>13. TrailFits'
  <2>1. /\ OneInAll => step = 1
        /\ ~OneInAll => Len(Current.legs) = 1
    BY <1>1, <1>2, LegsOfSteps
  <2>2. ~OneInAll => hop = 0
    BY <1>1, <1>3, <2>1
  <2>3. held.chain = stops[k]
    BY <1>2, <1>5
  <2>4. /\ SwapAt(k) => trail' = trail
        /\ ~SwapAt(k) => trail' = Append(trail, stops[k + 1])
        /\ stops[k + 1] \in Chains
    <3>1. held'.chain = stops[k + 1] /\ held'.chain \in Chains
      BY <1>2, <1>4, <1>6, <2>3, LegMoves
    <3>. QED
      BY <1>2, <1>4, <1>6, <2>3, <3>1, LegMoves
  <2>5. Journey[k].from = stops[k] /\ Journey[k].to = stops[k + 1]
    BY <1>2, <1>4 DEF Leads, JourneyStops
  <2>6. TrailFits
    BY DEF TaskInv
  <2>. QED
    BY <1>2, <1>3, <1>4, <1>7, <1>9, <2>1, <2>2, <2>3, <2>4, <2>5, <2>6, TrailGrows DEF k
<1>14. RefundFits'
  <2>1. refusedAt' = 0 /\ Len(steps)' \in Nat
    BY <1>1 DEF Moved
  <2>. QED
    BY <2>1 DEF RefundFits
<1>. QED
  BY <1>10, <1>11, <1>12, <1>13, <1>14 DEF TaskInv

\* A packet that is not executed leaves the token where the step was signed, or,
\* behind the swap, on the chain of the swap.
LEMMA RefundsAreRequired ==
  ASSUME ServerInv, AnswerInv, TaskInv, task \in {"signing", "confirming"}
  PROVE  Refund.chain \in RequiredChains /\ Refund = [chain |-> Refund.chain, denom |-> Refund.denom]
<1>1. /\ StepsFit(steps) /\ step \in 1..Len(steps) /\ hop \in 0..Len(Current.legs)
      /\ Len(Current.legs) \in Nat
  BY StandsAt
<1>2. PICK stops : Leads(stops)
  BY StandsAt
<1>3. /\ step \in 1..Len(Journey) /\ Current.from = stops[step] /\ Len(Journey) \in Nat
      /\ \A k \in 1..Len(Current.legs) : /\ step - 1 + k \in 1..Len(Journey)
                                         /\ Current.legs[k] = Journey[step - 1 + k]
  BY <1>1, <1>2, LegsOfSteps, LeadsFacts
<1>4. CASE \E i \in 1..hop : Swaps(Current.legs[i])
  <2>1. PICK i \in 1..hop : Swaps(Current.legs[i])
    BY <1>4
  <2>2. i \in 1..Len(Current.legs)
    BY <1>1
  <2>3. PICK k \in 1..Len(Journey) : Current.legs[i] = Journey[k]
    BY <1>3, <2>2
  <2>4. SwapAt(k)
    BY <1>2, <2>1, <2>3 DEF Swaps, Leads, JourneyStops
  <2>5. response.kind = "brokerSwap" /\ k = Len(response.inbound) + 1
    BY <2>4 DEF SwapAt
  <2>6. Len(response.swap) = 1 /\ \A j \in 1..Len(response.swap) : Journey[Len(response.inbound) + j] = response.swap[j]
    BY <1>2, <2>5, LeadsFacts
  <2>7. Journey[k] = response.swap[1]
    BY <2>5, <2>6
  <2>8. Refund = [chain |-> response.swap[1].to, denom |-> response.swap[1].gives]
    BY <1>4 DEF Refund
  <2>9. response.swap[1].to \in RequiredChains
    BY <1>2, <2>7, LegsEndOnRequired
  <2>. QED
    BY <2>8, <2>9
<1>5. CASE ~\E i \in 1..hop : Swaps(Current.legs[i])
  <2>1. Refund = [chain |-> Current.from, denom |-> Current.legs[1].denom]
    BY <1>5 DEF Refund
  <2>2. stops[step] \in RequiredChains
    <3>1. CASE step = 1
      BY <1>2, <3>1, LeadsFacts DEF RequiredChains
    <3>2. CASE step # 1
      <4>1. step - 1 \in 1..Len(Journey) /\ step - 1 + 1 = step
        BY <1>3, <3>2
      <4>2. Journey[step - 1].to = stops[step - 1 + 1]
        BY <1>2, <4>1 DEF Leads, JourneyStops
      <4>. QED
        BY <1>2, <4>1, <4>2, LegsEndOnRequired
    <3>. QED
      BY <3>1, <3>2
  <2>. QED
    BY <1>3, <2>1, <2>2
<1>. QED
  BY <1>4, <1>5

\* A leg whose packet is not executed.
LEMMA LegIsRefused ==
  ASSUME ServerInv, AnswerInv, TaskInv, task \in {"signing", "confirming"}, refusedAt = 0,
         hop < Len(Current.legs), Refused(Current.legs[hop + 1]),
         task = "signing" => hop = 0 /\ ~Swaps(Current.legs[1]),
         step' = step, task' = "confirming", UNCHANGED <<vars, mode, execution, connected, steps>>
  PROVE  TaskInv'
<1>1. /\ HasRoute /\ steps = GenerateSteps /\ connected = RequiredChains
      /\ StepsFit(steps) /\ steps # << >> /\ step \in 1..Len(steps) /\ hop \in 0..Len(Current.legs)
      /\ Len(steps) \in Nat /\ Len(Current.legs) \in Nat
  BY StandsAt
<1>2. PICK stops : Leads(stops)
  BY StandsAt
<1>3. /\ \A k \in 1..Len(Current.legs) : /\ step - 1 + k \in 1..Len(Journey)
                                         /\ Current.legs[k] = Journey[step - 1 + k]
      /\ OneInAll => step = 1 /\ Len(Current.legs) = Len(Journey)
      /\ ~OneInAll => Len(Current.legs) = 1
      /\ step \in 1..Len(Journey) /\ Current.from = stops[step] /\ Len(Journey) \in Nat
  BY <1>1, <1>2, LegsOfSteps, LeadsFacts
<1>4. \A k \in 1..Len(Journey) : (Swaps(Journey[k]) <=> SwapAt(k)) /\ Journey[k].to \in Chains
  <2>. SUFFICES ASSUME NEW k \in 1..Len(Journey)
                PROVE  (Swaps(Journey[k]) <=> SwapAt(k)) /\ Journey[k].to \in Chains
    OBVIOUS
  <2>1. k + 1 \in 1..Len(Journey) + 1
    <3>1. Len(Journey) \in Nat
      BY <1>3
    <3>2. \A n \in Nat : \A i \in 1..n : i + 1 \in 1..n + 1
      OBVIOUS
    <3>. QED
      BY <3>1, <3>2
  <2>2. \A i \in 1..Len(Journey) + 1 : stops[i] \in Chains
    BY <1>2, LeadsFacts
  <2>3. Journey[k].from = stops[k] /\ Journey[k].to = stops[k + 1] /\ (stops[k] = stops[k + 1] <=> SwapAt(k))
    BY <1>2 DEF Leads, JourneyStops
  <2>. QED
    BY <2>1, <2>2, <2>3 DEF Swaps
<1>5. UNCHANGED <<network, pc, request, response, mode, execution>>
  BY DEF vars
<1>6. /\ GenerateSteps' = GenerateSteps /\ RequiredChains' = RequiredChains
      /\ Journey' = Journey /\ HasRoute' = HasRoute /\ OneInAll' = OneInAll
      /\ \A i : SwapAt(i)' <=> SwapAt(i)
  BY <1>5, AnswerIsKept
<1>7. Current' = Current
  BY DEF Current
<1>8. held' = Refund /\ refusedAt' = step /\ hop' = hop
      /\ (trail' = trail \/ trail' = Append(trail, Current.legs[hop + 1].to))
  BY DEF Refused
<1>9. refusedAt' # 0
  BY <1>1, <1>8
<1>10. TaskFits'
  BY <1>1, <1>6, <1>8, RefundsAreRequired DEF TaskFits
<1>11. PositionFits'
  BY <1>1, <1>7, <1>8, <1>9 DEF PositionFits
<1>12. TokenFits' /\ TrailFits'
  BY <1>9 DEF TokenFits, TrailFits
<1>13. trail' \in Seq(Chains)
  <2>1. hop + 1 \in 1..Len(Current.legs)
    BY <1>1
  <2>2. PICK k \in 1..Len(Journey) : Current.legs[hop + 1] = Journey[k]
    BY <1>3, <2>1
  <2>3. Current.legs[hop + 1].to \in Chains
    BY <1>4, <2>2
  <2>4. trail \in Seq(Chains)
    BY DEF TaskInv, TrailFits
  <2>5. Append(trail, Current.legs[hop + 1].to) \in Seq(Chains)
    BY <2>3, <2>4, AppendProperties
  <2>. QED
    BY <1>8, <2>4, <2>5
<1>14. task = "signing" => /\ ~SwapAt(step)
                           /\ 1 \in 1..Len(Current.legs)
  <2>. SUFFICES ASSUME task = "signing" PROVE ~SwapAt(step) /\ 1 \in 1..Len(Current.legs)
    OBVIOUS
  <2>1. 1 \in 1..Len(Current.legs) /\ step - 1 + 1 = step
    BY <1>1
  <2>2. Current.legs[1] = Journey[step]
    BY <1>3, <2>1
  <2>. QED
    BY <1>3, <1>4, <2>1, <2>2
<1>15. task = "confirming" => hop > 0
  BY <1>1 DEF TaskInv, PositionFits
<1>16. OneInAll => ~SwapAt(1) \/ Len(Journey) > 1
  <2>1. CASE task = "signing"
    BY <1>3, <1>14, <2>1
  <2>2. CASE task = "confirming"
    <3>1. OneInAll => Len(Journey) > hop /\ hop \in Nat
      BY <1>1, <1>3
    <3>. QED
      BY <1>3, <1>15, <2>2, <3>1
  <2>. QED
    BY <2>1, <2>2
<1>17. ~OneInAll => ~SwapAt(step) /\ held'.chain = Current.from
  <2>. SUFFICES ASSUME ~OneInAll PROVE ~SwapAt(step) /\ held'.chain = Current.from
    OBVIOUS
  <2>1. hop = 0
    BY <1>1, <1>3
  <2>2. task = "signing"
    BY <1>15, <2>1
  <2>3. Refund = [chain |-> Current.from, denom |-> Current.legs[1].denom]
    <3>1. \A i \in 1..hop : FALSE
      BY <2>1
    <3>. QED
      BY <3>1 DEF Refund
  <2>4. held'.chain = Current.from
    BY <1>8, <2>3
  <2>. QED
    BY <1>14, <2>2, <2>4
<1>18. RefundFits'
  BY <1>1, <1>6, <1>7, <1>8, <1>13, <1>16, <1>17 DEF RefundFits
<1>. QED
  BY <1>10, <1>11, <1>12, <1>18 DEF TaskInv

\* When one transaction takes the whole journey, its tracker has seen the token
\* on every chain of the path only when the token is at the end of it.  The path
\* leaves out the home of a swapped token, but the trail does not.
LEMMA TrackedToTheEnd ==
  ASSUME NEW stops, Leads(stops), TrailFits, OneInAll, task = "confirming", refusedAt = 0, step # 0,
         hop \in 1..Len(Journey), Current.legs = Journey, Current.watched = response.path,
         Current.type # "swap", ~Forwards, Confirmed
  PROVE  hop = Len(Journey)
<1> DEFINE n == Len(response.inbound)
           m == Len(response.outbound)
           path == response.path
<1>1. /\ n \in Nat /\ m \in Nat /\ Len(Journey) \in Nat /\ Len(stops) = Len(Journey) + 1
      /\ response.kind = "brokerSwap" => Len(response.swap) = 1
      /\ Len(Journey) = n + Len(response.swap) + m
  BY LeadsFacts
<1>2. response.kind = "brokerSwap" => Len(Journey) = n + 1 + m /\ m \in 0..2
  BY <1>1, LeadsFacts
<1>3. /\ trail \in Seq(Chains)
      /\ Len(trail) = IF response.kind = "brokerSwap" /\ hop > n THEN hop ELSE hop + 1
      /\ response.kind = "brokerSwap" /\ hop > n + 1 => trail[n + 2] = stops[n + 3]
  BY DEF TrailFits
<1>4. path \in Paths /\ Len(path) \in Nat
  BY PathFacts DEF Leads, PathFits
<1>5. ASSUME Len(path) >= 2
      PROVE  Len(path) <= Len(trail) /\ \A i \in 1..Len(path) : path[i] = trail[i]
  <2>1. Len(path) <= Len(trail) /\ SubSeq(path, 1, Len(path)) = SubSeq(trail, 1, Len(path))
    BY <1>4, <1>5 DEF Confirmed, IsPrefix
  <2>2. \A i \in 1..Len(path) : path[i] \in Chains /\ trail[i] \in Chains
    BY <1>3, <1>4, <2>1, ElementOfSeq, LenProperties DEF Paths
  <2>3. /\ \A i \in 1..Len(path) - 1 + 1 : SubSeq(path, 1, Len(path))[i] = path[1 + i - 1]
        /\ \A i \in 1..Len(path) - 1 + 1 : SubSeq(trail, 1, Len(path))[i] = trail[1 + i - 1]
    BY <1>4, <2>2, SubSeqProperties
  <2>4. \A i \in 1..Len(path) : i \in 1..Len(path) - 1 + 1 /\ 1 + i - 1 = i
    BY <1>4
  <2>. QED
    BY <2>1, <2>3, <2>4
<1>6. CASE response.kind = "indirect"
  <2>1. Len(path) > 2 /\ path = stops
    BY <1>6 DEF OneInAll, Leads, PathFits
  <2>2. Len(path) = Len(Journey) + 1 /\ Len(trail) = hop + 1
    BY <1>1, <1>3, <1>6, <2>1
  <2>3. Len(path) <= Len(trail)
    BY <1>4, <1>5, <2>1
  <2>4. Len(Journey) \in Nat /\ Len(Journey) + 1 <= hop + 1
    BY <1>1, <2>2, <2>3
  <2>. QED
    BY <2>4
<1>7. CASE response.kind = "brokerSwap"
  <2>1. Len(path) = IF m = 0 THEN n + 1 ELSE n + 2
    BY <1>7 DEF Leads, PathFits
  <2>2. hop # n
    <3>. SUFFICES ASSUME hop = n PROVE FALSE
      OBVIOUS
    <3>1. hop < Len(Journey) /\ n + 1 \in 1..Len(Journey)
      <4>1. n \in Nat /\ m \in Nat /\ Len(Journey) = n + 1 + m
        BY <1>1, <1>2, <1>7
      <4>. HIDE DEF n, m
      <4>. QED
        BY <4>1
    <3>2. Journey[n + 1].from = Journey[n + 1].to
      BY <1>7, <3>1 DEF Leads, JourneyStops, SwapAt
    <3>. QED
      BY <3>1, <3>2 DEF Forwards, Swaps
  <2>. HIDE DEF n, m, path
  <2>3. CASE Len(path) < 2
    <3>1. m = 0 /\ n = 0
      BY <1>1, <2>1, <2>3
    <3>2. Len(Journey) = 1
      BY <1>2, <1>7, <3>1
    <3>. QED
      BY <3>2
  <2>4. CASE Len(path) >= 2
    <3>1. Len(path) <= Len(trail) /\ \A i \in 1..Len(path) : path[i] = trail[i]
      BY <1>5, <2>4
    <3>2. hop > n
      BY <1>1, <1>3, <2>1, <2>2, <3>1
    <3>3. Len(trail) = hop
      BY <1>3, <1>7, <3>2
    <3>4. CASE m \in {0, 1}
      <4>1. hop >= n + 1 + m
        BY <1>1, <2>1, <3>1, <3>3, <3>4
      <4>2. Len(Journey) = n + 1 + m
        BY <1>2, <1>7
      <4>. QED
        BY <1>1, <4>1, <4>2
    <3>5. CASE m = 2
      <4>1. hop >= n + 2 /\ n + 2 \in 1..Len(path)
        BY <1>1, <2>1, <3>1, <3>3, <3>5
      <4>2. path[n + 2] = stops[n + 3]
        BY <1>1, <1>3, <1>7, <3>1, <4>1
      <4>3. path[n + 2] # stops[n + 3]
        BY <1>7, <3>5 DEF Leads, PathFits, n, m, path
      <4>. QED
        BY <4>2, <4>3
    <3>. QED
      BY <1>2, <1>7, <3>4, <3>5
  <2>. QED
    BY <1>4, <2>3, <2>4
<1>. QED
  BY <1>6, <1>7 DEF OneInAll

LEMMA StepsHaveLegs ==
  ASSUME NEW stops, Leads(stops), NEW list, StepsFit(list), NEW i \in 1..Len(list)
  PROVE  Len(list[i].legs) \in Nat
<1>1. Len(Journey) \in Nat
  BY LeadsFacts
<1>2. CASE OneInAll
  <2>1. i = 1
    <3>1. i \in 1..1
      BY <1>2 DEF StepsFit
    <3>. QED
      BY <3>1
  <2>. QED
    BY <1>1, <1>2, <2>1 DEF StepsFit
<1>3. CASE ~OneInAll
  <2>1. list[i] = OneLeg(TypeOf(i), Journey[i].from, Journey[i].to, Journey[i])
    BY <1>3 DEF StepsFit
  <2>2. list[i].legs = <<Journey[i]>>
    BY <2>1 DEF OneLeg
  <2>. QED
    BY <2>2, SingletonFacts
<1>. QED
  BY <1>2, <1>3

LEMMA SubmittedFits ==
  ASSUME ServerInv, AnswerInv, Submit
  PROVE  TaskInv'
<1>1. HasRoute /\ UNCHANGED <<network, pc, request, response, mode, execution>>
  BY DEF Submit, HasRoute, vars
<1>2. PICK stops : Leads(stops)
  BY <1>1, RoutesLead
<1>3. /\ GenerateSteps' = GenerateSteps /\ RequiredChains' = RequiredChains /\ HasRoute' = HasRoute
      /\ \A s : Leads(s)' <=> Leads(s)
      /\ \A d : Delivers(d)' <=> Delivers(d)
  BY <1>1, AnswerIsKept
<1>4. StepsFit(GenerateSteps)
  BY <1>2, GeneratedSteps DEF AnswerInv
<1>5. /\ steps' = GenerateSteps /\ step' = 1 /\ hop' = 0 /\ trail' = <<request.from>> /\ connected' = RequiredChains
      /\ held'.chain = request.from /\ held'.denom = request.tokenIn
      /\ task' = IF steps' = << >> THEN "stuck" ELSE "signing"
  BY DEF Submit
<1>6. request.from \in Chains /\ Len(response.inbound) \in Nat
  <2>1. /\ \A i \in 1..Len(Journey) + 1 : stops[i] \in Chains
        /\ stops[1] = request.from /\ Len(Journey) \in Nat /\ Len(response.inbound) \in Nat
    BY <1>2, LeadsFacts
  <2>2. 1 \in 1..Len(Journey) + 1
    BY <2>1
  <2>. QED
    BY <2>1, <2>2
<1>7. TaskFits'
  <2>1. request.from \in RequiredChains
    BY DEF RequiredChains
  <2>2. held' = [chain |-> held'.chain, denom |-> held'.denom]
    BY DEF Submit
  <2>. QED
    BY <1>1, <1>3, <1>5, <2>1, <2>2 DEF TaskFits
<1>8. PositionFits'
  <2>1. ASSUME steps' # << >>
        PROVE  step' \in 1..Len(steps') /\ hop' \in 0..Len(Current.legs)'
    <3>1. Len(GenerateSteps) \in Nat /\ Len(GenerateSteps) # 0
      BY <1>4, <1>5, <2>1, SeqFacts DEF StepsFit, IsSeq
    <3>2. 1 \in 1..Len(GenerateSteps)
      BY <3>1
    <3>3. Len(GenerateSteps[1].legs) \in Nat
      BY <1>2, <1>4, <3>2, StepsHaveLegs
    <3>4. Current' = GenerateSteps[1]
      BY <1>5 DEF Current
    <3>. QED
      BY <1>5, <3>2, <3>3, <3>4
  <2>. QED
    BY <1>5, <2>1 DEF PositionFits
<1>9. TokenFits'
  <2>1. step' + hop' = 1
    BY <1>5
  <2>2. /\ \A s : Leads(s) => s[1] = request.from
        /\ \A d : Delivers(d) => d[1] = request.tokenIn
    BY DEF Leads, JourneyStops, Delivers
  <2>. QED
    BY <1>3, <1>5, <2>1, <2>2 DEF TokenFits
<1>10. TrailFits'
  <2>1. trail' \in Seq(Chains) /\ Len(trail') = 1
    BY <1>5, <1>6
  <2>2. Len(response.inbound)' \in Nat
    BY <1>1, <1>6
  <2>. QED
    BY <1>5, <2>1, <2>2 DEF TrailFits
<1>11. RefundFits'
  <2>1. refusedAt' = 0 /\ Len(steps)' \in Nat
    BY <1>4, <1>5, SeqFacts DEF StepsFit, IsSeq, Submit
  <2>. QED
    BY <2>1 DEF RefundFits
<1>. QED
  BY <1>7, <1>8, <1>9, <1>10, <1>11 DEF TaskInv

\* When the tracker of the last step has seen the packet on every chain it watches,
\* the destination is one of those behind the first.
LEMMA LastIsWatched ==
  ASSUME NEW stops, Leads(stops), StepsFit(steps), step \in 1..Len(steps), step = Len(steps),
         trail \in Seq(Chains), Confirmed,
         OneInAll => ~SwapAt(1) \/ Len(Journey) > 1, ~OneInAll => ~SwapAt(step)
  PROVE  \E i \in 2..Len(trail) : trail[i] = request.to
<1> DEFINE n == Len(response.inbound)
           m == Len(response.outbound)
<1>1. /\ n \in Nat /\ m \in Nat /\ Len(Journey) \in Nat /\ Len(stops) = Len(Journey) + 1
      /\ response.kind = "brokerSwap" => Len(Journey) = n + 1 + m
      /\ stops[Len(Journey) + 1] = request.to /\ \A i \in 1..Len(Journey) + 1 : stops[i] \in Chains
  <2>1. response.kind = "brokerSwap" => Len(response.swap) = 1 /\ Len(Journey) = n + Len(response.swap) + m
    BY LeadsFacts
  <2>. QED
    BY <2>1, LeadsFacts
<1>2. /\ OneInAll => step = 1 /\ Current.watched = response.path /\ Current.type # "swap"
      /\ ~OneInAll => /\ Len(steps) = Len(Journey) /\ Current.type = TypeOf(step)
                      /\ Current.watched = <<Journey[step].from, Journey[step].to>>
      /\ step \in 1..Len(Journey)
  BY LegsOfSteps
<1>3. /\ Current.watched \in Seq(Chains) /\ Current.type # "swap"
      /\ Len(Current.watched) \in Nat /\ Len(Current.watched) >= 2
      /\ Current.watched[Len(Current.watched)] = request.to
  <2>1. CASE ~OneInAll
    <3>1. Current.type # "swap"
      BY <1>2, <2>1 DEF TypeOf
    <3>2. /\ Journey[step].from = stops[step] /\ Journey[step].to = stops[step + 1]
          /\ step = Len(Journey)
      BY <1>2, <2>1 DEF Leads, JourneyStops
    <3>3. Journey[step].from \in Chains /\ Journey[step].to \in Chains /\ Journey[step].to = request.to
      <4>1. step \in 1..Len(Journey) + 1 /\ step + 1 \in 1..Len(Journey) + 1
        BY <1>1, <1>2
      <4>. QED
        BY <1>1, <3>2, <4>1
    <3>4. Current.watched = <<Journey[step].from, Journey[step].to>>
      BY <1>2, <2>1
    <3>5. \A a, b : a \in Chains /\ b \in Chains => /\ <<a, b>> \in Seq(Chains) /\ Len(<<a, b>>) = 2
                                                  /\ <<a, b>>[2] = b
      OBVIOUS
    <3>. QED
      BY <3>1, <3>3, <3>4, <3>5
  <2>2. CASE OneInAll
    <3>1. response.path \in Seq(Chains) /\ Len(response.path) \in Nat
      BY PathFacts DEF Leads, PathFits
    <3>2. CASE response.kind = "indirect"
      <4>1. response.path = stops /\ Len(response.path) > 2
        BY <2>2, <3>2 DEF OneInAll, Leads, PathFits
      <4>. QED
        BY <1>1, <1>2, <2>2, <3>1, <4>1
    <3>3. CASE response.kind = "brokerSwap"
      <4>1. /\ Len(response.path) = IF m = 0 THEN n + 1 ELSE n + 2
            /\ response.path[n + 1] = Broker /\ stops[n + 1] = Broker
            /\ m # 0 => response.path[n + 2] = request.to
        BY <3>3 DEF Leads, PathFits
      <4>2. SwapAt(n + 1) /\ (SwapAt(1) <=> 1 = n + 1)
        BY <3>3 DEF SwapAt
      <4>3. m = 0 => request.to = Broker
        <5>1. n + 1 \in 1..Len(Journey)
          <6>. HIDE DEF n, m
          <6>. QED
            BY <1>1, <3>3
        <5>2. stops[n + 1] = stops[n + 1 + 1]
          BY <4>2, <5>1 DEF Leads, JourneyStops
        <5>. HIDE DEF n, m
        <5>3. m = 0 => n + 1 + 1 = Len(Journey) + 1
          BY <1>1, <3>3
        <5>. QED
          BY <1>1, <4>1, <5>2, <5>3
      <4>. HIDE DEF n, m
      <4>4. m = 0 => n > 0
        BY <1>1, <2>2, <3>3, <4>2
      <4>5. response.path[Len(response.path)] = request.to
        BY <4>1, <4>3
      <4>6. Len(response.path) >= 2
        BY <1>1, <4>1, <4>4
      <4>. QED
        BY <1>2, <2>2, <3>1, <4>5, <4>6
    <3>. QED
      BY <2>2, <3>2, <3>3 DEF OneInAll
  <2>. QED
    BY <2>1, <2>2
<1>4. /\ Len(Current.watched) <= Len(trail)
      /\ SubSeq(Current.watched, 1, Len(Current.watched)) = SubSeq(trail, 1, Len(Current.watched))
  BY <1>3 DEF Confirmed, IsPrefix
<1> DEFINE l == Len(Current.watched)
<1>5. /\ SubSeq(Current.watched, 1, l)[l] = Current.watched[l] /\ SubSeq(trail, 1, l)[l] = trail[l]
  <2>1. Len(trail) \in Nat
    BY LenProperties
  <2>2. \A i \in 1..l : Current.watched[i] \in Chains /\ trail[i] \in Chains
    BY <1>3, <1>4, <2>1, ElementOfSeq
  <2>3. /\ \A i \in 1..l - 1 + 1 : SubSeq(Current.watched, 1, l)[i] = Current.watched[1 + i - 1]
        /\ \A i \in 1..l - 1 + 1 : SubSeq(trail, 1, l)[i] = trail[1 + i - 1]
    BY <1>3, <2>2, SubSeqProperties
  <2>4. l \in 1..l - 1 + 1 /\ 1 + l - 1 = l
    BY <1>3
  <2>. QED
    BY <2>3, <2>4
<1>6. l \in 2..Len(trail)
  <2>1. Len(trail) \in Nat
    BY LenProperties
  <2>. QED
    BY <1>3, <1>4, <2>1
<1>. QED
  BY <1>3, <1>4, <1>5, <1>6

LEMMA ConfirmedFits ==
  ASSUME ServerInv, AnswerInv, TaskInv, Confirm, refusedAt = 0
  PROVE  TaskInv'
<1>1. /\ task = "confirming" /\ ~Forwards /\ Confirmed
      /\ UNCHANGED <<vars, mode, execution, connected, steps, held, refusedAt>>
  BY DEF Confirm
<1>2. /\ HasRoute /\ steps = GenerateSteps /\ connected = RequiredChains
      /\ StepsFit(steps) /\ steps # << >> /\ step \in 1..Len(steps)
      /\ Len(steps) \in Nat /\ Len(Current.legs) \in Nat
  BY <1>1, StandsAt
<1>3. PICK stops : Leads(stops)
  BY <1>1, StandsAt
<1>4. hop \in 1..Len(Current.legs)
  <2>1. hop \in 0..Len(Current.legs) /\ hop > 0
    BY <1>1, <1>2 DEF TaskInv, PositionFits
  <2>. QED
    BY <1>2, <2>1
<1>5. UNCHANGED <<network, pc, request, response, mode, execution>>
  BY <1>1 DEF vars
<1>6. /\ GenerateSteps' = GenerateSteps /\ RequiredChains' = RequiredChains
      /\ Journey' = Journey /\ HasRoute' = HasRoute /\ OneInAll' = OneInAll
      /\ \A s : Leads(s)' <=> Leads(s)
      /\ \A d : Delivers(d)' <=> Delivers(d)
  BY <1>5, AnswerIsKept
<1>7. TaskFits'
  <2>1. task' \in {"arrived", "signing"}
    BY DEF Confirm
  <2>. QED
    BY <1>1, <1>2, <1>6, <2>1 DEF TaskInv, TaskFits
<1>8. /\ OneInAll => /\ step = 1 /\ Len(steps) = 1 /\ Len(Current.legs) = Len(Journey) /\ Current.type # "swap"
                     /\ Current.watched = response.path
      /\ ~OneInAll => hop = 1 /\ Len(steps) = Len(Journey)
  <2>1. ~OneInAll => Len(Current.legs) = 1 /\ Len(steps) = Len(Journey)
    BY <1>2, <1>3, LegsOfSteps
  <2>2. ~OneInAll => hop = 1
    <3>1. ~OneInAll => hop \in 1..1
      BY <1>4, <2>1
    <3>. QED
      BY <3>1
  <2>3. OneInAll => /\ step = 1 /\ Len(steps) = 1 /\ Len(Current.legs) = Len(Journey) /\ Current.type # "swap"
                    /\ Current.watched = response.path
    BY <1>2, <1>3, LegsOfSteps
  <2>. QED
    BY <2>1, <2>2, <2>3
<1>9. RefundFits'
  BY <1>1, <1>2 DEF RefundFits
<1>10. CASE LastStep
  <2>1. task' = "arrived" /\ UNCHANGED <<step, hop, trail>>
    BY <1>10 DEF Confirm
  <2>2. step + hop = Len(Journey) + 1
    <3>1. CASE OneInAll
      <4>1. Current.legs = Journey
        BY <1>2, <1>8, <3>1 DEF StepsFit, Current
      <4>2. hop = Len(Journey)
        BY <1>1, <1>2, <1>3, <1>4, <1>8, <3>1, <4>1, TrackedToTheEnd DEF TaskInv
      <4>3. Len(Journey) \in Nat
        BY <1>3, LeadsFacts
      <4>. QED
        BY <1>8, <3>1, <4>2, <4>3
    <3>2. CASE ~OneInAll
      BY <1>8, <1>10, <3>2 DEF LastStep
    <3>. QED
      BY <3>1, <3>2
  <2>3. Current' = Current
    BY <1>1, <2>1 DEF Current
  <2>4. PositionFits'
    BY <1>1, <1>2, <1>4, <1>6, <2>1, <2>2, <2>3 DEF PositionFits
  <2>5. TokenFits'
    BY <1>1, <1>6, <2>1 DEF TaskInv, TokenFits
  <2>6. TrailFits'
    BY <2>1 DEF TrailFits
  <2>. QED
    BY <1>7, <1>9, <2>4, <2>5, <2>6 DEF TaskInv
<1>11. CASE ~LastStep
  <2>1. task' = "signing" /\ step' = step + 1 /\ hop' = 0 /\ trail' = <<held.chain>>
    BY <1>11 DEF Confirm, StartStep
  <2>2. ~OneInAll /\ hop = 1 /\ Len(steps) = Len(Journey) /\ step \in Nat
    <3>1. ~OneInAll
      BY <1>8, <1>11 DEF LastStep
    <3>2. step \in Nat
      BY <1>2
    <3>. QED
      BY <1>8, <3>1, <3>2
  <2>3. step' \in 1..Len(steps)
    BY <1>2, <1>11, <2>1 DEF LastStep
  <2>4. PositionFits'
    <3>1. Current' = steps[step']
      BY <1>1 DEF Current
    <3>2. Len(Current.legs)' \in Nat
      BY <1>2, <1>3, <2>3, <3>1, StepsHaveLegs
    <3>. QED
      BY <1>1, <1>2, <2>1, <2>3, <3>2 DEF PositionFits
  <2>5. step' + hop' = step + hop /\ held' = held
    BY <1>1, <2>1, <2>2
  <2>6. TokenFits'
    BY <1>1, <1>6, <2>5 DEF TaskInv, TokenFits
  <2>7. TrailFits'
    <3>1. held.chain \in Chains
      <4>1. held.chain = stops[step + hop]
        BY <1>1, <1>3 DEF TaskInv, TokenFits
      <4>2. \A i \in 1..Len(Journey) + 1 : stops[i] \in Chains
        BY <1>3, LeadsFacts
      <4>3. step + hop \in 1..Len(Journey) + 1
        BY <1>2, <2>2
      <4>. QED
        BY <4>1, <4>2, <4>3
    <3>2. trail' \in Seq(Chains)
      BY <2>1, <3>1
    <3>. QED
      BY <1>1, <1>6, <2>1, <2>2, <3>2 DEF TrailFits
  <2>. QED
    BY <1>7, <1>9, <2>4, <2>6, <2>7 DEF TaskInv
<1>. QED
  BY <1>10, <1>11

\* A chain that answered a packet with an error passes for reached: the last step
\* ends on the destination, and another one is followed by a step that does not
\* find the token.
LEMMA RefusedConfirmed ==
  ASSUME ServerInv, AnswerInv, TaskInv, Confirm, refusedAt # 0
  PROVE  TaskInv'
<1>1. /\ task = "confirming" /\ Confirmed
      /\ UNCHANGED <<vars, mode, execution, connected, steps, held, refusedAt>>
  BY DEF Confirm
<1>2. /\ HasRoute /\ steps = GenerateSteps /\ connected = RequiredChains
      /\ StepsFit(steps) /\ steps # << >> /\ step \in 1..Len(steps) /\ hop \in 0..Len(Current.legs)
      /\ Len(steps) \in Nat /\ Len(Current.legs) \in Nat
  BY <1>1, StandsAt
<1>3. PICK stops : Leads(stops)
  BY <1>1, StandsAt
<1>4. /\ refusedAt = step /\ trail \in Seq(Chains) /\ refusedAt \in 0..Len(steps)
      /\ OneInAll => ~SwapAt(1) \/ Len(Journey) > 1
      /\ ~OneInAll => ~SwapAt(step) /\ held.chain = Current.from
  BY <1>1 DEF TaskInv, RefundFits
<1>5. UNCHANGED <<network, pc, request, response, mode, execution>>
  BY <1>1 DEF vars
<1>6. /\ GenerateSteps' = GenerateSteps /\ RequiredChains' = RequiredChains
      /\ Journey' = Journey /\ HasRoute' = HasRoute /\ OneInAll' = OneInAll
  BY <1>5, AnswerIsKept
<1>7. TaskFits'
  <2>1. task' \in {"arrived", "signing"}
    BY DEF Confirm
  <2>. QED
    BY <1>1, <1>2, <1>6, <2>1 DEF TaskInv, TaskFits
<1>8. TokenFits' /\ TrailFits'
  BY <1>1 DEF TokenFits, TrailFits
<1>9. CASE LastStep
  <2>1. task' = "arrived" /\ UNCHANGED <<step, hop, trail>>
    BY <1>9 DEF Confirm
  <2>2. Current' = Current
    BY <1>1, <2>1 DEF Current
  <2>3. PositionFits'
    BY <1>1, <1>2, <2>1, <2>2 DEF PositionFits
  <2>4. \E i \in 2..Len(trail) : trail[i] = request.to
    BY <1>1, <1>2, <1>3, <1>4, <1>9, LastIsWatched DEF LastStep
  <2>5. RefundFits'
    BY <1>1, <1>4, <1>5, <1>9, <2>1, <2>4 DEF RefundFits, LastStep
  <2>. QED
    BY <1>7, <1>8, <2>3, <2>5 DEF TaskInv
<1>10. CASE ~LastStep
  <2>1. task' = "signing" /\ step' = step + 1 /\ hop' = 0
    BY <1>10 DEF Confirm, StartStep
  <2>2. /\ OneInAll => step = 1 /\ Len(steps) = 1
        /\ step \in 1..Len(Journey) /\ Current.from = stops[step]
    BY <1>2, <1>3, LegsOfSteps
  <2>3. ~OneInAll
    BY <1>10, <2>2 DEF LastStep
  <2>4. step' \in 1..Len(steps)
    BY <1>2, <1>10, <2>1 DEF LastStep
  <2>5. Current' = steps[step']
    BY <1>1 DEF Current
  <2>6. Len(Current.legs)' \in Nat
    BY <1>2, <1>3, <2>4, <2>5, StepsHaveLegs
  <2>7. PositionFits'
    BY <1>1, <1>2, <2>1, <2>4, <2>6 DEF PositionFits
  <2>8. Current'.from = stops[step + 1]
    <3>1. Len(steps) = Len(Journey) /\ step' \in 1..Len(Journey)
      BY <1>2, <2>3, <2>4 DEF StepsFit
    <3>2. steps[step'] = OneLeg(TypeOf(step'), Journey[step'].from, Journey[step'].to, Journey[step'])
      BY <1>2, <2>3, <3>1 DEF StepsFit
    <3>3. Current'.from = Journey[step'].from
      BY <2>5, <3>2 DEF OneLeg
    <3>4. Journey[step'].from = stops[step']
      BY <1>3, <3>1 DEF Leads, JourneyStops
    <3>. QED
      BY <2>1, <3>3, <3>4
  <2>9. stops[step] # stops[step + 1]
    BY <1>3, <1>4, <2>2, <2>3 DEF Leads, JourneyStops
  <2>10. held'.chain # Current'.from
    BY <1>1, <1>4, <2>2, <2>3, <2>8, <2>9
  <2>11. RefundFits'
    BY <1>1, <1>4, <2>1, <2>10 DEF RefundFits
  <2>. QED
    BY <1>7, <1>8, <2>7, <2>11 DEF TaskInv
<1>. QED
  BY <1>9, <1>10

LEMMA TasksStayWell == ServerInv /\ AnswerInv /\ TaskInv /\ [StepsNext]_allVars => TaskInv'
<1>. SUFFICES ASSUME ServerInv, AnswerInv, TaskInv, [StepsNext]_allVars PROVE TaskInv'
  OBVIOUS
<1>1. CASE AskInMode
  <2>1. /\ task' = "idle" /\ connected' = {} /\ steps' = << >> /\ step' = 0 /\ hop' = 0
        /\ held' = Nothing /\ refusedAt' = 0
    BY <1>1 DEF AskInMode
  <2>2. refusedAt' \in 0..Len(steps)'
    BY <2>1
  <2>. QED
    BY <2>1, <2>2 DEF TaskInv, TaskFits, PositionFits, TokenFits, TrailFits, RefundFits
<1>2. CASE Serve \/ Quote
  <2>1. pc # "answered"
    BY <1>2 DEF Serve, Quote, Load, AnswerDirect, NoDirectRoute, Explore, AnswerIndirect, NoIndirectRoute,
                ChooseBrokerRoute, NoRoute, SwapRefused, SwapQuoted
  <2>2. task = "idle"
    BY <2>1 DEF TaskInv, TaskFits, HasRoute
  <2>3. UNCHANGED taskVars
    BY <1>2 DEF Serve, Quote, clientVars, taskVars
  <2>. QED
    BY <2>2, <2>3 DEF taskVars, TaskInv, TaskFits, PositionFits, TokenFits, TrailFits, RefundFits
<1>3. CASE Submit
  BY <1>3, SubmittedFits
<1>4. CASE Sign \/ Forward
  <2>1. /\ task \in {"signing", "confirming"} /\ task' = "confirming" /\ step' = step
        /\ UNCHANGED <<vars, mode, execution, connected, steps>>
    BY <1>4 DEF Sign, Forward
  <2>2. hop \in 0..Len(Current.legs) /\ Len(Current.legs) \in Nat /\ Len(Current.legs) > 0
    BY <2>1, StandsAt
  <2>3. /\ hop < Len(Current.legs) /\ refusedAt = 0
        /\ \/ Moved(Current.legs[hop + 1])
           \/ /\ Refused(Current.legs[hop + 1])
              /\ task = "signing" => hop = 0 /\ ~Swaps(Current.legs[1])
    <3>1. CASE Sign
      <4>1. hop = 0
        BY <2>1, <3>1, StandsAt DEF Sign, TaskInv, PositionFits
      <4>2. hop + 1 = 1
        BY <4>1
      <4>3. held.chain = Current.from /\ task = "signing"
        BY <3>1 DEF Sign, CanPay
      <4>4. refusedAt = 0
        BY <4>3 DEF TaskInv, RefundFits
      <4>. QED
        BY <2>2, <3>1, <4>1, <4>2, <4>4 DEF Sign
    <3>2. CASE Forward
      <4>1. refusedAt # step /\ task = "confirming"
        BY <3>2 DEF Forward, Forwards
      <4>2. refusedAt = 0
        BY <4>1 DEF TaskInv, RefundFits
      <4>. QED
        BY <3>2, <4>1, <4>2 DEF Forward, Forwards
    <3>. QED
      BY <1>4, <3>1, <3>2
  <2>. QED
    BY <2>1, <2>3, LegIsDone, LegIsRefused
<1>5. CASE Confirm
  BY <1>5, ConfirmedFits, RefusedConfirmed
<1>6. CASE SignFails \/ GiveUp
  <2>1. /\ task \in {"signing", "confirming"} /\ task' = "stuck"
        /\ UNCHANGED <<vars, mode, execution, connected, steps, step, hop, held, refusedAt>>
    BY <1>6 DEF SignFails, GiveUp
  <2>2. UNCHANGED <<network, pc, request, response, mode, execution>>
    BY <2>1 DEF vars
  <2>3. /\ GenerateSteps' = GenerateSteps /\ RequiredChains' = RequiredChains
        /\ Journey' = Journey /\ HasRoute' = HasRoute
        /\ \A s : Leads(s)' <=> Leads(s)
        /\ \A d : Delivers(d)' <=> Delivers(d)
    BY <2>2, AnswerIsKept
  <2>4. Current' = Current
    BY <2>1 DEF Current
  <2>5. TaskFits'
    BY <2>1, <2>3 DEF TaskInv, TaskFits
  <2>6. PositionFits'
    BY <2>1, <2>4 DEF TaskInv, PositionFits
  <2>7. TokenFits'
    BY <2>1, <2>3 DEF TaskInv, TokenFits
  <2>8. TrailFits' /\ RefundFits'
    BY <2>1 DEF TaskInv, TrailFits, RefundFits
  <2>. QED
    BY <2>5, <2>6, <2>7, <2>8 DEF TaskInv
<1>7. CASE UNCHANGED allVars
  <2>1. UNCHANGED <<network, pc, request, response, mode, execution>> /\ UNCHANGED taskVars
    BY <1>7 DEF allVars, vars, clientVars, taskVars
  <2>2. /\ GenerateSteps' = GenerateSteps /\ RequiredChains' = RequiredChains
        /\ Journey' = Journey /\ HasRoute' = HasRoute /\ OneInAll' = OneInAll
        /\ \A i : SwapAt(i)' <=> SwapAt(i)
        /\ \A s : Leads(s)' <=> Leads(s)
        /\ \A d : Delivers(d)' <=> Delivers(d)
    BY <2>1, AnswerIsKept
  <2>3. UNCHANGED <<task, connected, steps, step, hop, held, trail, refusedAt, request, response>> /\ Current' = Current
    BY <2>1 DEF taskVars, Current
  <2>4. TaskFits'
    BY <2>2, <2>3 DEF TaskInv, TaskFits
  <2>5. PositionFits'
    BY <2>2, <2>3 DEF TaskInv, PositionFits
  <2>6. TokenFits'
    BY <2>2, <2>3 DEF TaskInv, TokenFits
  <2>7. TrailFits'
    BY <2>2, <2>3 DEF TaskInv, TrailFits
  <2>8. RefundFits'
    BY <2>2, <2>3 DEF TaskInv, RefundFits
  <2>. QED
    BY <2>4, <2>5, <2>6, <2>7, <2>8 DEF TaskInv
<1>. QED
  BY <1>1, <1>2, <1>3, <1>4, <1>5, <1>6, <1>7 DEF StepsNext, Execute

LEMMA TransferIsWell == StepsSpec => [](ServerInv /\ AnswerInv /\ TaskInv)
<1>1. StepsInit => TaskInv
  <2>. SUFFICES ASSUME StepsInit PROVE TaskInv
    OBVIOUS
  <2>1. task = "idle" /\ connected = {} /\ steps = << >> /\ step = 0 /\ hop = 0 /\ held = Nothing /\ refusedAt = 0
    BY DEF StepsInit, NoTask
  <2>2. refusedAt \in 0..Len(steps)
    BY <2>1
  <2>. QED
    BY <2>1, <2>2 DEF TaskInv, TaskFits, PositionFits, TokenFits, TrailFits, RefundFits
<1>2. ServerInv /\ AnswerInv /\ TaskInv /\ [StepsNext]_allVars => TaskInv'
  BY TasksStayWell
<1>. QED
  BY <1>1, <1>2, ServerIsWell, AnswersAreWell, PTL DEF StepsSpec

(***************************************************************************)
(* What holds of every transfer.                                           *)
(***************************************************************************)

\* Every variable of the client and of its server has its type, whatever is
\* configured and forwarded; a step leads from a chain to a chain.
THEOREM StepsAreTyped == StepsSpec => []StepsTypeOK
<1>1. ServerInv /\ AnswerInv /\ TaskInv /\ TypeOK => StepsTypeOK
  <2>. SUFFICES ASSUME ServerInv, AnswerInv, TaskInv, TypeOK PROVE StepsTypeOK
    OBVIOUS
  <2>1. /\ mode \in {"manual", "smart"} /\ execution \in {"none", "memo", "contract"}
        /\ task \in {"idle", "signing", "confirming", "arrived", "stuck"} /\ refusedAt \in 0..Len(steps)
    BY DEF AnswerInv, ExecutionFits, TaskInv, TaskFits, RefundFits
  <2>2. CASE task = "idle"
    <3>1. connected = {} /\ steps = << >> /\ step = 0 /\ hop = 0 /\ held = Nothing
      BY <2>2 DEF TaskInv, TaskFits
    <3>2. Len(Journey) \in Nat
      <4>1. CASE HasRoute
        <5>1. PICK stops : Leads(stops)
          BY <4>1, RoutesLead
        <5>. QED
          BY <5>1, LeadsFacts
      <4>2. CASE ~HasRoute
        <5>1. response \in {NoResponse, Impossible}
          BY <4>2, KindsOfAnswers DEF HasRoute, AnswerInv, ServerInv, ResponseInv, IsImpossible
        <5>2. response.inbound = << >> /\ response.swap = << >> /\ response.outbound = << >>
          BY <5>1 DEF Impossible, NoResponse
        <5>3. LegsAreSeqs(response)
          BY <5>2, EmptyFacts DEF LegsAreSeqs
        <5>. QED
          BY <5>3, JourneyFacts, SeqFacts DEF IsSeq
      <4>. QED
        BY <4>1, <4>2
    <3>3. DOMAIN steps = {}
      BY <3>1
    <3>4. held.chain \in Chains \cup {None}
      BY <3>1 DEF Nothing
    <3>. QED
      BY <2>1, <3>1, <3>2, <3>3, <3>4 DEF StepsTypeOK
  <2>3. CASE task # "idle"
    <3>1. HasRoute /\ connected = RequiredChains /\ steps = GenerateSteps
      BY <2>3 DEF TaskInv, TaskFits
    <3>2. PICK stops : Leads(stops)
      BY <3>1, RoutesLead
    <3>3. StepsFit(steps)
      BY <3>1, <3>2, GeneratedSteps DEF AnswerInv
    <3>4. /\ Len(Journey) \in Nat /\ \A i \in 1..Len(Journey) + 1 : stops[i] \in Chains
          /\ stops[1] = request.from /\ stops[Len(Journey) + 1] = request.to
      BY <3>2, LeadsFacts
    <3>5. \A i \in 1..Len(Journey) : i \in 1..Len(Journey) + 1 /\ i + 1 \in 1..Len(Journey) + 1
      BY <3>4
    <3>6. \A i \in 1..Len(Journey) : Journey[i].from \in Chains /\ Journey[i].to \in Chains
      BY <3>2, <3>4, <3>5 DEF Leads, JourneyStops
    <3>7. request.from \in Chains /\ request.to \in Chains
      BY <3>1, ConfiguredAreChains DEF ServerInv, RequestInv, HasRoute, Serving
    <3>8. connected \subseteq Chains
      <4>1. \A i \in DOMAIN response.inbound : response.inbound[i].to \in Chains
        <5>1. \A i \in DOMAIN response.inbound : i \in 1..Len(response.inbound)
          BY <3>2, SeqFacts DEF Leads, PathFits, LegsAreSeqs, IsSeq
        <5>2. \A i \in 1..Len(response.inbound) : Journey[i] = response.inbound[i] /\ i \in 1..Len(Journey)
          BY <3>2, LeadsFacts, PlacesOfLegs
        <5>. QED
          BY <3>6, <5>1, <5>2
      <4>2. \A i \in DOMAIN response.outbound : response.outbound[i].to \in Chains
        <5> DEFINE n == Len(response.inbound) + Len(response.swap)
                   m == Len(response.outbound)
        <5>1. \A i \in DOMAIN response.outbound : i \in 1..m
          BY <3>2, SeqFacts DEF Leads, PathFits, LegsAreSeqs, IsSeq
        <5>2. \A i \in 1..m : Journey[n + i] = response.outbound[i]
          BY <3>2, LeadsFacts
        <5>3. \A i \in 1..m : n + i \in 1..Len(Journey)
          BY <3>2, PlacesOfLegs
        <5>. QED
          BY <3>6, <5>1, <5>2, <5>3
      <4>. QED
        BY <3>1, <3>7, <4>1, <4>2 DEF RequiredChains, IntermediateChainIds, ChainsAfter
    <3>9. \A i \in DOMAIN steps : steps[i].type \in StepTypes /\ {steps[i].from, steps[i].to} \subseteq Chains
      <4>. SUFFICES ASSUME NEW i \in DOMAIN steps
                    PROVE  steps[i].type \in StepTypes /\ steps[i].from \in Chains /\ steps[i].to \in Chains
        OBVIOUS
      <4>1. i \in 1..Len(steps)
        BY <3>3, SeqFacts DEF StepsFit, IsSeq
      <4>2. CASE OneInAll
        <5>1. Len(steps) = 1
          BY <3>3, <4>2 DEF StepsFit
        <5>2. i \in 1..1
          BY <4>1, <5>1
        <5>3. i = 1
          BY <5>2
        <5>. QED
          BY <3>3, <3>7, <4>2, <5>3 DEF StepsFit, StepTypes
      <4>3. CASE ~OneInAll
        <5>1. i \in 1..Len(Journey) /\ steps[i] = OneLeg(TypeOf(i), Journey[i].from, Journey[i].to, Journey[i])
          BY <3>3, <4>1, <4>3 DEF StepsFit
        <5>2. steps[i].type = TypeOf(i) /\ steps[i].from = Journey[i].from /\ steps[i].to = Journey[i].to
          BY <5>1 DEF OneLeg
        <5>. QED
          BY <3>6, <5>1, <5>2 DEF TypeOf, StepTypes
      <4>. QED
        BY <4>2, <4>3
    <3>10. step \in {0, 1} \cup 1..Len(steps) /\ hop \in 0..Len(Journey)
      <4>1. CASE steps = << >>
        BY <2>3, <3>4, <4>1 DEF TaskInv, PositionFits
      <4>2. CASE steps # << >>
        <5>1. step \in 1..Len(steps) /\ hop \in 0..Len(Current.legs)
          BY <2>3, <4>2 DEF TaskInv, PositionFits
        <5>2. Len(Current.legs) \in Nat /\ Len(Current.legs) <= Len(Journey)
          <6>1. Len(Current.legs) \in Nat /\ step \in 1..Len(Journey)
            BY <3>2, <3>3, <5>1, LegsOfSteps
          <6>2. Len(Current.legs) = Len(Journey) \/ Len(Current.legs) = 1
            BY <3>2, <3>3, <5>1, LegsOfSteps
          <6>3. \A x, y \in Nat : step \in 1..y /\ (x = y \/ x = 1) => x <= y
            OBVIOUS
          <6>. QED
            BY <3>4, <6>1, <6>2, <6>3
        <5>. QED
          BY <3>4, <5>1, <5>2
      <4>. QED
        BY <4>1, <4>2
    <3>11. held.chain \in Chains
      BY <2>3, <3>8 DEF TaskInv, TaskFits
    <3>. QED
      BY <2>1, <3>8, <3>9, <3>10, <3>11 DEF StepsTypeOK
  <2>. QED
    BY <2>2, <2>3
<1>. QED
  BY <1>1, TransferIsWell, StepsImplementFinding, SearchIsTyped, PTL

\* However the chains are linked, whatever is configured, whichever routes the
\* search takes and wherever a transfer breaks off, the token is on a chain the
\* form wanted the wallet connected to.
THEOREM TokensAreReachable == StepsSpec => []TokensStayReachable
<1>1. TaskInv => TokensStayReachable
  BY DEF TaskInv, TaskFits, TokensStayReachable
<1>. QED
  BY <1>1, TransferIsWell, PTL

\* The form announces the transactions the wallet is then asked to sign, for
\* every answer in either mode.
THEOREM AnnouncementsAreKept == StepsSpec => []AnnouncedAreSigned
<1>1. ServerInv /\ AnswerInv /\ TaskInv => AnnouncedAreSigned
  BY RoutesLead, GeneratedSteps DEF AnswerInv, TaskInv, TaskFits, AnnouncedAreSigned
<1>. QED
  BY <1>1, TransferIsWell, PTL

\* However the chains are linked and whatever they forward, and whichever packets
\* time out or are refused: a transfer that is completed has brought the token that
\* was asked for, in the denomination that was asked for, to the chain that was
\* asked for, unless that chain itself answered the last packet with an error.
THEOREM CompletedAreDelivered ==
  ASSUME \A n \in Networks : NativesOnly(n)
  PROVE  StepsSpec => []CompletedIsDelivered
<1>1. ServerInv /\ AnswerInv /\ TaskInv => CompletedIsDelivered
  <2>. SUFFICES ASSUME ServerInv, AnswerInv, TaskInv, task = "arrived", refusedAt = 0
                PROVE  held = [chain |-> request.to, denom |-> request.tokenOut]
    BY DEF CompletedIsDelivered, TaskInv, RefundFits
  <2>1. HasRoute
    BY DEF TaskInv, TaskFits
  <2>2. PICK stops : Leads(stops)
    BY <2>1, RoutesLead
  <2>3. PICK denoms : Delivers(denoms)
    BY <2>1, AnswersDeliver DEF ServerInv, HasRoute, IndexInv
  <2>4. step + hop = Len(Journey) + 1
    BY DEF TaskInv, PositionFits
  <2>5. held.chain = stops[Len(Journey) + 1] /\ held.denom = denoms[Len(Journey) + 1]
    BY <2>2, <2>3, <2>4 DEF TaskInv, TokenFits
  <2>6. stops[Len(Journey) + 1] = request.to /\ denoms[Len(Journey) + 1] = request.tokenOut
    BY <2>2, <2>3, LeadsFacts DEF Delivers
  <2>7. held = [chain |-> held.chain, denom |-> held.denom]
    BY DEF TaskInv, TaskFits
  <2>. QED
    BY <2>5, <2>6, <2>7
<1>. QED
  BY <1>1, TransferIsWell, PTL

(***************************************************************************)
(* Where a transfer breaks off.                                            *)
(***************************************************************************)
BreakInv ==
  task = "stuck" /\ steps # << >> /\ refusedAt = 0 /\ ~OneInAll =>
    response.kind = "brokerSwap" /\ step > Len(response.inbound) + 2

\* Until the second leg behind the swap every step finds the token it sends,
\* where it sends it from, with a wallet connected there.
LEMMA StepsCanPay ==
  ASSUME ServerInv, AnswerInv, TaskInv, NativesOnly(network), task = "signing", refusedAt = 0, ~OneInAll,
         ~(response.kind = "brokerSwap" /\ step > Len(response.inbound) + 2)
  PROVE  CanPay /\ ~LacksAction
<1>1. /\ HasRoute /\ connected = RequiredChains /\ StepsFit(steps) /\ step \in 1..Len(steps) /\ steps # << >>
  BY StandsAt
<1>2. PICK stops : Leads(stops)
  BY StandsAt
<1>3. PICK denoms : Delivers(denoms)
  BY <1>1, AnswersDeliver DEF ServerInv, HasRoute
<1>4. /\ step \in 1..Len(Journey) /\ Current.from = stops[step] /\ Current.type = TypeOf(step)
      /\ Len(Current.legs) = 1 /\ step - 1 + 1 = step
  <2>1. step - 1 + 1 = step
    BY <1>1
  <2>. QED
    BY <1>1, <1>2, <2>1, LegsOfSteps
<1>5. Current.legs[1] = Journey[step]
  <2>1. /\ 1 \in 1..Len(Current.legs)
        /\ \A k \in 1..Len(Current.legs) : Current.legs[k] = Journey[step - 1 + k]
    BY <1>1, <1>2, <1>4, LegsOfSteps
  <2>2. Current.legs[1] = Journey[step - 1 + 1]
    BY <2>1
  <2>. QED
    BY <1>4, <2>2
<1>6. held.chain = stops[step] /\ held.denom = denoms[step]
  <2>1. hop = 0 /\ step + hop = step
    BY <1>1 DEF TaskInv, PositionFits
  <2>. QED
    BY <1>2, <1>3, <2>1 DEF TaskInv, TokenFits
<1>7. held.chain \in connected /\ held = [chain |-> held.chain, denom |-> held.denom]
  BY DEF TaskInv, TaskFits
<1>8. Journey[step].denom = denoms[step]
  BY <1>3, <1>4 DEF Delivers
<1>9. Current.type # "wasm-execution"
  BY <1>4 DEF TypeOf
<1>. QED
  BY <1>4, <1>5, <1>6, <1>7, <1>8, <1>9 DEF CanPay, LacksAction

\* The packet of one leg is found where it was sent to.
LEMMA LegsAreFound ==
  ASSUME ServerInv, AnswerInv, TaskInv, task = "confirming", refusedAt = 0, ~OneInAll
  PROVE  Confirmed
<1>1. /\ StepsFit(steps) /\ step \in 1..Len(steps) /\ steps # << >> /\ hop \in 0..Len(Current.legs)
  BY StandsAt
<1>2. PICK stops : Leads(stops)
  BY StandsAt
<1>3. /\ Current.type = TypeOf(step) /\ Len(Current.legs) = 1
      /\ Current.watched = <<Journey[step].from, Journey[step].to>>
  BY <1>1, <1>2, LegsOfSteps
<1>4. hop = 1
  <2>1. hop \in 0..1 /\ hop > 0
    BY <1>1, <1>3 DEF TaskInv, PositionFits
  <2>. QED
    BY <2>1
<1>5. CASE SwapAt(step)
  BY <1>3, <1>5 DEF TypeOf, Confirmed
<1>6. CASE ~SwapAt(step)
  <2>1. trail = Current.watched
    BY <1>3, <1>4, <1>6 DEF TaskInv, TrailFits
  <2>2. Len(Current.watched) = 2
    BY <1>3
  <2>. QED
    BY <2>1, <2>2 DEF Confirmed, IsPrefix
<1>. QED
  BY <1>5, <1>6

LEMMA BreaksStayBehind ==
  ASSUME ServerInv, AnswerInv, TaskInv, NativesOnly(network), BreakInv, [StepsNext]_allVars
  PROVE  BreakInv'
<1>1. CASE AskInMode
  BY <1>1 DEF AskInMode, BreakInv
<1>2. CASE Serve \/ Quote
  <2>1. pc # "answered"
    BY <1>2 DEF Serve, Quote, Load, AnswerDirect, NoDirectRoute, Explore, AnswerIndirect, NoIndirectRoute,
                ChooseBrokerRoute, NoRoute, SwapRefused, SwapQuoted
  <2>2. task = "idle" /\ task' = task
    BY <1>2, <2>1 DEF TaskInv, TaskFits, HasRoute, Serve, Quote, clientVars, taskVars
  <2>. QED
    BY <2>2 DEF BreakInv
<1>3. CASE Submit
  BY <1>3 DEF Submit, BreakInv
<1>4. CASE Sign \/ Forward
  BY <1>4 DEF Sign, Forward, BreakInv
<1>5. CASE Confirm
  <2>1. task' # "stuck"
    BY <1>5 DEF Confirm
  <2>. QED
    BY <2>1 DEF BreakInv
<1>6. CASE SignFails
  <2>1. task = "signing" /\ ~(CanPay /\ ~LacksAction) /\ UNCHANGED <<vars, mode, execution, step, refusedAt>>
    BY <1>6 DEF SignFails
  <2>2. OneInAll \/ refusedAt # 0 \/ (response.kind = "brokerSwap" /\ step > Len(response.inbound) + 2)
    BY <2>1, StepsCanPay
  <2>. QED
    BY <2>1, <2>2 DEF BreakInv, OneInAll, vars
<1>7. CASE GiveUp
  <2>1. task = "confirming" /\ ~Confirmed /\ UNCHANGED <<vars, mode, execution, refusedAt>>
    BY <1>7 DEF GiveUp, NotFound
  <2>2. OneInAll \/ refusedAt # 0
    BY <2>1, LegsAreFound
  <2>. QED
    BY <2>1, <2>2 DEF BreakInv, OneInAll, vars
<1>8. CASE UNCHANGED allVars
  BY <1>8 DEF allVars, vars, clientVars, BreakInv, OneInAll
<1>. QED
  BY <1>1, <1>2, <1>3, <1>4, <1>5, <1>6, <1>7, <1>8 DEF StepsNext, Execute

\* When the user signs every leg, every packet is executed, and no chain forwards
\* tokens of others, the first chain behind the swap is the earliest place where a
\* transfer can stay: what comes before always finds its token.
THEOREM BreaksComeAfterSwaps ==
  ASSUME \A n \in Networks : NativesOnly(n)
  PROVE  StepsSpec => []BreaksAfterSwapOnly
<1>1. StepsInit => BreakInv
  BY DEF StepsInit, NoTask, BreakInv
<1>2. ServerInv => NativesOnly(network)
  BY DEF ServerInv, IndexInv
<1>3. ServerInv /\ AnswerInv /\ TaskInv /\ BreakInv /\ [StepsNext]_allVars => BreakInv'
  BY <1>2, BreaksStayBehind
<1>4. ServerInv /\ AnswerInv /\ TaskInv /\ BreakInv => BreaksAfterSwapOnly
  <2>. SUFFICES ASSUME ServerInv, AnswerInv, TaskInv, BreakInv, task = "stuck", steps # << >>, refusedAt = 0,
                       \A i \in DOMAIN steps : steps[i].type \in {"ibc_transfer", "swap"}
                PROVE  ~OneInAll
    BY DEF BreaksAfterSwapOnly, BreakInv
  <2>1. HasRoute /\ steps = GenerateSteps
    BY DEF TaskInv, TaskFits
  <2>2. StepsFit(steps)
    BY <2>1, RoutesLead, GeneratedSteps DEF AnswerInv
  <2>3. CASE OneInAll
    <3>1. Len(steps) = 1 /\ steps[1].type \notin {"ibc_transfer", "swap"}
      BY <2>2, <2>3 DEF StepsFit
    <3>2. DOMAIN steps = 1..1
      BY <2>2, <3>1, SeqFacts DEF StepsFit, IsSeq
    <3>3. 1 \in DOMAIN steps
      BY <3>2
    <3>. QED
      BY <3>1, <3>3
  <2>. QED
    BY <2>3
<1>. QED
  BY <1>1, <1>3, <1>4, TransferIsWell, PTL DEF StepsSpec
=============================================================================
