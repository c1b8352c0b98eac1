---------------------------- MODULE RouteBuilder ----------------------------
(***************************************************************************)
(* What the config manager writes into the pathfinder's configuration      *)
(* (config_manager/enriched/route_builder.go): for every chain its routes, *)
(* and for every route the tokens that may travel on it, each with the     *)
(* denomination it has on either side.                                     *)
(*                                                                         *)
(* A denomination is what a hash of its ICS-20 trace identifies: the base  *)
(* name and the trace.  "layers" has one element for each time a hash was  *)
(* taken; the hash of a trace that itself holds a hash has two layers, and *)
(* is another denomination than the hash of the whole trace.               *)
(***************************************************************************)
EXTENDS Integers, Sequences, FiniteSets

CONSTANTS Chains,   \* the configured chains, numbered in the order of their ids
          Bases,    \* base names of tokens
          Networks  \* the networks and configurations considered

None == 0   \* no origin chain; also the entry "none" of allowed_destinations

\* A channel end: the end, on the first chain, of the preferred active channel
\* to the second.
Ends == {e \in Chains \X Chains : e[1] # e[2]}

Native(b) == [base |-> b, layers |-> << >>]

(***************************************************************************)
(* ICS-20: what a denomination becomes when it is sent over a channel.  It *)
(* unwinds when it came through that end; otherwise the end where it       *)
(* arrives is put in front of the trace.                                   *)
(***************************************************************************)
Trace(d) == IF d.layers = << >> THEN << >> ELSE Head(d.layers)

Unwinds(from, to, d) == Trace(d) # << >> /\ Head(Trace(d)) = <<from, to>>

Arrives(from, to, d) ==
  LET trace == IF Unwinds(from, to, d) THEN Tail(Trace(d))
                                       ELSE <<<<to, from>>>> \o Trace(d)
  IN [base |-> d.base, layers |-> IF trace = << >> THEN << >> ELSE <<trace>>]

(***************************************************************************)
(* Configurations.  A token of a chain's file is native (no origin chain)  *)
(* or an IBC token that the chain forwards.                                *)
(***************************************************************************)
IsNative(token) == token.originChain = None

NativeTokens(n, c)   == {t \in n.tokens[c] : IsNative(t)}
RoutableTokens(n, c) == {t \in n.tokens[c] : ~IsNative(t)}

Channel(n, from, to) == {from, to} \in n.links

IsTokenAllowedToChain(token, to) ==
  /\ token.allowed # {None}
  /\ token.allowed = {} \/ to \in token.allowed

\* The hash is taken over the end and the denomination as the chain writes it.
ComputeIBCDenom(end, d) == [base |-> d.base, layers |-> <<<<end>>>> \o d.layers]

ComputeForwardedTokenDenom(token, from, to) ==
  IF to = token.originChain THEN token.originDenom
                            ELSE ComputeIBCDenom(<<to, from>>, token.denom)

(***************************************************************************)
(* buildAllowedTokensForRoute, in its three parts; a later part leaves out *)
(* what an earlier one has seen.                                           *)
(***************************************************************************)
RouteToken(denom, ibc, base, origin) ==
  [chainDenom |-> denom, ibcDenom |-> ibc, baseDenom |-> base, originChain |-> origin]

Outgoing(n, from, to) ==
  {RouteToken(t.denom, ComputeIBCDenom(<<to, from>>, t.denom), t.denom, from) :
     t \in {x \in NativeTokens(n, from) : IsTokenAllowedToChain(x, to)}}

Unwinding_AllowedHome(n, from, to) ==
  {RouteToken(ComputeIBCDenom(<<from, to>>, t.denom), t.denom, t.denom, to) :
     t \in {x \in NativeTokens(n, to) : IsTokenAllowedToChain(x, to)}}

Unwinding(n, from, to) ==
  {RouteToken(ComputeIBCDenom(<<from, to>>, t.denom), t.denom, t.denom, to) :
     t \in {x \in NativeTokens(n, to) : IsTokenAllowedToChain(x, from)}}

Forwarded(n, from, to) ==
  {RouteToken(t.denom, ComputeForwardedTokenDenom(t, from, to), t.originDenom, t.originChain) :
     t \in {x \in RoutableTokens(n, from) : IsTokenAllowedToChain(x, to)}}

Unseen(tokens, seen) == {t \in tokens : t.chainDenom \notin {s.chainDenom : s \in seen}}

BuildAllowedTokensForRoute(n, from, to) ==
  LET sent    == Outgoing(n, from, to)
      unwound == sent \cup Unseen(Unwinding(n, from, to), sent)
  IN unwound \cup Unseen(Forwarded(n, from, to), unwound)

BuildRoutesForChain_Unbuilt(n, c) == {to \in Chains : to # c /\ Channel(n, c, to)}

\* The routes of a chain whose configuration could be built; their ends may lie
\* on chains whose configuration could not.
BuildRoutesForChain(n, c) ==
  {to \in Chains : c \in n.built /\ to # c /\ Channel(n, c, to)}

(***************************************************************************)
(* The configurations the program may be given.                            *)
(***************************************************************************)
Denom == [base : Bases, layers : Seq(Seq(Ends))]

TokenMeta == [denom : Denom, originChain : Chains \cup {None}, originDenom : Denom,
              allowed : SUBSET (Chains \cup {None})]

\* Native tokens are written with their base name.
WellFormed(n) ==
  /\ n.tokens \in [Chains -> SUBSET TokenMeta]
  /\ n.built \subseteq Chains
  /\ n.pfm \subseteq Chains
  /\ \A c \in Chains : \A t \in NativeTokens(n, c) : t.denom = Native(t.denom.base)

\* No chain forwards IBC tokens: the configurations kept in chain_configs.
NativesOnly(n) == \A c \in Chains : RoutableTokens(n, c) = {}

ASSUME ChainsAssumption   == Chains \subseteq Nat \ {0} /\ IsFiniteSet(Chains)
ASSUME NetworksAssumption == \A n \in Networks : WellFormed(n)
=============================================================================
