---------------------------- MODULE RouteFinding ----------------------------
(***************************************************************************)
(* The pathfinder's router (pathfinder/router): the index it builds from   *)
(* the configuration, and how FindPath answers a request: a direct route,  *)
(* else a breadth-first search for an indirect one, else a route through   *)
(* the broker with a swap.  RouteSteps follows the answers on the chains.  *)
(*                                                                         *)
(* Go iterates over a map in an order of its own each time: wherever the   *)
(* code takes the first match of such an iteration, any match may be taken.*)
(***************************************************************************)
EXTENDS RouteBuilder, SequencesExt

CONSTANT Broker   \* the chain of the one broker there is a client for

ASSUME BrokerAssumption == Broker \in Chains

VARIABLES network,   \* the configuration the server was started with
          index,     \* RouteIndex
          pc,        \* what the server does
          request,   \* RouteRequest, with its denominations resolved
          queue,     \* the search's queue: the paths its nodes stand for
          visited,   \* the chains the search has met
          hopInfo,   \* MultiHopInfo of the broker route that is tried
          response   \* RouteResponse

vars == <<network, index, pc, request, queue, visited, hopInfo, response>>

searchVars == <<queue, visited>>

NoDenom    == [base |-> "", layers |-> << >>]
NoRequest  == [from |-> None, to |-> None, tokenIn |-> NoDenom, tokenOut |-> NoDenom, inferred |-> FALSE]
NoHopInfo  == [inbound |-> << >>, tokenIn |-> NoDenom, inboundTokens |-> << >>, tokenOnBroker |-> NoDenom,
               outbound |-> << >>, intermediate |-> << >>]
NoResponse == [kind |-> "none", path |-> << >>, inbound |-> << >>, swap |-> << >>, outbound |-> << >>,
               pfm |-> FALSE]

(***************************************************************************)
(* BuildIndex.  A denomination of a chain is described by the last of the  *)
(* chain's routes that allows it, and by the list of native tokens when no *)
(* route does.                                                             *)
(***************************************************************************)
Denoms(tokens) == {t.chainDenom : t \in tokens}

Later(routes, to) == {r \in DOMAIN routes : r > to}

DenomToTokenInfo(routes, natives) ==
  LET described == UNION {{t \in routes[to] : \A r \in Later(routes, to) : t.chainDenom \notin Denoms(routes[r])} :
                            to \in DOMAIN routes}
  IN described \cup Unseen(natives, described)

BuildIndex(n) ==
  LET routes  == [c \in Chains |->
                    [to \in BuildRoutesForChain(n, c) |-> BuildAllowedTokensForRoute(n, c, to)]]
      natives == [c \in Chains |->
                    {RouteToken(t.denom, NoDenom, t.denom, c) : t \in {x \in NativeTokens(n, c) : c \in n.built}}]
  IN [routes |-> routes,
      tokens |-> [c \in Chains |-> DenomToTokenInfo(routes[c], natives[c])],
      pfm    |-> n.pfm \cap n.built]

NoIndex == [routes |-> [c \in Chains |-> << >>], tokens |-> [c \in Chains |-> {}], pfm |-> {}]

\* The description of a denomination: a set with at most one element.
Info(c, d) == {t \in index.tokens[c] : t.chainDenom = d}

\* The tokens allowed on a route; none when there is no such route.
AllowedTokens(from, to) == IF to \in DOMAIN index.routes[from] THEN index.routes[from][to] ELSE {}

SameToken_ByDenom(t, u) == t.originChain = u.originChain /\ t.chainDenom = u.chainDenom
SameToken(t, u) == t.originChain = u.originChain /\ t.baseDenom = u.baseDenom

FindTokenByOrigin(c, token) == {t \in index.tokens[c] : SameToken(t, token)}

Init ==
  /\ network \in Networks
  /\ index = NoIndex
  /\ pc = "off"
  /\ request = NoRequest
  /\ queue = << >> /\ visited = {}
  /\ hopInfo = NoHopInfo
  /\ response = NoResponse

\* main loads the configuration and builds the index before it serves.
Load ==
  /\ pc = "off"
  /\ index' = BuildIndex(network)
  /\ pc' = "ready"
  /\ UNCHANGED <<network, request, searchVars, hopInfo, response>>

(***************************************************************************)
(* Requests.                                                               *)
(***************************************************************************)

\* InferTokenToDenom: the one token with this base name, else one of this
\* origin; the request is refused when there is none.
InferTokenToDenom(source, to) ==
  LET named == {t \in index.tokens[to] : t.baseDenom = source.baseDenom}
  IN IF Cardinality(named) = 1 THEN named ELSE FindTokenByOrigin(to, source)

\* The server keeps nothing of an earlier request.
Ask ==
  /\ pc \in {"ready", "answered"}
  /\ \E from \in network.built, to \in network.built :
       \E source \in index.tokens[from], inferred \in BOOLEAN :
         \E out \in IF inferred THEN InferTokenToDenom(source, to) ELSE index.tokens[to] :
           request' = [from |-> from, to |-> to, tokenIn |-> source.chainDenom,
                       tokenOut |-> out.chainDenom, inferred |-> inferred]
  /\ pc' = "direct"
  /\ queue' = << >> /\ visited' = {}
  /\ hopInfo' = NoHopInfo
  /\ response' = NoResponse
  /\ UNCHANGED <<network, index>>

Leg(from, to, denom) == [from |-> from, to |-> to, denom |-> denom, gives |-> NoDenom]

(***************************************************************************)
(* Direct routes.                                                          *)
(***************************************************************************)
FindDirectRoute ==
  /\ request.tokenIn \in Denoms(AllowedTokens(request.from, request.to))
  /\ \E t \in Info(request.from, request.tokenIn) : t.ibcDenom = request.tokenOut

AnswerDirect ==
  /\ pc = "direct"
  /\ FindDirectRoute
  /\ response' = [NoResponse EXCEPT !.kind = "direct", !.path = <<request.from, request.to>>,
                    !.inbound = <<Leg(request.from, request.to, request.tokenIn)>>]
  /\ pc' = "answered"
  /\ UNCHANGED <<network, index, request, searchVars, hopInfo>>

(***************************************************************************)
(* Indirect routes: a breadth-first search that only follows routes on     *)
(* which the token of the request's origin is allowed.                     *)
(***************************************************************************)
IsSameToken ==
  \E t \in Info(request.from, request.tokenIn), u \in Info(request.to, request.tokenOut) : SameToken(t, u)

NoDirectRoute ==
  /\ pc = "direct"
  /\ ~FindDirectRoute
  /\ pc' = IF IsSameToken THEN "search" ELSE "broker"
  /\ queue' = <<<<request.from>>>>
  /\ visited' = {request.from}
  /\ UNCHANGED <<network, index, request, hopInfo, response>>

CurrentTokens_SameDenom(c) == Info(c, request.tokenIn)

\* The token as the search, and then the answer, looks it up on a chain.
CurrentTokens(c) ==
  IF c = request.from
  THEN Info(c, request.tokenIn)
  ELSE UNION {FindTokenByOrigin(c, t) : t \in Info(request.from, request.tokenIn)}

MayTravel(t, c, to) == t.chainDenom \in Denoms(AllowedTokens(c, to))

Found == queue # << >> /\ Last(Head(queue)) = request.to

Neighbours_Visited(c) == DOMAIN index.routes[c]
Neighbours(c) == DOMAIN index.routes[c] \ visited

\* The neighbours of the first node that are taken: the lookup runs afresh for
\* each, and may find another representation of the token each time.
Reachable(c, reached) ==
  \A to \in Neighbours(c) :
    IF to \in reached THEN \E t \in CurrentTokens(c) : MayTravel(t, c, to)
                      ELSE CurrentTokens(c) = {} \/ \E t \in CurrentTokens(c) : ~MayTravel(t, c, to)

Enqueue_NotRemoved(rest, nodes) == <<Head(queue)>> \o rest \o nodes
Enqueue(rest, nodes) == rest \o nodes

Explore ==
  /\ pc = "search"
  /\ queue # << >> /\ ~Found
  /\ LET node == Head(queue)
         c    == Last(node)
     IN \E reached \in SUBSET Neighbours(c) :
          /\ Reachable(c, reached)
          /\ \E order \in SetToSeqs(reached) :
               queue' = Enqueue(Tail(queue), [i \in DOMAIN order |-> Append(node, order[i])])
          /\ visited' = visited \cup reached
  /\ UNCHANGED <<network, index, pc, request, hopInfo, response>>

CheckPFMSupport(path) == Len(path) > 2 /\ \A i \in 2..Len(path) - 1 : path[i] \in index.pfm

\* buildIndirectResponse looks the token up once more on every chain.
IndirectLegs(path) ==
  LET hops   == 1..Len(path) - 1
      tokens == UNION {CurrentTokens(path[i]) : i \in hops}
  IN {[i \in hops |-> Leg(path[i], path[i + 1], t[i].chainDenom)] :
        t \in {f \in [hops -> tokens] : \A i \in hops : f[i] \in CurrentTokens(path[i])}}

AnswerIndirect ==
  /\ pc = "search"
  /\ Found
  /\ LET path == Head(queue)
     IN \E legs \in IndirectLegs(path) :
          response' = [NoResponse EXCEPT !.kind = "indirect", !.path = path, !.inbound = legs,
                         !.pfm = CheckPFMSupport(path)]
  /\ pc' = "answered"
  /\ queue' = << >> /\ visited' = {}
  /\ UNCHANGED <<network, index, request, hopInfo>>

NoIndirectRoute ==
  /\ pc = "search"
  /\ queue = << >>
  /\ pc' = "broker"
  /\ visited' = {}
  /\ UNCHANGED <<network, index, request, queue, hopInfo, response>>

(***************************************************************************)
(* Broker routes.  An empty inbound path means that the source is the      *)
(* broker, an empty outbound path that the destination is (SwapOnly).      *)
(***************************************************************************)
HopInfo(in, tokenOnBroker, outbound, intermediate) ==
  [in EXCEPT !.tokenOnBroker = tokenOnBroker, !.outbound = outbound, !.intermediate = intermediate]

TokensOf(tokens, d) == {t \in tokens : t.chainDenom = d}

InboundDirect ==
  {[NoHopInfo EXCEPT !.inbound = <<request.from>>, !.tokenIn = t] :
     t \in TokensOf(AllowedTokens(request.from, Broker), request.tokenIn)}

\* findMultiHopInboundRoute, with the routes of one intermediate chain.
InboundThrough(c) ==
  {[NoHopInfo EXCEPT !.inbound = <<request.from, c>>, !.tokenIn = p[1], !.inboundTokens = <<p[2]>>] :
     p \in {q \in TokensOf(AllowedTokens(request.from, c), request.tokenIn) \X AllowedTokens(c, Broker) :
             q[2].chainDenom = q[1].ibcDenom}}

InboundMultiHop == UNION {InboundThrough(c) : c \in Chains \ {request.from, Broker}}

Inbound == IF InboundDirect # {} THEN InboundDirect ELSE InboundMultiHop

\* The source is the broker: the token only has to be known there.
AtBroker == {[NoHopInfo EXCEPT !.tokenIn = t] : t \in Info(Broker, request.tokenIn)}

BecomesRequested(tokens) == {t \in tokens : t.ibcDenom = request.tokenOut}

\* Case 1 (same chain) and case 2 (swap only).
ToBroker(inbound) ==
  {HopInfo(in, t, << >>, << >>) : in \in inbound, t \in Info(Broker, request.tokenOut)}

OutboundDirect(inbound) ==
  {HopInfo(in, t, <<request.to>>, << >>) :
     in \in inbound, t \in BecomesRequested(AllowedTokens(Broker, request.to))}

\* The swapped token is first sent back to the chain it comes from.
OutboundThrough(inbound, token) ==
  LET origin == token.originChain
  IN {HopInfo(in, t, <<origin, request.to>>, <<u>>) :
        in \in inbound,
        t \in {x \in AllowedTokens(Broker, origin) : SameToken(x, token)},
        u \in BecomesRequested(AllowedTokens(origin, request.to))}

OutboundMultiHop(inbound) ==
  UNION {OutboundThrough(inbound, t) :
           t \in {x \in Info(request.to, request.tokenOut) : x.originChain \notin {Broker, request.to}}}

BrokerAsSource == IF Info(request.to, request.tokenOut) = {} THEN {} ELSE OutboundDirect(AtBroker)

FullBrokerRoute ==
  IF OutboundDirect(Inbound) # {} THEN OutboundDirect(Inbound) ELSE OutboundMultiHop(Inbound)

FindMultiHopRoute ==
  IF Broker \notin network.built THEN {}
  ELSE CASE request.from = Broker /\ request.to = Broker -> ToBroker(AtBroker)
         [] request.from # Broker /\ request.to = Broker -> ToBroker(Inbound)
         [] request.from = Broker /\ request.to # Broker -> BrokerAsSource
         [] OTHER                                        -> FullBrokerRoute

\* The legs and the swap of an answer, in their order.
Journey == response.inbound \o response.swap \o response.outbound

Impossible == [NoResponse EXCEPT !.kind = "impossible"]

ChooseBrokerRoute ==
  /\ pc = "broker"
  /\ hopInfo' \in FindMultiHopRoute
  /\ pc' = "query"
  /\ UNCHANGED <<network, index, request, searchVars, response>>

NoRoute ==
  /\ pc = "broker"
  /\ FindMultiHopRoute = {}
  /\ response' = Impossible
  /\ pc' = "answered"
  /\ UNCHANGED <<network, index, request, searchVars, hopInfo>>

(***************************************************************************)
(* buildBrokerSwapResponse and buildBrokerRoute.                           *)
(***************************************************************************)
BrokerPath(h) == h.inbound \o <<Broker>> \o IF h.outbound = << >> THEN << >> ELSE <<request.to>>

InboundLegs(h) ==
  LET stops == h.inbound \o <<Broker>>
  IN [i \in DOMAIN h.inbound |->
        Leg(stops[i], stops[i + 1],
            IF i = 1 THEN h.tokenIn.chainDenom ELSE h.inboundTokens[i - 1].chainDenom)]

\* The denomination in which the token is expected on the broker.
TokenInOnBroker(h) ==
  IF h.inbound = << >> THEN h.tokenIn.chainDenom
  ELSE IF h.inboundTokens # << >> THEN Last(h.inboundTokens).ibcDenom
  ELSE h.tokenIn.ibcDenom

Swap(h) == [from |-> Broker, to |-> Broker, denom |-> TokenInOnBroker(h), gives |-> h.tokenOnBroker.chainDenom]

\* Leg i takes the token of the chain it leaves only when i, counted from 0, is
\* an index of the intermediate tokens.
OutboundLegs(h) ==
  LET stops == <<Broker>> \o h.outbound
  IN [i \in DOMAIN h.outbound |->
        Leg(stops[i], stops[i + 1],
            IF i > 1 /\ i - 1 < Len(h.intermediate) THEN h.intermediate[i - 1].chainDenom
                                                   ELSE h.tokenOnBroker.chainDenom)]

OutboundPFM(h) ==
  /\ h.outbound # << >>
  /\ \A i \in 1..Len(h.outbound) - 1 : h.outbound[i] \in index.pfm

\* The broker quotes the swap, after up to three retries.
SwapQuoted ==
  /\ pc = "query"
  /\ response' = [kind |-> "brokerSwap", path |-> BrokerPath(hopInfo), inbound |-> InboundLegs(hopInfo),
                  swap |-> <<Swap(hopInfo)>>, outbound |-> OutboundLegs(hopInfo), pfm |-> OutboundPFM(hopInfo)]
  /\ pc' = "answered"
  /\ UNCHANGED <<network, index, request, searchVars, hopInfo>>

\* Every attempt failed.
SwapRefused ==
  /\ pc = "query"
  /\ response' = Impossible
  /\ pc' = "answered"
  /\ UNCHANGED <<network, index, request, searchVars, hopInfo>>

Find ==
  \/ AnswerDirect \/ NoDirectRoute
  \/ Explore \/ AnswerIndirect \/ NoIndirectRoute
  \/ ChooseBrokerRoute \/ NoRoute \/ SwapQuoted \/ SwapRefused

Next == Load \/ Ask \/ Find

Spec == Init /\ [][Next]_vars

\* The handler of a request runs to its end.
FairSpec == Spec /\ WF_vars(Load) /\ WF_vars(Find)

-----------------------------------------------------------------------------
(***************************************************************************)
(* Properties.                                                             *)
(***************************************************************************)
PCs == {"off", "ready", "direct", "search", "broker", "query", "answered"}

Kinds == {"none", "direct", "indirect", "brokerSwap", "impossible"}

\* What a route, or the list of a chain, says of a token; a native token that no
\* route allows has no denomination elsewhere.
TokenInfo(ibcDenoms) ==
  [chainDenom : Denom, ibcDenom : ibcDenoms, baseDenom : Denom, originChain : Chains]
RouteTokens  == TokenInfo(Denom)
ListedTokens == TokenInfo(Denom \cup {NoDenom})

IndexTypeOK ==
  /\ \A c \in Chains :
       /\ DOMAIN index.routes[c] \subseteq Chains
       /\ \A to \in DOMAIN index.routes[c] : index.routes[c][to] \subseteq RouteTokens
  /\ index.tokens \in [Chains -> SUBSET ListedTokens]
  /\ index.pfm \subseteq Chains

RouteRequest == [from : Chains, to : Chains, tokenIn : Denom, tokenOut : Denom, inferred : BOOLEAN]

MultiHopInfo ==
  [inbound : Seq(Chains), tokenIn : ListedTokens, inboundTokens : Seq(RouteTokens),
   tokenOnBroker : ListedTokens, outbound : Seq(Chains), intermediate : Seq(RouteTokens)]

RouteLeg == [from : Chains, to : Chains, denom : Denom, gives : Denom \cup {NoDenom}]

RouteResponse ==
  [kind : Kinds, path : Seq(Chains), inbound : Seq(RouteLeg), swap : Seq(RouteLeg),
   outbound : Seq(RouteLeg), pfm : BOOLEAN]

\* Every variable has its type: what the index says of tokens, what is asked, the
\* broker route that is tried and the legs of an answer name configured chains and
\* denominations that ICS-20 traces make, never a token or a denomination that is
\* missing.  A search follows simple paths that start at the source, so that it
\* cannot run in circles (FindIndirectRoute).
TypeOK ==
  /\ network \in Networks
  /\ IndexTypeOK
  /\ pc \in PCs
  /\ request \in RouteRequest \cup {NoRequest}
  /\ hopInfo \in MultiHopInfo \cup {NoHopInfo}
  /\ response \in RouteResponse
  /\ visited \subseteq Chains
  /\ queue \in Seq(Seq(Chains))
  /\ \A i \in DOMAIN queue : IsInjective(queue[i]) /\ Head(queue[i]) = request.from

\* "Denom on the destination chain (after IBC transfer)" (PathfinderTokenInfo in
\* config_manager/output): what a route says a token becomes on its other side is
\* what ICS-20 makes of it.  It holds where no chain forwards IBC tokens
\* (NativesOnly); a forwarded token is hashed with its hash in place of its trace
\* (buildAllowedTokensForRoute, computeForwardedTokenDenom).
IndexedTokensArrive ==
  \A c \in Chains : \A to \in DOMAIN index.routes[c] : \A t \in index.routes[c][to] :
    t.ibcDenom = Arrives(c, to, t.chainDenom)

\* A token that may leave its chain may come back, in the denomination in which
\* it arrived: nobody's tokens are left on a chain the router does not serve
\* them from (parts 1 and 2 of buildAllowedTokensForRoute).
TokensReturnHome ==
  \A c \in network.built, to \in network.built :
    \A t \in {x \in AllowedTokens(c, to) : x.originChain = c} :
      \E u \in AllowedTokens(to, c) : u.chainDenom = t.ibcDenom /\ u.ibcDenom = t.chainDenom

\* The requested token arrives by the one route between the two chains.
OneHop ==
  \E t \in TokensOf(AllowedTokens(request.from, request.to), request.tokenIn) : t.ibcDenom = request.tokenOut

\* When one hop is enough the answer is one hop, whatever the search meets first.
OneHopWhenPossible ==
  pc = "answered" /\ OneHop => response.kind \in {"direct", "indirect"} /\ Len(Journey) = 1

\* Where a token can be brought without a swap, in at most k hops.
Carried ==
  LET carried[k \in 0..Cardinality(Chains)] ==
        IF k = 0 THEN {<<request.from, request.tokenIn>>}
        ELSE carried[k - 1] \cup
             UNION {{<<to, t.ibcDenom>> : t \in TokensOf(AllowedTokens(p[1], to), p[2])} :
                      p \in carried[k - 1], to \in Chains}
  IN carried[Cardinality(Chains)]

\* A token is swapped, or the request refused, only when plain transfers cannot
\* bring what was asked for (the order of the three searches in FindPath).
SwapsOnlyWhenNeeded ==
  pc = "answered" /\ response.kind \in {"brokerSwap", "impossible"} =>
    <<request.to, request.tokenOut>> \notin Carried

\* An answer passes only chains that are configured, although the routes of a
\* chain also lead to chains whose configuration could not be built.
PassesConfiguredChains ==
  pc = "answered" => \A i \in DOMAIN Journey : Journey[i].to \in network.built

\* Every request is answered.
AskedIsAnswered == pc = "direct" ~> pc = "answered"

=============================================================================
