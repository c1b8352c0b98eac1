--------------------------- MODULE MCRouteSteps ---------------------------
(***************************************************************************)
(* Small networks: the Hub, Juno, Noble and Osmosis (the broker), numbered *)
(* in the order of their chain ids, linked in every way.                   *)
(***************************************************************************)
EXTENDS RouteSteps

Hub == 1
JunoChain == 2
Noble == 3
Osmosis == 4

MCChains == {Hub, JunoChain, Noble, Osmosis}

MCBases == {"uatom", "uusdc", "uosmo"}

NativeToken(b, allowed) ==
  [denom |-> Native(b), originChain |-> None, originDenom |-> Native(b), allowed |-> allowed]

Links == {{e[1], e[2]} : e \in {x \in MCChains \X MCChains : x[1] # x[2]}}

Network(links, tokens, built, pfm) == [links |-> links, tokens |-> tokens, built |-> built, pfm |-> pfm]

\* Two tokens that travel, one of them restricted in some networks, and one
\* that is only traded on the broker.
NativeTokensOf(usdc) ==
  [c \in MCChains |->
     CASE c = Hub     -> {NativeToken("uatom", {})}
       [] c = Noble   -> {NativeToken("uusdc", usdc)}
       [] c = Osmosis -> {NativeToken("uosmo", {None})}
       [] OTHER       -> {}]

\* The configurations of the chains that could be built, and which of them
\* forward packets.
Variants ==
  {[usdc |-> {}, built |-> MCChains, pfm |-> MCChains],
   [usdc |-> {Hub, Osmosis}, built |-> MCChains, pfm |-> {}],
   [usdc |-> {}, built |-> MCChains \ {Noble}, pfm |-> {Hub}]}

NativeNetworks ==
  {Network(links, NativeTokensOf(v.usdc), v.built, v.pfm) : links \in SUBSET Links, v \in Variants}

\* The Hub, Noble and Juno each linked to the broker, and Noble to everybody.
Star == {{Osmosis, c} : c \in {Hub, JunoChain, Noble}} \cup {{Noble, c} : c \in {Hub, JunoChain}}

StarNetworks == {Network(Star, NativeTokensOf({}), MCChains, pfm) : pfm \in {{}, {Hub, JunoChain, Noble}}}

\* The Hub forwards Noble's USDC to Osmosis: an IBC token with its origin and its
\* one destination, as in the "Multihop example" of the config manager's README.
ForwardedUsdc ==
  [denom |-> ComputeIBCDenom(<<Hub, Noble>>, Native("uusdc")), originChain |-> Noble,
   originDenom |-> Native("uusdc"), allowed |-> {Osmosis}]

ForwardingNetworks ==
  {Network(Star, [NativeTokensOf({}) EXCEPT ![Hub] = @ \cup {ForwardedUsdc}], MCChains, MCChains)}
=============================================================================
