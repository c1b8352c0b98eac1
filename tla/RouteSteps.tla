----------------------------- MODULE RouteSteps -----------------------------
(***************************************************************************)
(* What the client makes of the pathfinder's answers, and what comes of it *)
(* on the chains: the transactions of a transfer                           *)
(* (generateStepsFromResponse in client_app/src/context/transferContext),  *)
(* what the form shows and asks for before (useRouteInfo,                  *)
(* usePathfinderQuery, senderUi), how each transaction is made             *)
(* (executeStep in taskProvider) and which chains are watched for its      *)
(* packets.  Interruptions and retries are in TransferExecution, the polls *)
(* of the trackers in IbcTracking.                                         *)
(***************************************************************************)
EXTENDS RouteFinding

VARIABLES mode,       \* TransferMode: what the user wants, smartRoute of the request
          execution,  \* BrokerExecutionData of the answer: a memo, a contract call or none
          task,       \* what the client does with the answer
          connected,  \* the chains the wallet is connected to
          steps,      \* TransferStep[]
          step,       \* the step that is next
          held,       \* the transferred token: its chain and denomination
          hop,        \* the legs of that step that are done
          trail,      \* the chains the step's packets have met
          refusedAt   \* the step of which a packet was not executed, 0 if there is none

clientVars == <<mode, execution, task, connected, steps, step, hop, held, trail, refusedAt>>

taskVars == <<task, connected, steps, step, hop, held, trail, refusedAt>>

allVars == <<vars, clientVars>>

Nothing == [chain |-> None, denom |-> NoDenom]

NoTask == /\ task = "idle" /\ connected = {} /\ steps = << >> /\ step = 0 /\ hop = 0
          /\ held = Nothing /\ trail = << >> /\ refusedAt = 0

StepsInit == Init /\ mode = "manual" /\ execution = "none" /\ NoTask

(***************************************************************************)
(* The server, asked in the user's mode.  With smartRoute the answer with  *)
(* a swap holds what makes one transaction of it, unless that could not be *)
(* built: "route still usable".                                            *)
(***************************************************************************)
AskInMode ==
  /\ task \in {"idle", "arrived", "stuck"}
  /\ Ask
  /\ mode' \in {"manual", "smart"}
  /\ execution' = "none"
  /\ task' = "idle" /\ connected' = {} /\ steps' = << >> /\ step' = 0 /\ hop' = 0
  /\ held' = Nothing /\ trail' = << >> /\ refusedAt' = 0

Executions(answer) ==
  IF mode = "manual" THEN {"none"}
  ELSE {"none", IF answer.inbound = << >> THEN "contract" ELSE "memo"}

Quote ==
  /\ SwapQuoted
  /\ execution' \in Executions(response')
  /\ UNCHANGED <<mode, taskVars>>

Serve ==
  /\ \/ Load \/ AnswerDirect \/ NoDirectRoute \/ Explore \/ AnswerIndirect \/ NoIndirectRoute
     \/ ChooseBrokerRoute \/ NoRoute \/ SwapRefused
  /\ UNCHANGED clientVars

(***************************************************************************)
(* The steps.  A step's transaction moves the token along "legs", the      *)
(* first by the user's signature and the others as the memo or the         *)
(* contract call says; "watched" are the chains its tracker goes through.  *)
(***************************************************************************)
OneLeg(type, from, to, l) == [type |-> type, from |-> from, to |-> to, legs |-> <<l>>, watched |-> <<from, to>>]

TransferSteps(legs) == [i \in DOMAIN legs |-> OneLeg("ibc_transfer", legs[i].from, legs[i].to, legs[i])]

SwapSteps_AtTheEnd ==
  LET chain == Last(response.path)
  IN [i \in DOMAIN response.swap |-> OneLeg("swap", chain, chain, response.swap[i])]

\* The swap is on the chain of the path where the inbound legs end.
SwapSteps ==
  LET chain == response.path[Len(response.inbound) + 1]
  IN [i \in DOMAIN response.swap |-> OneLeg("swap", chain, chain, response.swap[i])]

OneTransaction(type, to) ==
  <<[type |-> type, from |-> response.path[1], to |-> to, legs |-> Journey, watched |-> response.path]>>

GenerateSteps ==
  LET forwards == response.kind = "indirect" /\ mode = "smart" /\ response.pfm
      contract == execution = "contract" /\ mode = "smart" /\ response.inbound = << >>
      memo     == execution = "memo" /\ mode = "smart"
  IN CASE forwards -> OneTransaction("multi-hop", response.path[2])
       [] contract -> OneTransaction("wasm-execution", Last(response.path))
       [] memo     -> OneTransaction("multi-hop + swap", response.path[2])
       [] response.kind = "brokerSwap" /\ ~contract /\ ~memo ->
            TransferSteps(response.inbound) \o SwapSteps \o TransferSteps(response.outbound)
       [] OTHER -> TransferSteps(response.inbound)

StepCount_SmartIsOne ==
  IF mode = "smart" /\ response.kind = "brokerSwap" THEN 1 ELSE Len(Journey)

\* getRouteStepCount: what the form announces.
StepCount ==
  CASE response.kind = "direct" -> 1
    [] response.kind = "indirect" -> IF mode = "smart" /\ response.pfm THEN 1 ELSE Len(response.inbound)
    [] OTHER -> IF mode = "smart" /\ execution # "none" THEN 1 ELSE Len(Journey)

ChainsAfter(legs) == {legs[i].to : i \in DOMAIN legs}

IntermediateChainIds_Inbound ==
  IF response.kind = "direct" THEN {} ELSE ChainsAfter(response.inbound)

IntermediateChainIds ==
  IF response.kind = "direct" THEN {} ELSE ChainsAfter(response.inbound) \cup ChainsAfter(response.outbound)

\* The chains the form wants the wallet connected to.
RequiredChains == {request.from, request.to} \cup IntermediateChainIds

(***************************************************************************)
(* The transfer: the form is submitted with a wallet that is connected to  *)
(* no more than it must be, and the steps are executed one after another.  *)
(***************************************************************************)
Submit ==
  /\ pc = "answered" /\ task = "idle"
  /\ response.kind # "impossible"
  /\ connected' = RequiredChains
  /\ steps' = GenerateSteps
  /\ step' = 1 /\ hop' = 0 /\ trail' = <<request.from>> /\ refusedAt' = 0
  /\ held' = [chain |-> request.from, denom |-> request.tokenIn]
  /\ task' = IF steps' = << >> THEN "stuck" ELSE "signing"   \* "No steps generated from route"
  /\ UNCHANGED <<vars, mode, execution>>

Current == steps[step]

Swaps(l) == l.from = l.to

\* ICS-20 for a transfer; the broker gives what the answer says for a swap.
Moved(l) ==
  /\ held' = [chain |-> l.to, denom |-> IF Swaps(l) THEN l.gives ELSE Arrives(l.from, l.to, held.denom)]
  /\ trail' = IF Swaps(l) THEN trail ELSE Append(trail, l.to)
  /\ hop' = hop + 1
  /\ UNCHANGED refusedAt

\* A packet that is not executed is refunded: to the recover address on the
\* broker when its tokens were swapped on the way, else to who signed the step.
Refund ==
  IF \E i \in 1..hop : Swaps(Current.legs[i])
  THEN [chain |-> response.swap[1].to, denom |-> response.swap[1].gives]
  ELSE [chain |-> Current.from, denom |-> Current.legs[1].denom]

\* The packet of a leg times out, or the chain that receives it answers with an
\* error: in a transaction that has code 0.  The packet that pays for a swap is
\* answered so when the swap fails.
Refused(l) ==
  /\ held' = Refund
  /\ trail' = trail \/ (~Swaps(l) /\ trail' = Append(trail, l.to))
  /\ refusedAt' = step
  /\ UNCHANGED hop

\* The wallet signs on the step's chain and pays in the denomination of its leg.
CanPay ==
  /\ Current.from \in connected
  /\ held = [chain |-> Current.from, denom |-> Current.legs[1].denom]

Sign ==
  /\ task = "signing"
  /\ CanPay
  /\ Moved(Current.legs[1]) \/ (~Swaps(Current.legs[1]) /\ Refused(Current.legs[1]))
  /\ task' = "confirming"
  /\ UNCHANGED <<vars, mode, execution, connected, steps, step>>

\* The contract call is built with the action after the swap only when that is
\* an IBC transfer (createWasmExecutionMessage); the contract may refuse one without.
LacksAction == Current.type = "wasm-execution" /\ response.outbound = << >>

\* "Not connected to" the chain, or the chain refuses the transaction.
SignFails ==
  /\ task = "signing"
  /\ ~CanPay \/ LacksAction
  /\ task' = "stuck"
  /\ UNCHANGED <<vars, mode, execution, connected, steps, step, hop, held, trail, refusedAt>>

\* The next leg is taken by a contract of the broker, which swaps and sends on,
\* or by a chain that forwards packets; elsewhere the token stays with the
\* receiver of the packet.
Forwards ==
  /\ refusedAt # step
  /\ hop < Len(Current.legs)
  /\ \/ Swaps(Current.legs[hop]) \/ Swaps(Current.legs[hop + 1])
     \/ held.chain \in index.pfm

Forward ==
  /\ task = "confirming"
  /\ Forwards
  /\ Moved(Current.legs[hop + 1]) \/ Refused(Current.legs[hop + 1])
  /\ UNCHANGED <<vars, mode, execution, task, connected, steps, step>>

\* A tracker follows the packet from chain to chain; there is none for a swap
\* and for a path of one chain.  It looks for a transaction of code 0 that
\* received the packet, and not at what that transaction answered.
Confirmed_Untracked == TRUE

Confirmed ==
  \/ Current.type = "swap" \/ Len(Current.watched) < 2
  \/ IsPrefix(Current.watched, trail)

LastStep == step = Len(steps)

StartStep(i) == /\ step' = i /\ hop' = 0 /\ trail' = <<held.chain>>

Confirm ==
  /\ task = "confirming"
  /\ ~Forwards
  /\ Confirmed
  /\ IF LastStep THEN task' = "arrived" /\ UNCHANGED <<step, hop, trail>>
                 ELSE task' = "signing" /\ StartStep(step + 1)
  /\ UNCHANGED <<vars, mode, execution, connected, steps, held, refusedAt>>

\* The packet is not found on the next chain of the path.
NotFound == ~Forwards /\ ~Confirmed

\* The tracker gives up, and the transfer fails.
GiveUp ==
  /\ task = "confirming"
  /\ NotFound
  /\ task' = "stuck"
  /\ UNCHANGED <<vars, mode, execution, connected, steps, step, hop, held, trail, refusedAt>>

Execute == Sign \/ SignFails \/ Forward \/ Confirm \/ GiveUp

StepsNext == AskInMode \/ Serve \/ Quote \/ Submit \/ Execute

StepsSpec == StepsInit /\ [][StepsNext]_allVars

\* The handlers run to their end; nobody has to ask, to submit or to sign.
StepsFairSpec == StepsSpec /\ WF_allVars(Serve \/ Quote)

-----------------------------------------------------------------------------
(***************************************************************************)
(* Properties.                                                             *)
(***************************************************************************)
StepTypes == {"ibc_transfer", "swap", "multi-hop", "multi-hop + swap", "wasm-execution"}

\* Every variable has its type; a step leads from a chain to a chain.
StepsTypeOK ==
  /\ TypeOK
  /\ mode \in {"manual", "smart"}
  /\ execution \in {"none", "memo", "contract"}
  /\ task \in {"idle", "signing", "confirming", "arrived", "stuck"}
  /\ connected \subseteq Chains
  /\ \A i \in DOMAIN steps : steps[i].type \in StepTypes /\ {steps[i].from, steps[i].to} \subseteq Chains
  /\ step \in {0, 1} \cup 1..Len(steps)
  /\ hop \in 0..Len(Journey)
  /\ held.chain \in Chains \cup {None}
  /\ refusedAt \in 0..Len(steps)

\* The transfer reaches "completed" only when the token that was asked for is on
\* the chain that was asked for, whichever routes the search took, whoever signs
\* and whatever the chains forward; or when that chain itself received the last
\* packet and answered it with an error.  A packet that any other chain refuses,
\* or that times out, never passes for a delivery (executeTransfer,
\* trackSmartTransferMultiHop, waitForConfirmation).
CompletedIsDelivered ==
  task = "arrived" =>
    \/ held = [chain |-> request.to, denom |-> request.tokenOut]
    \/ refusedAt = Len(steps) /\ \E i \in 2..Len(trail) : trail[i] = request.to

\* Wherever a transfer ends or breaks off, refunded or not, the token is on a chain the wallet was
\* asked to connect to: its owner can use it (requiredChains in senderUi).
TokensStayReachable == task # "idle" => held.chain \in connected

\* The form announces as many transactions as the transfer then asks the wallet
\* to sign (getRouteStepCount, generateStepsFromResponse).
AnnouncedAreSigned == task # "idle" => Len(steps) = StepCount

\* When the user signs every leg and every packet is executed, a transfer breaks
\* off behind the swap only: up to it, every step finds the token it sends where
\* it sends it from, with a wallet connected there (executeStep).  A packet that
\* is refused or times out may break a transfer off anywhere.
BreaksAfterSwapOnly ==
  task = "stuck" /\ steps # << >> /\ refusedAt = 0 /\ (\A i \in DOMAIN steps : steps[i].type \in {"ibc_transfer", "swap"}) =>
    response.kind = "brokerSwap" /\ step > Len(response.inbound) + 2

(***************************************************************************)
(* What comments of the repository say, and the code does not do.          *)
(***************************************************************************)

\* "Token info on source chain": the token a leg names is the one that is there
\* (IBCLeg.Token in pathfinder/models).
LegsNameHeldTokens ==
  task = "signing" /\ refusedAt = 0 => held.denom = Current.legs[1].denom

\* "Chain IDs in order (all chains involved)" (BrokerRoute.Path in
\* pathfinder/models): the chains a tracker has to follow.
PathHasAllChains ==
  pc = "answered" /\ response.kind = "brokerSwap" =>
    Range(response.path) = {request.from} \cup ChainsAfter(Journey)

=============================================================================
