# Spectra Portal in TLA+

Spectra Portal moves tokens between Cosmos chains. A web client asks a *pathfinder* server for a
route, shows it, and executes it step by step with the user's wallet; a *config manager* generates the
configuration both run on. This directory holds a TLA+ model of the parts of the repository where the
hard behaviour is, the TLC configurations that check it on small instances, and TLAPS proofs of what
matters most for every instance.

* [Inventory](#inventory): the system's parts, their state, what is hard about them
* [Modules](#modules): which module models what, and how its state and actions correspond to the code
* [Runs](#runs): what TLC checks, the bounds, the fairness
* [Disagreements](#disagreements): where the code does not do what its documents say
* [Proofs](#proofs): what is proved, from what, along which argument
* [Not modelled](#not-modelled) and [Plan](#plan)

Paths are relative to the root of the repository; `PROJECT.json` maps every definition to its lines.
To check: `tlc -config TransferExecution.cfg MCTransferExecution`, and so on for each row of
[Runs](#runs), whose module is named in `PROJECT.json`; `tlapm TransferExecution_proofs.tla`, and so on for
each module that ends in `_proofs`.

## Inventory

```
 config_manager                pathfinder (Go server)                 client_app (Next.js)
 input/*.toml -> validator     config loading -> RouteIndex           SendUI form -> usePathfinderQuery
   -> RouteBuilder -> Builder    FindPath: direct / indirect / broker     -> transfer context -> tracker view
   -> pathfinder_config.toml     -> Osmosis quote service (SQS)           -> TaskProvider -> wallet -> chains
   -> client_config                 with failover                         -> IbcTracking -> IndexedDB history
```

The config manager runs offline and hands a file to each of the other two. The client calls the
pathfinder (`FindPath`, over Connect RPC), the wallet extension, REST and RPC nodes of the chains, its
own health route, and IndexedDB; the pathfinder calls the quote service.

### Client (`client_app/src`)

| Component | State | Operations | What is hard | What makes it correct |
|---|---|---|---|---|
| Transfer execution (`context/taskProvider.tsx`, `transferContext.tsx`, `tracking/transferTracker.tsx`) | the reducer's TransferState, an execution lock, suspended coroutines | executeTransfer, retryStep, the shared step loop, tracking callbacks, Back | React effects that fire again; coroutines that outlive what the page shows; Retry without a lock; snapshots taken before an await; reloads between a broadcast and its record | money of a step is not sent again unknowingly, steps in order, the page and the record agree, every execution ends |
| Transaction history (`lib/indexDb/dbManager.ts`, `hooks/useTransactionHistory.ts`) | the `transactions` object store | add, update, load, cleanup at open | requests that fail, un-awaited writes, several tabs, deletion of old records | a record never claims more than happened, success is final |
| Quote and submit (`hooks/usePathfinderQuery.ts`, `send/senderUi.tsx`, `hooks/useTransferFormState.ts`) | two quote hooks (manual, smart), the form, the submit handler's spinner | edit, toggle, debounce, refresh, submit | answers out of order, effects that copy the form into the context, submit across an await | what is executed was quoted for what the form shows |
| Steps of a route (`transferContext.tsx` 531-719, `hooks/useTransactionConstr.ts`) | none | generateStepsFromResponse, extractChainPath, message construction | four shapes of route in two modes | steps follow the answer's legs, each with the token that is there |
| IBC tracking (`hooks/useIbcTracking.ts`, `hooks/ibcTracking/util.ts`) | an abort controller, poll counters | wait for a packet, follow it over several chains | batched relayer transactions, error acknowledgements, timeouts | success is reported only for the packet that was sent |
| Wallet connections (`context/walletContext.tsx`, `wallet/walletModel.tsx`) | connections, wallet type, localStorage | connect, disconnect, automatic reconnection, send | snapshots across awaits, overlapping connects, storage and state that drift apart | one wallet at a time; stored and shown connections agree |
| Health route (`app/api/health/route.ts`) | a cache per chain | check endpoints, read the cache | concurrent misses, stale results, empty results cached | a cached list is as old as it says |
| Mutex (`lib/mutex/mutex.ts`) | a flag and a queue | lock, unlock | | used by nothing |
| Pages, generated code, configuration | | rendering, parsing | | |

### Pathfinder (`pathfinder`)

| Component | State | Operations | What is hard | What makes it correct |
|---|---|---|---|---|
| Route index (`router/index_build.go`) | tables of routes and tokens, written once | BuildIndex | entries overwrite each other | the denomination of a token on the other side of a route is the one the chains give it |
| Route search (`router/pathfinder.go`, `route_*.go`) | none of its own | FindPath and its three searches, legs, packet forwarding | iteration over Go maps, many shapes of route | an answer that is followed delivers what was asked for; swaps only when needed |
| Denomination resolver (`router/denom_resolver.go`) | look-up tables | resolve, infer, list | human-readable names are ambiguous | the same token is found on another chain |
| Execution data (`pathfinder.go` 669-1149, `router/ibc_memo`, `router/brokers/osmosis/memo.go`) | none | messages and nested memos | nesting, minimum outputs, receivers and recovery addresses on each chain | the memo performs the route the answer shows |
| Osmosis quote client (`sqs_query/client.go`, `router/brokers/osmosis/broker.go`) | the list of healthy endpoints, a health checker | GetRoute with retries and failover, health check, Close | an unlocked list changed in place; nested retries | no backup is lost, queries reach an endpoint that is up, Close returns |
| RPC server (`rpc/*.go`, `cmd/main.go`) | | handlers, limits, shutdown | timeouts shorter than the work they guard | a caller gets an answer |

### Config manager (`config_manager`)

| Component | State | Operations | What is hard | What makes it correct |
|---|---|---|---|---|
| Route builder (`enriched/route_builder.go`) | look-up maps | routes and allowed tokens of a chain | ICS-20 denominations, restrictions | tokens that leave may return, under the right names |
| Registry builder (`enriched/builder.go`) | | build each chain | a chain that fails is skipped, others still lead to it | no answer passes a chain that is not configured |
| Endpoint validation (`validator/*.go`) | points per endpoint | compare versions, heights, blocks | majorities on ties, thresholds | a lying endpoint is dropped, honest ones stay |
| Pipeline, input validation, queries, output | | sequential | | |

`PROJECT.json` lists the hazards at the lines where they bite, with the properties that watch them, or
the reason there is none.

## Modules

```
 RouteBuilder <- RouteFinding <- RouteSteps      configuration, pathfinder, what the client makes of the answer
 SqsClient                                       the broker's quotes, which RouteFinding takes as a choice
 QuoteSubmit                                     the form; hands a quote to the transfer
 TransferExecution -> TransferHistory            the transfer, and what its records promise
 TransactionDb                                   the store the records are kept in, under several tabs
 IbcTracking                                     what TransferExecution's trackers may report
 WalletConnections                               the wallets that sign
 HealthCache                                     the endpoints the client talks to
```

An arrow to the left is EXTENDS, one to the right a refinement. Where a component is the environment of
another, the other takes its outcome as a choice, and the component's own module says which outcomes are real.

### TransferExecution, TransferHistory

`TransferExecution` models the coroutines `executeTransfer`, `retryStep` and the loop
`executeStepsWithTracking` they share. JavaScript runs from one `await` to the next without
interruption, so an action is the code between two awaits, with every dispatch it makes.

| Model | Code |
|---|---|
| `phase, steps, currentStepIndex, dbRecordId, multiHopProgress` | TransferState in the reducer |
| `quoted` | whether its pathfinderResponse still holds the quote that was submitted |
| `executionLock`, `dbReady` | the refs and state of TaskProvider |
| `run[r]` | a call in flight: the await it is at, the record, the steps of its own, the index of the loop |
| `db`, `queue` | the object store; its read-write transactions, which IndexedDB runs in the order they were created |
| `moved, lost` | the chains: how often a step's transaction was included, inclusions the client was not told of |
| `confirmed, refused` | history: the steps the client took for done, and those of them whose tokens are nevertheless not where the step takes them |
| `orphaned` | records whose coroutine a reload or a failed request cut short |
| `Submit` | the form hands over; the effect that copies the form may empty the quote as it does (senderUi.tsx:309) |
| `Start` | the tracker's effect, as often as it likes while "preparing" with a quote (transferTracker.tsx:83) |
| `SendSucceeds, SendFails, ChainAccepts` | executeStep; a transaction is included before, or although, the client is told |
| `TrackingSucceeds, TrackingFails, HopConfirmed` | what the trackers may report |
| `RecordAdded, StepRecorded, FailureRecorded, GiveupRecorded, SuccessRecorded, WriteRejected, HopWriteSettles` | an IndexedDB request settles, or fails, and the coroutine goes on |
| `Leave`, `Reload` | client-side navigation away and back (coroutines live on, unseen, and the new page has its own lock); a reload, which kills them |

A step is abstracted to how its delivery is tracked: not at all (a swap), one hop, or a path of chains. That the client takes
a step for done does not mean that its tokens arrived: the tracker looks for a transaction of code 0 that received the packet, and such a
transaction may have answered it with an error. `CompleteStep` therefore keeps `confirmed` and `refused` apart, and `StepsInOrder` is about the
former.

`TransferHistory` is the abstract specification: a record is opened in progress, counts steps one at a
time and never ahead of what the chains settled, may fail and be resumed, succeeds only when every step is settled,
and is never changed after that. A settled step arrived (`Arrive`) or was refused (`Refuse`), which the records do not tell
apart. `ImplementsHistory` is the refinement: the store and the confirmed steps mapped to it. The hop counter of a record is not part of it;
`HopProgressGrows` says what its un-awaited writes may do.

### QuoteSubmit

The form's amount and mode, both instances of `usePathfinderQuery`, the effects that copy form and
quote into the transfer context, and `handleSubmit`. Amounts are texts with a worth in base units, so
that two texts may be worth the same, which is what the debounce and the effects react to differently.
An action is one event (a key, a timer, an answer, a click) with the effects of the renders it causes.
Which quote a submitted transfer has, if any, which `TransferExecution` takes as a choice, is what this module is about.

### RouteBuilder, RouteFinding

`RouteBuilder` has no state: what the config manager writes for a network of chains. A denomination is a
base name with the trace its hash stands for, so that hashing a hash is distinct from hashing a trace.
ICS-20 itself (`Arrives`, `Unwinds`) is modelled from its definition and marked external.

`RouteFinding` loads that configuration (`Load` builds the index), takes a request (`Ask`, with an
explicit or an inferred output token) and searches in steps of the code: `AnswerDirect`, `Explore` once per
node of the queue, `ChooseBrokerRoute`, the query of the broker. A `range` over a Go map is a choice of any
matching element. There is one broker, as there is one broker client.

### RouteSteps

Composes the pathfinder with the client: `AskInMode` is a request in the user's mode (manual or smart), the
server's own actions follow, and `Quote` adds the execution data a smart answer may carry (a memo, a contract
call, or none, as when it could not be built). `GenerateSteps` is generateStepsFromResponse, with its order of tests;
`StepCount` is what the form announces and `RequiredChains` what it asks the wallet for. Then the transfer
is *executed on the chains*: `Submit`, `Sign` (a wallet on the step's chain pays in the denomination the leg names),
`Forward` (a contract of the broker, or a chain with packet forwarding, takes the next leg; elsewhere the token stays
where it is), `Confirm` and `GiveUp` (the tracker follows the path the step was given). So what an answer is worth is
where the token ends up, and what the client says about it. Any packet may also not be executed (`Refused`): it times out, or a chain answers
it with an error, as the broker does when the swap of a memo fails. The token is then refunded (`Refund`): to who signed, or on the broker when it
was swapped before, where the recover address is; and the trail of chains that `Confirmed` looks at grows all the same if a chain received the
packet. Only the one token that is transferred is followed, and a second packet of the same transaction is not refused after the refund of the first.

### WalletConnections

Two tabs with React state of their own and one localStorage. `ConnectBegins` is a click whose check of the saved
type passes; `ConnectEnds` comes after the awaits and writes back the snapshot of the render that was clicked;
`DisconnectChain`, `DisconnectAll`, `Reload`, `Reconnected` and `ReconnectFails` are the others. `Render` is
setConnections and setWalletType together with the effect they trigger, which reads localStorage again. `calm` is history:
nobody has acted while a wallet was being awaited.

### IbcTracking

Transfers cross the same path of chains, in transactions of relayers that each receive some of the packets in
some order, accept them or answer them with an error (`Relay`). The tracker looks for the packet of the source
transaction (`SourceFound`, `SourceMissing`), polls each hop (`NotConfirmed`, `Confirmed`, `TimesOut`), and goes
on with the packet the receiving transaction sent. What a transaction sends on keeps the place of what it received. `Matches` and `Forwarded` keep what the code looks at: the *first*
recv_packet and the *first* send_packet event of a transaction. A path of one hop and a longer one take the code's two ways.

### TransactionDb

The store as several tabs share it: opening with a cleanup that is not awaited (`OpenWriter`, `OpenPanel`), adding
and updating (`Begin`, `Report`), the history panel (`Load`, `Refresh`), reloads that abort a tab's transactions. The queue is
IndexedDB's, which runs read-write transactions of one store in the order they were created, whichever tab they are from.
A refused update is one whose record the cleanup of another tab deleted (`NotFound`).

### HealthCache

`GET` of the health route for one chain: `Hit`, `Miss` (all checks start), `Check` (an endpoint's report), `Answer` (cached and
returned), under a clock. A request does not share the checks of another. The timer of a check is cleared when headers
arrive, so that a check may `Stall` beyond it; `Tick` lets no other check outlast the timer.

### SqsClient

The list of healthy endpoints is a Go slice that the health checker edits in place while handlers read
it, without the mutex the client declares. The model has the array and the length apart: `FindPrimary`,
`MoveDown` (one element at a time), `ClearLast`, `Shorten` are `slices.DeleteFunc`; `Draw` and `Pick` are
the two reads of `getRandomHealthyURL`, and a `Pick` of the element that is being moved may see half of
it. `Look`, `Get` and `QueryFails` are the attempts of `doRequestWithFailover` inside those of
`queryBrokerWithRetry`; endpoints come and go (`Change`). `Close`, `Stop`, `Closed` are the shutdown.

The `MC*` modules give small values to the constants and define nothing else.
Definitions named `X_Y` are faulty variants of `X` (a dropped guard, an off-by-one, a lost reset):
each property has one that breaks it, so that no property holds for want of something to go wrong.

## Runs

| Run | Instance | Shows |
|---|---|---|
| `transfer` | two coroutines, two records, plans of 0 to 2 steps with each way of tracking, a path of 3 chains, 1 retry, 1 exit, 1 failed request, 1 refused step; 548 thousand states | no step is sent again unless its inclusion was never reported (`NoBlindResend`); later steps wait for earlier ones (`StepsInOrder`); the store implements `TransferHistory`, so that records are honest and success is final; page, coroutine and record agree (`PageFollowsRun`, `CompletedIsRecorded`); the lock works (`ExecutionIsExclusive`); a record has one coroutine while IndexedDB answers (`OneRunPerRecord`); the hop counter grows (`HopProgressGrows`); a submitted transfer that keeps its quote starts or fails, an execution ends, a record settles |
| `quote` | four texts, two of equal worth, 4 requests per hook, 3 edits; 94 thousand states | whatever is answered late or out of order, a form that may be submitted shows a quote for itself, the context holds what is shown, and the spinner ends |
| `steps` | four chains linked in each of the 64 ways, three variants (everything; a restricted token and no forwarding; a chain that failed to build), every request, both modes; 150 thousand states | tokens return home, one hop is used when it suffices, swaps only when needed, answers pass configured chains only, every request is answered; a transfer that reaches "completed" delivered what was asked for, or the requested chain itself refused it; one that breaks off leaves the token where the owner has a wallet, manual transfers whose packets are executed break off behind the swap only, and the form announces the transactions that are signed |
| `wallet` | two tabs, two chains, two wallets, 4 clicks; 777 thousand states | what is saved can be restored; wallets are mixed only by acting while one is awaited; reconnecting ends |
| `tracking` | two transfers, 3 hops, 3 attempts; 59 thousand states | a transfer that is relayed alone is followed on every hop, and the tracker stops where it was rejected |
| `history` | two tabs, a limit of 2 records, 3 records, 1 reload; 800 thousand states | the newest records are kept, the panel shows the latest ones in order, every write settles |
| `health` | two RPC and one REST endpoint, 2 overlapping requests, 3 ticks; 380 thousand states | an answer is no older than the cache keeps it and a check lasts; the cache does not fall behind what was answered |
| `sqs` | three endpoints, one handler, the retries of the code (3 and 4 attempts), 3 changes; 132 thousand states | no backup is ever lost from the list, the list follows the primary, requests switch to the backups, requests end, Close returns |
| `quote_late`, `steps_path`, `steps_legs`, `steps_forwarded` | the instance of `quote`; three chains linked to the broker and two of them to the third, and in the last run an IBC token that is forwarded | the [disagreements](#disagreements) |

**Bounds.** `MaxRecords`, `MaxRetries`, `MaxExits`, `MaxDbErrors`, `MaxRefused`, `MaxRequests`, `MaxEdits`, `MaxChanges`, `MaxClicks`,
`MaxReloads` and `MaxTime` only cap what the environment may do. Two coroutines are enough for a coroutine of the page and one
that was left behind or still records its failure; two records, for a coroutine that writes into another's transfer;
two steps, for order; one retry beside the second transfer. One refused step tells records of what arrived and what did not apart. Four chains is the longest route the search for
broker routes builds (source, broker, intermediate chain, destination), and with all the ways to link them
cycles, parallel paths and islands occur. Four clicks are two connects with a disconnect and a reload between them, in two tabs.
Three hops are a first, a middle and a last one, which the tracker treats differently; a second transfer is enough to be taken for
ours. A history limit of two with three records is one record too many for the cleanup, while two tabs write and list. Two
requests overlap; three ticks outlast the time an entry is valid (2) by the time a check may take (1). Handlers of `SqsClient` only read
what they share, so that one handler meets every interleaving with the checker that several would.

**Deadlock** is checked in `sqs`, whose system never stops before it is closed. The other configurations say
`CHECK_DEADLOCK FALSE`: a user may stop, a transfer is over, and the bounds run out.

**Fairness.** `TransferExecution`: a coroutine goes on when what it awaits settles, and the tracker's effect
fires while there is a quote (the JavaScript event loop; IndexedDB and the trackers always settle, the latter by their timeout); the
user owes nothing. `QuoteSubmit`: calls are answered (by an error, if need be), timers fire, and effects run.
`RouteSteps`: a handler of the server runs to its end; nobody has to ask, submit or sign. `WalletConnections`: a wallet answers
or rejects the keys a reconnection asks it for; whether a user ever confirms a connection is left open. `TransactionDb`: IndexedDB
runs the transactions it was given. `SqsClient`: the ticker fires, handlers run (HTTP calls time out), and
Go's `select`, which chooses at random between two ready cases, does not pass over the stop signal for ever
(strong fairness of `Stop`). No fairness is assumed of clicks, chains that include transactions, endpoints or shutdown.
`IbcTracking` and `HealthCache` are checked for safety only and assume none: that a tracker ends is its attempts counting up,
and a health check behind a body that never comes does not end.

## Disagreements

Each of the first four is a run that TLC must find violated; `PROJECT.json` quotes the lines.

* `quote_late`: a refresh that is answered after the form was emptied still counts as the latest, and the
  submit that awaited it starts a transfer the form no longer shows.
* `steps_path`: the path of a route that goes on from the broker over another chain leaves that chain out, although it is
  documented to have all chains; the client, which follows a smart transfer along it, looks for the packet on the wrong chain.
* `steps_legs`: on such a route the second outbound leg names the token as the broker knows it, and the manual transfer
  breaks off there, behind the swap.
* `steps_forwarded`: the config manager hashes the hash of a forwarded IBC token instead of its trace (route_builder.go:304), so that the denomination
  its output documents as the one "on the destination chain" is one no chain mints. `IndexedTokensArrive` fails as soon as a chain
  forwards an IBC token, which the config manager's README shows how to configure and no shipped configuration does; without such
  tokens it is a theorem (`TokensArrive`).

The models also behave in these ways that a reader may not expect. No document says otherwise, or the code that does is not checked
by a run:

* The index keeps one entry per token of a chain, that of its last route, so that the direct search fails for the others and the
  indirect search finds the same single hop (index_build.go:67). `OneHopWhenPossible` says that the answer is as good.
* The token that is inferred for a destination is the only one with its base name, which may come from another origin (denom_resolver.go:290).
* Rewriting the amount with the same worth ("1" to "1.0") empties the quote in the transfer context (senderUi.tsx:309) while the hook, which sees the
  same base units, asks for no other. A submission before the next answer shows the tracker without a quote: nothing starts, and without Back or Retry the page
  stays in "preparing" until it is left. `PreparingEnds` is about the transfers that keep their quote.
* The health checker of the quote client returns after its first endpoint, so that only the primary is ever taken off the list (sqs_query/client.go:171).
* Disconnecting the last chain of a tab clears its wallet type but not the saved one, so that another wallet is refused until
  everything is disconnected (walletContext.tsx:337, 448).
* A tracker takes the first send_packet event of the transaction that received its packet, although a relayer's transaction may carry
  several transfers (useIbcTracking.ts:119); `FollowsOurs` says what holds when it does not. A packet received with an error
  acknowledgement counts as received (useIbcTracking.ts:115): on the last chain, or the only one, the step is then reported as done although its tokens are
  refunded, and steps that spend them are sent. `refused` in `TransferExecution` and `refusedAt` in `RouteSteps` model it; `CompletedIsDelivered`
  says that no other refusal passes for a delivery.
* A tracker that gives up leaves its step "confirming" while the transfer is "failed": Retry is offered for a failed step only
  (taskProvider.tsx:453).
* A smart transfer is planned from the memo whatever the chains on the way forward (transferContext.tsx:624); the broker itself is not
  among the chains whose forwarding is tested (pathfinder.go:603). `CompletedIsDelivered` and `TokensStayReachable` say what still holds.
* The contract call is built without an action after the swap when there are no outbound legs (useTransactionConstr.ts:148), which the
  contract may refuse: `SignFails`.
* A health check whose body does not arrive is not covered by its timer (health/route.ts:99, 168).
* 16 attempts with their pauses outlast the write timeout of the server (rpc.go:213); it is not modelled, for want of time in `SqsClient`.
* `rand.Intn(0)` stops the generator when a chain has no valid endpoint (enriched/builder.go:171); endpoint validation is not modelled.

## Proofs

| Theorem | Module | Establishes, for every value of the constants |
|---|---|---|
| `TypeCorrect` | TransferExecution_proofs | `Spec => []TypeOK` |
| `ExclusiveExecution` | TransferExecution_proofs | `Spec => []ExecutionIsExclusive` |
| `NoBlindResends` | TransferExecution_proofs | `Spec => []NoBlindResend` |
| `OrderedSteps` | TransferExecution_proofs | `Spec => []StepsInOrder` |
| `PageFollows` | TransferExecution_proofs | `Spec => []PageFollowsRun` |
| `OneRun` | TransferExecution_proofs | `Spec => []OneRunPerRecord` |
| `CompletedAreRecorded` | TransferExecution_proofs | `Spec => []CompletedIsRecorded` |
| `HistoryImplemented` | TransferExecution_proofs | `Spec => ImplementsHistory`: the records refine `TransferHistory` |
| `IndexIsBuilt` | RouteSteps_proofs | the index is empty or the one built from the configuration, whatever is asked |
| `SearchIsTyped` | RouteSteps_proofs | `Spec => []TypeOK` |
| `TokensArrive` | RouteSteps_proofs | `Spec => []IndexedTokensArrive`, if no configuration forwards IBC tokens (`NativesOnly`) |
| `TokensComeBack` | RouteSteps_proofs | `Spec => []TokensReturnHome`, if no chain lists a token of its own as an IBC token (`OwnAreNative`) |
| `ConfiguredChainsArePassed` | RouteSteps_proofs | `Spec => []PassesConfiguredChains` |
| `OneHopIsEnough` | RouteSteps_proofs | `Spec => []OneHopWhenPossible`, under `NativesOnly` |
| `SwapsAreNeeded` | RouteSteps_proofs | `Spec => []SwapsOnlyWhenNeeded`, under `NativesOnly` |
| `StepsImplementFinding` | RouteSteps_proofs | `StepsSpec => Spec`: the composition of client and server is, to the server, one of its callers |
| `StepsTokensArrive` | RouteSteps_proofs | `StepsSpec => []IndexedTokensArrive`, under `NativesOnly` |
| `StepsAreTyped` | RouteSteps_proofs | `StepsSpec => []StepsTypeOK` |
| `TokensAreReachable` | RouteSteps_proofs | `StepsSpec => []TokensStayReachable` |
| `AnnouncementsAreKept` | RouteSteps_proofs | `StepsSpec => []AnnouncedAreSigned` |
| `CompletedAreDelivered` | RouteSteps_proofs | `StepsSpec => []CompletedIsDelivered`, under `NativesOnly` |
| `BreaksComeAfterSwaps` | RouteSteps_proofs | `StepsSpec => []BreaksAfterSwapOnly`, under `NativesOnly` |
| `QuotesAreCurrent` | QuoteSubmit_proofs | `Spec => []QuoteIsCurrent` |
| `ContextFollows` | QuoteSubmit_proofs | `Spec => []ContextIsShown` |
| `TrackerFollowsOurs` | IbcTracking_proofs | `Spec => []FollowsOurs` |
| `StopsAreRejections` | IbcTracking_proofs | `Spec => []StopsWhereRejected` |
| `NewestAreKept` | TransactionDb_proofs | `Spec => []NewestKept` |
| `PanelsShowLatest` | TransactionDb_proofs | `Spec => []PanelShowsLatest` |
| `SavedRestorable` | WalletConnections_proofs | `Spec => []SavedIsRestorable` |
| `CalmUse` | WalletConnections_proofs | `Spec => []CalmUseHasOneWallet` |
| `ListStaysSound` | SqsClient_proofs | `Spec => []ListIsSound` |
| `RecentAnswers` | HealthCache_proofs | `Spec => []AnswersAreRecent` |
| `CacheStaysCurrent` | HealthCache_proofs | `Spec => []CacheKeepsUp` |

Every safety invariant that a run checks is among them, and so is the refinement of `TransferHistory`. The theorems are
about the specification without fairness, which those the runs check imply.

*TransferExecution.* `TypeOK` is inductive by itself; the work is in lemmas about the operators the actions
are made of (`UpdateStepType`, `EnterLoopType`, `CompleteStepType`, `RequestType`, ...), one per operator, and a
case per action. `ExecutionIsExclusive` is inductive together with `TypeOK`: the lock is held *exactly* while the page
has an executeTransfer in flight. The equivalence, not just exclusion, is needed: `Start` may act only on a free
lock, which must mean that no call is in flight, and `Finish` may free it only because its call was the only one. What a
coroutine does between two awaits keeps the kind of call it is (`SuspendKeeps`, `EnterLoopKeeps`); only the first
and the last stretch touch the lock. Assumptions: plans are sequences of ways of tracking, a path has at least two
chains, `Null` is no number.

*TransferExecution, delivery.* Five properties, most of which need one another, come from one inductive invariant, `DeliveryInv`. Each record's row on the chains is safe
(`RowOK`). A coroutine's own copy of the steps, which it took when it started, agrees with that row (`PlanOK`): what is before its index was seen done, what is after
it was never sent, and what it is about to send is on no chain without the client's knowledge. The page agrees too (`PageOK`, `OnPage`), because Retry takes
its copy from there. And two coroutines keep out of each other's way (`Apart`, `Elsewhere`). That is where the interleavings are: a coroutine that only records a failure may share
the page with the executeTransfer started after it, or its record with the retry started after it. Nothing goes wrong because its request is *ahead* of theirs in
IndexedDB's queue, so it is done before they act; the first part of the module shows what joins and leaves that queue keep of the order
(`InLine`, `Ahead`). `OneRun` adds that without failing requests nobody is in retryStep's handler, and `CompletedAreRecorded` that the record of
a completed transfer is a success that no coroutine works on any more.

*TransferHistory.* `HistoryImplemented` maps a record to its status and counters, to the number of its steps that are settled, and to the refused ones. Most steps leave all of that alone;
`Opens`, `OneSettled` and `Recorded` say what must change for a step of the history. The invariant `HistoryInv` says what the record of a working coroutine is
meanwhile: in progress (or failed, before a retry resumes it), its counter at the step before the coroutine's, nothing settled from there on but the
step being recorded. With `PlanOK` that makes the number of settled steps exact (`RecordFacts`, `Counted`), which `Advance` and
`Succeed` ask for. `RetryOK` says the same of a step that Retry may take over.

*RouteFinding, the index.* `IndexInv` says that the index is `BuildIndex(network)` once it is there; only `Load` writes
it. The rest is about denominations: a native token gains one layer on the way out, which is the denomination
`computeIBCDenom` hashes (`NativeArrives`), and loses it on the way back (`WrappedUnwinds`); without
forwarded tokens every token allowed on a route is one of these two (`AllowedAreSentOrUnwound`). `NativesOnly` is
not a convenience: a chain that forwards an IBC token writes the hash of a hash, which is another denomination.
`TokensComeBack` does without it, since it compares two entries of the same configuration; but a chain that listed a token of its own among the IBC
tokens it forwards would send it out by one rule and take it back by another, hence `OwnAreNative`. Any number of chains, any links, any
restrictions, and any set of chains that failed to build.

*RouteFinding, the types.* `TypeOK` is derived and not inductive. That the index holds tokens with denominations (`IndexIsTyped`) follows from what each part of
`BuildAllowedTokensForRoute` makes of a well-formed configuration (`BuiltTokensAreTyped`), forwarded tokens included: a hash of a hash is a denomination too.
Only a chain's own tokens lack the denomination of another chain, and `AnswersAreTyped` shows that no leg takes it from one of these. `HeldInv` says that the request, the broker route that is
tried and the answer are of the request that is served, and nothing is left of an earlier one. Assumption: configurations are well formed.

*RouteFinding, the search.* Three invariants of the breadth-first search: the queue holds non-empty paths of chains, however long (`PathsInv`); they are simple paths
over visited chains along which the token may travel (`SearchInv`); and nothing is left out (`BreadthInv`): every visited chain waits at the end of a path in the queue
or has shown all the neighbours that the token *surely* reaches. The last is what makes an empty queue mean something
(`SearchedInVain`). `SwapsOnlyWhenNeeded` compares that with `Carried`, the chains and denominations that transfers reach in as many hops as there
are chains, which is a recursive function: `CarriedStaysWithin` shows, by the least number of hops that would leave it, that all of it is within
any set that holds the request and is closed under single hops, and `CarriedIsReached` that what a search in vain has visited is such a
set. There `NativesOnly` is needed, because only then does a denomination tell which token it is (`DenomsIdentify`), and the search goes by
tokens where the property goes by denominations. `OneHopWhenPossible` needs more than that nothing is left out: while one hop would do,
a path that ends at the destination has two chains, because the first node that is explored is the source.

*RouteFinding, the answers.* `ResponseInv`: an answer is one of the four that FindPath gives, to the request and from the index that are still there, and when the
broker is asked the other searches have found nothing. From the kinds alone `AnswersLead` derives the *journey*: a list of stops that starts and ends where the request
does, each leg leading from its stop to the next, every stop configured (`JourneyStops`), and what the answer's path shows of
them (`PathFits`: all of them, but the chain that the path of a swap leaves out). `AnswersDeliver` adds the denominations: those that ICS-20 and the swap make of
the requested token from stop to stop, the last one being what was asked for, and which of them the legs name. The second leg behind the swap is the exception, as the
disagreement `steps_legs` shows.

*RouteSteps.* A step of the client leaves the server alone or is one of the server's, hence `StepsImplementFinding`, and what holds of
`RouteFinding` carries over (`ServerInv`). `AnswerInv`: a contract or a memo is there only for the swap of a smart answer, a contract just when the swap comes first.
`TaskInv` has five parts. The steps are those generated from the answer that is still there (`TaskFits`); the position in them is that of a leg of the
journey (`PositionFits`); the token is on the stop of that position, and as long as nobody forwards tokens of others has the denomination the journey gives it (`TokenFits`);
the chains it has met in this step are the stops since the step began (`TrailFits`); and when a packet was refused, the token is not
where a next step would send it from, and behind the last step the destination is among the chains that received one (`RefundFits`). Given these, `GeneratedSteps` shows that every step takes at least one leg,
all of them legs of the answer, and that there are as many as announced; `LegsOfSteps` that they are the next ones; and `LegsEndOnRequired` that every leg ends on a chain the form
requires. The hard case of `CompletedIsDelivered` is the transfer that is one step and is followed along a path that leaves a chain out: `TrackedToTheEnd` shows that the
tracker nevertheless confirms only a token that came to the end, because the chains the token has met include the one its path lacks.
`RefusedConfirmed` is the other one: a refused packet that is confirmed was received by the last watched chain of the last step, which is the requested one (`LastIsWatched`).
`BreaksComeAfterSwaps` has `BreakInv`, in terms of the position, and `StepsCanPay`: up to the second leg behind the swap
the token has the denomination that the leg names. Only the two theorems about denominations need `NativesOnly`.

*WalletConnections.* `SavedRestorable`: only `DisconnectAll` removes the saved type, and it removes all chains; keys are saved together with the type.
`CalmUse` needs `CalmInv`: while users wait for their wallets, localStorage holds chains of the saved wallet only, every tab's connections and
waiting reconnections belong to the tab's wallet, and a call that is under way has a snapshot of that same wallet and a saved type that is free or its own. That last
part is what the check before the awaits establishes, and what a second click during the awaits would break.

*SqsClient.* `ListIsSound` speaks of the list between two checks and is not inductive: `ListInv` adds what the array holds
at each point of a removal. At rest it holds all endpoints in all slots, or the backups in all but the last. While the
later elements move down, the slots *other than the one written next* hold every backup once; that slot holds the primary,
then copies of what moved. `FindPrimary` establishes this, `MoveDown` keeps it, `ClearLast` and `Shorten` end it. That the
list at rest has one of two lengths also shows that appending the primary never needs a longer array. Assumption: the
configured endpoints differ, and there are at least two.

*QuoteSubmit.* `QuoteIsCurrent` is not inductive, as a request that is answered later may change what is shown. `HookFits` says of the instance the form shows
that its latest request is for its debounced amount, and that what it holds, once it does not wait, is that amount's quote. This holds while the query is
enabled only: emptying the form leaves the request in flight the latest one, and it may still be answered; but no form can be submitted before the
instance has sent another (`FetchFits`), and requests are numbered (`RequestsAreOld`), so that the other one no longer counts. `ContextIsShown` needs
the types only. Assumption: texts have worths, one of them none.

*IbcTracking.* `Inv` relates the transactions of the relayers to the transfers (`ReceivedFits`: what was received has come that far), to what they sent
(`SentFits`: our packet alone was sent on as ours alone, or our transfer was rejected there, for good), and the tracker to both (`LooksForOurs`, `StaysBehind`), as long as our packets travel
alone. That this is so can only end (`RelayedStay`), so that it held at every earlier step. `FoundIsOurs` is the core: a transaction that the
query finds received the packet looked for and nothing else, so that its first send_packet event is ours. Assumptions: a path has a hop, `Null` is no packet.

*TransactionDb.* `NewestKept` is inductive with the range of the ids (`StoreInv`). The work is in counting: the newest `k` of ids up to `n` that hold the last `k` are exactly these
(`NewestAreLast`), whatever older ones are stored, and sorted they count down from `n` (`DescendingInterval`). So what a panel loads
depends on the moment only, not on which cleanups have run (`LoadAnswers`). Assumption: the panel shows no more than the store keeps.

*HealthCache.* Both theorems come from `TimeInv`. A check that no body stalled is never older than its timer, because the clock does not pass a request
that has waited that long (`Urgent`); hence what a request has seen is at most a timer older than the entry it writes (`CacheIsTimed`), and the entry is served only
while it is younger than the TTL. A later answer may overwrite an entry with an older view, but one that is older by no more than the timer, which is
all that `CacheKeepsUp` allows. Assumption: the TTL is positive.

Only TLC checks liveness (`PreparingEnds`, `ExecutingEnds`, `RecordsSettle`, `LoadingEnds`, `AskedIsAnswered`, `RestoringEnds`, `WritesSettle`,
`ListFollowsPrimary`, `SwitchesToBackups`, `RequestsEnd`, `CloseReturns`), which with ENABLED is beyond the prover, the action property `HopProgressGrows`, and the four disagreements, which are behaviours to be
found and not properties to be proved.

## Not modelled

Rendering, wording and formatting, logging, tracing and metrics; generated protobuf code; gas and fees; the amounts of swaps; the data in `chain_configs`; Docker
and release files. Of the 34 thousand lines of TypeScript, 23 thousand are generated protobuf code and most of the rest is rendering, so that the
mapped lines are a small share of them; the pathfinder and the config manager are Go. In particular:

* Execution data: minimum outputs, receivers and recovery addresses, and the nesting of the JSON memos (pathfinder.go 669-1149, `ibc_memo`). `RouteSteps` models
  that an answer has a memo, a contract call or neither, and where they make the token go. What the inner levels say is data that is sent and never read back by this code.
* Time, except in `HealthCache` and as timers that may fire: the server's timeouts against the retries of its queries.
* Endpoint validation (`config_manager/validator`): points, majorities and thresholds over one batch of answers, computed once, with nothing concurrent.
* The readers of the health route's answer, which take its first endpoint; a version change of IndexedDB, which no release has made.
* The form's chains, tokens, addresses and slippage, which are fixed in `QuoteSubmit`.
* The mutex is used by no code. Registry, Keplr and node queries are single requests without state.

## Plan

Done: all modules above, and proofs of all their safety invariants. What would add most now:

1. Proofs: abstract specifications of the remaining components, as `TransferHistory` is one of the records, with their refinement: a
   packet that is followed, a quote that is handed over.
2. Memos: the nested memo of a smart route, executed on the chains, refines the answer's journey; with receivers, recovery addresses and minimum outputs.
3. Endpoint validation: majorities on ties, thresholds, an empty list of endpoints.
4. Server timeouts: `SqsClient` under a clock.
