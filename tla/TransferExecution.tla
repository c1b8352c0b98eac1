-------------------------- MODULE TransferExecution --------------------------
(***************************************************************************)
(* The execution of a transfer in the client: the coroutines of            *)
(* client_app/src/context/taskProvider.tsx (executeTransfer, retryStep and *)
(* the executeStepsWithTracking loop they share), the reducer of           *)
(* client_app/src/context/transferContext.tsx they dispatch to, the        *)
(* IndexedDB record they keep (lib/indexDb/dbManager.ts) and the tracker   *)
(* view that starts, retries and leaves them (transferTracker.tsx).        *)
(*                                                                         *)
(* A JavaScript coroutine runs without interruption from one await to the  *)
(* next, so an action is the code between two awaits.  A step of a plan is *)
(* abstracted to how its delivery is tracked: "none" (a swap, or a transfer*)
(* whose destination is not configured), "single" (one IBC hop) or "multi" *)
(* (one transaction that crosses several chains).                          *)
(***************************************************************************)
EXTENDS Naturals, Sequences, FiniteSets

CONSTANTS
    Runs,        \* coroutine slots: calls of executeTransfer or retryStep in flight
    Plans,       \* step lists generateStepsFromResponse may return
    Null,        \* JavaScript's null
    Chains,      \* length of the path of a "multi" step
    MaxRecords,  \* bound: records added to the history
    MaxRetries,  \* bound: clicks on Retry
    MaxExits,    \* bound: times the page is reloaded or left
    MaxDbErrors, \* bound: IndexedDB requests that fail
    MaxRefused   \* bound: steps that are taken for done and did not arrive

Tracking == {"none", "single", "multi"}

ASSUME NullAssumption    == Null \notin Nat
ASSUME PlansAssumption   == Plans \subseteq Seq(Tracking)
ASSUME ChainsAssumption  == Chains \in Nat /\ Chains >= 2
ASSUME BoundsAssumption  == 
    {MaxRecords, MaxRetries, MaxExits, MaxDbErrors, MaxRefused} \subseteq Nat

Ids == 1 .. MaxRecords

VARIABLES
    \* TransferState, the React state of the page
    phase, steps, currentStepIndex, dbRecordId, multiHopProgress,
    \* whether the page's pathfinderResponse holds the quote that was submitted
    quoted,
    \* TaskProvider: the connection, the execution lock and the coroutines
    dbReady, executionLock, run,
    \* the "transactions" object store and the number of records ever added
    db, added,
    \* its read-write transactions that have not committed, oldest first:
    \* IndexedDB runs them in the order they were created
    queue,
    \* the chains: how often a step's transaction was included, and how often
    \* that happened without the client learning of it
    moved, lost,
    \* history variables: the steps the client takes for done, and those of them
    \* whose tokens are not where the step takes them
    confirmed, refused,
    \* records whose coroutine was cut short by a reload or a failed request
    orphaned,
    \* consumed bounds
    retries, exits, dbErrors

ui     == <<phase, steps, currentStepIndex, dbRecordId, multiHopProgress, quoted>>
chain  == <<moved, lost, confirmed, refused>>
store  == <<db, added, queue>>
budget == <<retries, exits, dbErrors>>
vars   == <<ui, dbReady, executionLock, run, store, chain, orphaned, budget>>

----------------------------------------------------------------------------
(* Data *)

Phases   == {"idle", "preparing", "executing", "tracking", "completed", "failed"}
Statuses == {"pending", "signing", "confirming", "completed", "failed"}
Step     == [track : Tracking, status : Statuses]
Progress == 0 .. Chains

\* The awaits a coroutine can be suspended at.  The ones in Awaiting wait for
\* an IndexedDB request, "sending" for the wallet, "tracking" for the tracker.
Awaiting == {"adding", "resuming", "hopstart", "recording", "failing",
             "giveup", "succeeding", "catching"}
\* The awaits between two of which a coroutine works on the steps.
Working  == {"resuming", "sending", "hopstart", "tracking", "recording",
             "failing", "succeeding"}
Run      == [pc : {"free", "sending", "tracking"} \cup Awaiting, retry : BOOLEAN,
             shown : BOOLEAN, id : Ids \cup {Null}, todo : Seq(Step), i : Nat,
             landed : BOOLEAN, hop : Progress]
Free     == [pc |-> "free", retry |-> FALSE, shown |-> TRUE, id |-> Null,
             todo |-> <<>>, i |-> 0, landed |-> FALSE, hop |-> 0]

\* A request made by a coroutine: the one it awaits, or a progress write.
Entry            == [by : Runs, hop : Progress \cup {Null}]
Awaited(r)       == [by |-> r, hop |-> Null]
HopWrite(r, hop) == [by |-> r, hop |-> hop]

\* TransactionRecord: what a step's progress changes of it.
Record   == [status : {"absent", "in-progress", "failed", "success"},
             currentStep : Nat, totalSteps : Nat, error : BOOLEAN,
             hops : Progress \cup {Null}]
NoRecord == [status |-> "absent", currentStep |-> 0, totalSteps |-> 0,
             error |-> FALSE, hops |-> Null]

\* The steps of a freshly generated plan.
Fresh(plan) == [j \in DOMAIN plan |-> [track |-> plan[j], status |-> "pending"]]

\* UPDATE_STEP of the reducer.  JavaScript would extend the array for an index
\* it does not have; PageFollowsRun shows that this never happens.
UpdateStep(ss, j, status) == [ss EXCEPT ![j].status = status]

\* k is where the loop goes on from j: completed steps are skipped, and
\* Len(todo) + 1 means that no step is left.
GoesOnAt(todo, j, k) ==
    /\ k \in j .. Len(todo) + 1
    /\ k <= Len(todo) => todo[k].status # "completed"
    /\ \A m \in j .. k - 1 : todo[m].status = "completed"

----------------------------------------------------------------------------
(* Initial state: a page just loaded, an empty history *)

\* Mutant: a page without a record has record 0.
FreshPage_RecordZero ==
    /\ phase' = "idle" /\ steps' = <<>> /\ currentStepIndex' = 0
    /\ dbRecordId' = 0 /\ multiHopProgress' = Null /\ quoted' = FALSE

FreshPage ==
    /\ phase' = "idle" /\ steps' = <<>> /\ currentStepIndex' = 0
    /\ dbRecordId' = Null /\ multiHopProgress' = Null /\ quoted' = FALSE

Init ==
    /\ phase = "idle" /\ steps = <<>> /\ currentStepIndex = 0
    /\ dbRecordId = Null /\ multiHopProgress = Null /\ quoted = FALSE
    /\ dbReady = FALSE /\ executionLock = FALSE
    /\ run = [r \in Runs |-> Free]
    /\ db = [id \in Ids |-> NoRecord] /\ added = 0 /\ queue = <<>>
    /\ moved = [id \in Ids |-> <<>>]
    /\ lost = [id \in Ids |-> <<>>]
    /\ confirmed = [id \in Ids |-> <<>>]
    /\ refused = {}
    /\ orphaned = {}
    /\ retries = 0 /\ exits = 0 /\ dbErrors = 0

----------------------------------------------------------------------------
(* Pieces the coroutines share *)

\* What a coroutine dispatches reaches the page it was started from, as long as
\* that page is mounted.
Shows(r, variable, value) == IF run[r].shown THEN value ELSE variable
ShowPhase(r, p)  == phase' = Shows(r, phase, p)
ShowSteps(r, ss) == steps' = Shows(r, steps, ss)
ShowHops(r, h)   == multiHopProgress' = Shows(r, multiHopProgress, h)

\* executeTransfer on the mounted page: its finally block releases the lock.
\* retryStep never holds it, and a page that is gone took its own lock along.
Executes(r) == run[r].pc # "free" /\ run[r].shown /\ ~run[r].retry

Unlocked_Always == TRUE
Unlocked == ~executionLock

\* Mutant: the lock stays behind.
Finish_KeepsLock(r) ==
    /\ run' = [run EXCEPT ![r] = Free]
    /\ UNCHANGED executionLock

Finish(r) ==
    /\ run' = [run EXCEPT ![r] = Free]
    /\ executionLock' = IF Executes(r) THEN FALSE ELSE executionLock

\* The coroutine goes on to its next await; at one of Awaiting its request
\* joins those in q.
Suspend(r, rn, pc) == run' = [run EXCEPT ![r] = [rn EXCEPT !.pc = pc]]

Request(r, rn, pc, q) ==
    /\ Suspend(r, rn, pc)
    /\ queue' = Append(q, Awaited(r))

\* The loop of executeStepsWithTracking, entered at j with the steps shown in
\* ss and the requests q: the next step is marked "signing" and handed to the
\* wallet, or nothing is left and the caller records the success.
EnterLoop(r, rn, j, ss, q) ==
    \E k \in j .. Len(rn.todo) + 1 :
        /\ GoesOnAt(rn.todo, j, k)
        /\ IF k <= Len(rn.todo)
           THEN /\ ShowSteps(r, UpdateStep(ss, k, "signing"))
                /\ Suspend(r, [rn EXCEPT !.i = k, !.landed = FALSE], "sending")
                /\ queue' = q
           ELSE /\ ShowSteps(r, ss)
                /\ Request(r, [rn EXCEPT !.i = k], "succeeding", q)

\* The oldest request is the one the coroutine awaits, and it settles.
Settles(r) == run[r].pc \in Awaiting /\ queue # <<>> /\ Head(queue) = Awaited(r)

\* UpdateTransactionStatus on the coroutine's record commits.
Writes(r, change) ==
    /\ Settles(r)
    /\ db' = [db EXCEPT ![run[r].id] = change]
    /\ UNCHANGED added

----------------------------------------------------------------------------
(* The tracker view: transferTracker.tsx, TransferPageClient.tsx, senderUi.tsx *)

\* The send form hands over a route (START_PREPARING).  The effect that copies
\* the form into the context empties pathfinderResponse; when it runs after the
\* quote was copied, before the tracker view is mounted, the quote is gone.
Submit ==
    /\ phase = "idle"
    /\ added + Cardinality({r \in Runs : run[r].pc = "adding"}) < MaxRecords
    /\ phase' = "preparing"
    /\ quoted' \in BOOLEAN
    /\ UNCHANGED <<steps, currentStepIndex, dbRecordId, multiHopProgress, dbReady,
                   executionLock, run, store, chain, orphaned, budget>>

\* The effect of the tracker view calls executeTransfer while the phase is
\* "preparing" and there is a quote; it fires again whenever the task provider
\* re-renders, and a call that finds the lock taken changes nothing.
ExecuteTransfer(r, plan) ==
    /\ phase = "preparing" /\ quoted /\ run[r].pc = "free"
    /\ \/ /\ ~dbReady \/ (Unlocked /\ plan = <<>>)
          /\ phase' = "failed"
          /\ UNCHANGED <<run, executionLock, queue>>
       \/ /\ dbReady /\ Unlocked /\ plan # <<>>
          /\ executionLock' = TRUE
          /\ Request(r, [Free EXCEPT !.todo = Fresh(plan)], "adding", queue)
          /\ UNCHANGED phase
    /\ UNCHANGED <<steps, currentStepIndex, dbRecordId, multiHopProgress, quoted, dbReady, db,
                   added, chain, orphaned, budget>>

\* Mutants: Retry is offered for whatever step the transfer failed at, or as
\* soon as a step failed.
CanRetry_AnyStep == phase = "failed" /\ currentStepIndex < Len(steps)
CanRetry_AnyPhase ==
    /\ currentStepIndex < Len(steps)
    /\ steps[currentStepIndex + 1].status = "failed"

CanRetry ==
    /\ phase = "failed"
    /\ currentStepIndex < Len(steps)
    /\ steps[currentStepIndex + 1].status = "failed"

RetryFrom_Next == currentStepIndex + 2  \* mutant: the failed step is skipped
RetryFrom == currentStepIndex + 1

\* The Retry button: RESUME_TRANSFER, then the record is marked in-progress.
\* Without a record retryStep would run unrecorded; PageFollowsRun excludes it.
RetryStep(r) ==
    /\ CanRetry /\ dbRecordId # Null /\ dbReady
    /\ run[r].pc = "free" /\ retries < MaxRetries
    /\ phase' = "executing"
    /\ Request(r, [Free EXCEPT !.retry = TRUE, !.id = dbRecordId, !.todo = steps,
                               !.i = RetryFrom], "resuming", queue)
    /\ retries' = retries + 1
    /\ UNCHANGED <<steps, currentStepIndex, dbRecordId, multiHopProgress, quoted, dbReady,
                   executionLock, db, added, chain, orphaned, exits, dbErrors>>

CanGoBack_Always == phase # "idle"  \* mutant: Back is always offered
CanGoBack == phase \in {"completed", "failed"}

\* The Back button (RESET), offered only when the transfer ended.
Back ==
    /\ CanGoBack
    /\ FreshPage
    /\ UNCHANGED <<dbReady, executionLock, run, store, chain, orphaned, budget>>

\* A new page is mounted: its state, its connection and its lock are new.
NewPage ==
    /\ exits < MaxExits /\ exits' = exits + 1
    /\ FreshPage
    /\ dbReady' = FALSE /\ executionLock' = FALSE
    /\ UNCHANGED <<db, added, chain, retries, dbErrors>>

\* The user reloads or closes the page at any time: every coroutine of it is
\* lost, the history and the chains are not.
Reload ==
    /\ NewPage
    /\ run' = [r \in Runs |-> Free] /\ queue' = <<>>
    /\ orphaned' = orphaned \cup ({run[r].id : r \in Runs} \cap Ids)

\* The user goes to another page of the application and comes back: the
\* coroutines live on, with nobody to show their progress.
Leave ==
    /\ NewPage
    /\ run' = [r \in Runs |-> IF run[r].pc = "free" THEN Free
                              ELSE [run[r] EXCEPT !.shown = FALSE]]
    /\ UNCHANGED <<queue, orphaned>>

\* ConnectToDb resolves.
OpenDb ==
    /\ ~dbReady /\ dbReady' = TRUE
    /\ UNCHANGED <<ui, executionLock, run, store, chain, orphaned, budget>>

----------------------------------------------------------------------------
(* executeStepsWithTracking *)

\* AddTransactionToDb resolves with the new id: START_EXECUTING, then the loop.
RecordAdded(r) ==
    LET id == added + 1
        rn == [run[r] EXCEPT !.id = id]
        ones(x) == [j \in DOMAIN rn.todo |-> x]
    IN  /\ run[r].pc = "adding" /\ Settles(r)
        /\ id \in Ids
        /\ added' = id
        /\ db' = [db EXCEPT ![id] = [NoRecord EXCEPT !.status = "in-progress",
                                                     !.totalSteps = Len(rn.todo)]]
        /\ ShowPhase(r, "executing")
        /\ currentStepIndex' = Shows(r, currentStepIndex, 0)
        /\ dbRecordId' = Shows(r, dbRecordId, id)
        /\ EnterLoop(r, rn, 1, rn.todo, Tail(queue))
        /\ moved' = [moved EXCEPT ![id] = ones(0)]
        /\ lost' = [lost EXCEPT ![id] = ones(0)]
        /\ confirmed' = [confirmed EXCEPT ![id] = ones(FALSE)]
        /\ UNCHANGED <<multiHopProgress, quoted, dbReady, executionLock, refused, orphaned,
                       budget>>

\* Mutant: a retried record starts over.
Resumed_StartsOver(r) ==
    /\ run[r].pc = "resuming"
    /\ Writes(r, [db[run[r].id] EXCEPT !.status = "in-progress", !.currentStep = 0])
    /\ EnterLoop(r, run[r], run[r].i, steps, Tail(queue))
    /\ UNCHANGED <<phase, currentStepIndex, dbRecordId, multiHopProgress, quoted, dbReady,
                   executionLock, chain, orphaned, budget>>

\* The retried record is in-progress again, its error cleared: the loop is
\* re-entered at the step that failed.
Resumed(r) ==
    /\ run[r].pc = "resuming"
    /\ Writes(r, [db[run[r].id] EXCEPT !.status = "in-progress", !.error = FALSE])
    /\ EnterLoop(r, run[r], run[r].i, steps, Tail(queue))
    /\ UNCHANGED <<phase, currentStepIndex, dbRecordId, multiHopProgress, quoted, dbReady,
                   executionLock, chain, orphaned, budget>>

\* The chain includes the transaction with code 0, whether or not the client
\* ever learns of it.
ChainAccepts(r) ==
    /\ run[r].pc = "sending" /\ ~run[r].landed
    /\ run' = [run EXCEPT ![r].landed = TRUE]
    /\ moved' = [moved EXCEPT ![run[r].id][run[r].i] = @ + 1]
    /\ UNCHANGED <<ui, dbReady, executionLock, store, lost, confirmed, refused, orphaned,
                   budget>>

\* What follows a step that needs no (further) tracking.  The client takes it
\* for done.  Its tokens may nevertheless not have arrived: the tracker confirms
\* a packet that its last chain answered with an error, and that is refunded, as
\* the transaction that received it has code 0; a transfer to a chain that is not
\* configured is not followed at all.
CompleteStep(r, rn, q) ==
    /\ ShowSteps(r, UpdateStep(steps, rn.i, "completed"))
    /\ confirmed' = [confirmed EXCEPT ![rn.id][rn.i] = TRUE]
    /\ \/ UNCHANGED refused
       \/ /\ Cardinality(refused) < MaxRefused
          /\ refused' = refused \cup {<<rn.id, rn.i>>}
    /\ Request(r, rn, "recording", q)

\* executeStep returns success with a transaction hash.
SendSucceeds(r) ==
    LET rn == run[r]
        track == rn.todo[rn.i].track
    IN  /\ rn.pc = "sending" /\ rn.landed
        /\ \/ /\ track = "none"
              /\ CompleteStep(r, rn, queue)
              /\ UNCHANGED multiHopProgress
           \/ /\ track = "single"
              /\ ShowSteps(r, UpdateStep(steps, rn.i, "confirming"))
              /\ Suspend(r, rn, "tracking")
              /\ UNCHANGED <<multiHopProgress, confirmed, refused, queue>>
           \/ /\ track = "multi"
              /\ ShowSteps(r, UpdateStep(steps, rn.i, "confirming"))
              /\ ShowHops(r, 0)
              /\ Request(r, [rn EXCEPT !.hop = 0], "hopstart", queue)
              /\ UNCHANGED <<confirmed, refused>>
        /\ UNCHANGED <<phase, currentStepIndex, dbRecordId, quoted, dbReady, executionLock,
                       db, added, moved, lost, orphaned, budget>>

\* executeStep returns a failure: the wallet is not connected, the user
\* rejects, the transaction fails on chain, or it was broadcast and the answer
\* did not arrive in time.
SendFails(r) ==
    LET rn == run[r] IN
    /\ rn.pc = "sending"
    /\ ShowSteps(r, UpdateStep(steps, rn.i, "failed"))
    /\ Request(r, rn, "failing", queue)
    /\ lost' = IF rn.landed THEN [lost EXCEPT ![rn.id][rn.i] = @ + 1] ELSE lost
    /\ UNCHANGED <<phase, currentStepIndex, dbRecordId, multiHopProgress, quoted, dbReady,
                   executionLock, db, added, moved, confirmed, refused, orphaned, budget>>

\* The record shows 0 % before the hops are followed.
HopsStarted(r) ==
    /\ run[r].pc = "hopstart"
    /\ Writes(r, [db[run[r].id] EXCEPT !.hops = 0])
    /\ Suspend(r, run[r], "tracking")
    /\ queue' = Tail(queue)
    /\ UNCHANGED <<ui, dbReady, executionLock, chain, orphaned, budget>>

\* onHopComplete for an intermediate chain: the write is not awaited.
HopConfirmed(r) ==
    LET rn == run[r]
        hop == rn.hop + 1
    IN  /\ rn.pc = "tracking" /\ rn.todo[rn.i].track = "multi"
        /\ hop < Chains - 1
        /\ ShowHops(r, hop)
        /\ run' = [run EXCEPT ![r].hop = hop]
        /\ queue' = Append(queue, HopWrite(r, hop))
        /\ UNCHANGED <<phase, steps, currentStepIndex, dbRecordId, quoted, dbReady,
                       executionLock, db, added, chain, orphaned, budget>>

\* Mutant: the whole path is reported before its last hop.
LastHops_Swapped(r) == <<HopWrite(r, Chains), HopWrite(r, Chains - 1)>>

\* onHopComplete for the last hop, then for the whole path.
LastHops(r) == <<HopWrite(r, Chains - 1), HopWrite(r, Chains)>>

\* The tracker found a transaction of code 0 that received the packet on the
\* last chain of the step.
TrackingSucceeds(r) ==
    LET rn == run[r] IN
    /\ rn.pc = "tracking"
    /\ \/ /\ rn.todo[rn.i].track = "multi" /\ rn.hop + 1 = Chains - 1
          /\ CompleteStep(r, rn, queue \o LastHops(r))
          /\ ShowHops(r, Null)
       \/ /\ rn.todo[rn.i].track # "multi"
          /\ CompleteStep(r, rn, queue)
          /\ UNCHANGED multiHopProgress
    /\ UNCHANGED <<phase, currentStepIndex, dbRecordId, quoted, dbReady, executionLock,
                   db, added, moved, lost, orphaned, budget>>

\* Tracking timed out, ran out of attempts or saw the packet fail.
TrackingFails(r) ==
    LET rn == run[r] IN
    /\ rn.pc = "tracking"
    /\ ShowPhase(r, "failed")
    /\ ShowHops(r, IF rn.todo[rn.i].track = "multi" THEN Null ELSE multiHopProgress)
    /\ Request(r, rn, "giveup", queue)
    /\ UNCHANGED <<steps, currentStepIndex, dbRecordId, quoted, dbReady, executionLock, db,
                   added, chain, orphaned, budget>>

\* The step is recorded; ADVANCE_STEP unless it was the last, then the loop.
StepRecorded(r) ==
    LET rn == run[r]
        next == currentStepIndex + 1
    IN  /\ rn.pc = "recording"
        /\ Writes(r, [db[rn.id] EXCEPT !.currentStep = rn.i])
        /\ IF rn.i < Len(rn.todo)
           THEN /\ currentStepIndex' = Shows(r, currentStepIndex, next)
                /\ ShowPhase(r, IF next >= Len(steps) THEN "tracking" ELSE phase)
           ELSE UNCHANGED <<currentStepIndex, phase>>
        /\ EnterLoop(r, rn, rn.i + 1, steps, Tail(queue))
        /\ UNCHANGED <<dbRecordId, multiHopProgress, quoted, dbReady, executionLock, chain,
                       orphaned, budget>>

\* Mutant: the failure is recorded and not shown.
FailureRecorded_Silent(r) ==
    /\ run[r].pc = "failing"
    /\ Writes(r, [db[run[r].id] EXCEPT !.status = "failed", !.error = TRUE])
    /\ Finish(r)
    /\ queue' = Tail(queue)
    /\ UNCHANGED <<ui, dbReady, chain, orphaned, budget>>

\* The failure of a step is recorded, then shown; the coroutine returns.
FailureRecorded(r) ==
    /\ run[r].pc = "failing"
    /\ Writes(r, [db[run[r].id] EXCEPT !.status = "failed", !.error = TRUE])
    /\ ShowPhase(r, "failed")
    /\ Finish(r)
    /\ queue' = Tail(queue)
    /\ UNCHANGED <<steps, currentStepIndex, dbRecordId, multiHopProgress, quoted, dbReady,
                   chain, orphaned, budget>>

\* Mutant: only the error is recorded.
GiveupRecorded_KeepsStatus(r) ==
    /\ run[r].pc \in {"giveup", "catching"}
    /\ Writes(r, [db[run[r].id] EXCEPT !.error = TRUE])
    /\ Finish(r)
    /\ queue' = Tail(queue)
    /\ UNCHANGED <<ui, dbReady, chain, orphaned, budget>>

\* The failure of the tracking was shown already, or retryStep's handler
\* showed an exception: it is recorded and the coroutine returns.
GiveupRecorded(r) ==
    /\ run[r].pc \in {"giveup", "catching"}
    /\ Writes(r, [db[run[r].id] EXCEPT !.status = "failed", !.error = TRUE])
    /\ Finish(r)
    /\ queue' = Tail(queue)
    /\ UNCHANGED <<ui, dbReady, chain, orphaned, budget>>

\* Mutant: the record only counts the steps.
SuccessRecorded_KeepsStatus(r) ==
    /\ run[r].pc = "succeeding"
    /\ Writes(r, [db[run[r].id] EXCEPT !.currentStep = Len(run[r].todo)])
    /\ ShowPhase(r, "completed")
    /\ Finish(r)
    /\ queue' = Tail(queue)
    /\ UNCHANGED <<steps, currentStepIndex, dbRecordId, multiHopProgress, quoted, dbReady,
                   chain, orphaned, budget>>

\* Every step is done: the record says so, then COMPLETE_TRANSFER.
SuccessRecorded(r) ==
    /\ run[r].pc = "succeeding"
    /\ Writes(r, [db[run[r].id] EXCEPT !.status = "success",
                                       !.currentStep = Len(run[r].todo)])
    /\ ShowPhase(r, "completed")
    /\ Finish(r)
    /\ queue' = Tail(queue)
    /\ UNCHANGED <<steps, currentStepIndex, dbRecordId, multiHopProgress, quoted, dbReady,
                   chain, orphaned, budget>>

\* The oldest request is a progress write nobody waits for: it commits, or
\* fails with a warning.
HopWriteSettles(r) ==
    LET hop == Head(queue).hop IN
    /\ queue # <<>> /\ Head(queue).by = r /\ hop # Null
    /\ queue' = Tail(queue)
    /\ \/ /\ db' = [db EXCEPT ![run[r].id].hops = hop]
          /\ UNCHANGED dbErrors
       \/ /\ dbErrors < MaxDbErrors
          /\ dbErrors' = dbErrors + 1
          /\ UNCHANGED db
    /\ UNCHANGED <<ui, dbReady, executionLock, run, added, chain, orphaned,
                   retries, exits>>

\* An awaited request fails.  The exception leaves the loop: executeTransfer
\* shows it and ends; retryStep shows it, records it and ends, unless it was
\* recording it already.
WriteRejected(r) ==
    LET rn == run[r] IN
    /\ Settles(r)
    /\ dbErrors < MaxDbErrors
    /\ dbErrors' = dbErrors + 1
    /\ IF rn.pc = "catching" THEN UNCHANGED phase ELSE ShowPhase(r, "failed")
    /\ IF rn.retry /\ rn.pc # "catching"
       THEN /\ Request(r, rn, "catching", Tail(queue))
            /\ UNCHANGED <<executionLock, orphaned>>
       ELSE /\ Finish(r)
            /\ queue' = Tail(queue)
            /\ orphaned' = orphaned \cup ({rn.id} \cap Ids)
    /\ UNCHANGED <<steps, currentStepIndex, dbRecordId, multiHopProgress, quoted, dbReady,
                   db, added, chain, retries, exits>>

----------------------------------------------------------------------------
(* Specification *)

\* What a coroutine in flight does next.
Continue(r) ==
    \/ RecordAdded(r) \/ Resumed(r)
    \/ SendSucceeds(r) \/ SendFails(r)
    \/ HopsStarted(r) \/ HopConfirmed(r) \/ TrackingSucceeds(r) \/ TrackingFails(r)
    \/ StepRecorded(r) \/ FailureRecorded(r) \/ GiveupRecorded(r) \/ SuccessRecorded(r)
    \/ HopWriteSettles(r) \/ WriteRejected(r)

Start(r) == \E plan \in Plans : ExecuteTransfer(r, plan)

Next ==
    \/ Submit \/ Back \/ Reload \/ Leave \/ OpenDb
    \/ \E r \in Runs : Start(r) \/ RetryStep(r) \/ ChainAccepts(r) \/ Continue(r)

Spec == Init /\ [][Next]_vars

\* The runtime resumes every coroutine whose await is settled: IndexedDB
\* answers, the tracker's polling is bounded by attempts and timeouts, and the
\* wallet answers a request to sign (closing its window is a rejection).  The
\* effect of the tracker view fires as long as the phase is "preparing" and there
\* is a quote.  Users owe nothing.
Fairness == \A r \in Runs : WF_vars(Continue(r)) /\ WF_vars(Start(r))

FairSpec == Spec /\ Fairness

----------------------------------------------------------------------------
(* Properties *)

\* Every variable keeps its type: TransferState, the task provider's refs and
\* TransactionRecord.
TypeOK ==
    /\ phase \in Phases
    /\ steps \in Seq(Step)
    /\ currentStepIndex \in Nat
    /\ dbRecordId \in Ids \cup {Null}
    /\ multiHopProgress \in Progress \cup {Null}
    /\ quoted \in BOOLEAN
    /\ dbReady \in BOOLEAN /\ executionLock \in BOOLEAN
    /\ run \in [Runs -> Run]
    /\ db \in [Ids -> Record]
    /\ added \in 0 .. MaxRecords
    /\ queue \in Seq(Entry)
    /\ moved \in [Ids -> Seq(Nat)] /\ lost \in [Ids -> Seq(Nat)]
    /\ confirmed \in [Ids -> Seq(BOOLEAN)]
    /\ refused \subseteq (Ids \cup {Null}) \X Nat
    /\ orphaned \subseteq Ids
    /\ retries \in Nat /\ exits \in Nat /\ dbErrors \in Nat

\* The money of a step moves twice only if the client was never told that it
\* had moved before: re-fired effects, retries and reloads send no step again
\* whose transaction they know to be on chain.
NoBlindResend ==
    \A id \in 1 .. added : \A i \in DOMAIN moved[id] : moved[id][i] <= 1 + lost[id][i]

\* A step is sent only after the client saw everything before it done, whatever
\* was retried: included with code 0 and, where its packets are followed, received
\* on their last chain.  Later steps spend what those delivered, or, where a chain
\* refused a packet, should have delivered (refused).
StepsInOrder ==
    \A id \in 1 .. added : \A i \in DOMAIN moved[id] :
        moved[id][i] > 0 => \A j \in 1 .. i - 1 : confirmed[id][j]

\* A transfer shown as completed is the one the history calls a success, with
\* every step shown as completed.
CompletedIsRecorded ==
    phase = "completed" =>
        /\ dbRecordId # Null /\ db[dbRecordId].status = "success"
        /\ \A j \in DOMAIN steps : steps[j].status = "completed"

\* As long as no IndexedDB request has failed, two coroutines never work on the
\* same record.
OneRunPerRecord ==
    dbErrors = 0 => \A r, q \in Runs :
        (r # q /\ run[r].pc # "free" /\ run[q].pc # "free" /\ run[r].id # Null)
            => run[r].id # run[q].id

\* The coroutine that sends and tracks steps is the one the page shows, however
\* many others are still recording a failure: what it writes into the page's
\* steps never lands in those of another transfer, and Retry is offered only
\* for a transfer that has a record.
PageFollowsRun ==
    /\ CanRetry => dbRecordId # Null
    /\ \A r \in Runs : run[r].pc \in Working /\ run[r].shown =>
        /\ phase = "executing" /\ dbRecordId = run[r].id
        /\ Len(steps) = Len(run[r].todo)

\* A page never has two executeTransfer in flight, and its lock is held exactly
\* while it has one.
ExecutionIsExclusive ==
    /\ \A r, q \in Runs : Executes(r) /\ Executes(q) => r = q
    /\ executionLock <=> \E r \in Runs : Executes(r)

\* The records implement the history a user is promised: TransferHistory.
ConfirmedSteps(id) == {j \in DOMAIN confirmed[id] : confirmed[id][j]}
History == INSTANCE TransferHistory WITH
    record  <- [id \in Ids |-> [status |-> db[id].status, currentStep |-> db[id].currentStep,
                                totalSteps |-> db[id].totalSteps]],
    settled <- [id \in Ids |-> Cardinality(ConfirmedSteps(id))]

ImplementsHistory == History!Spec

\* The hop counter of a record moves only while the record is in progress, and
\* forwards unless the hops of a step start at 0: the writes nobody waits for
\* never overtake, nor outlive, the awaited ones (onHopComplete in taskProvider).
HopProgressGrows ==
    [][\A id \in Ids : db'[id].hops # db[id].hops =>
        /\ db[id].status = "in-progress"
        /\ db'[id].hops = 0 \/ (db[id].hops # Null /\ db[id].hops < db'[id].hops)]_vars

\* A submitted transfer that still has its quote starts, fails or is abandoned
\* with its page: a lock left behind would keep it in "preparing" for ever.
PreparingEnds == phase = "preparing" /\ quoted ~> phase # "preparing"

\* An execution ends, shown as completed or failed, or is abandoned with its page.
ExecutingEnds == phase = "executing" ~> phase # "executing"

\* A record stops being "in-progress", or its coroutine was cut short.
RecordsSettle ==
    \A id \in Ids : db[id].status = "in-progress" ~>
                        (db[id].status # "in-progress" \/ id \in orphaned)

==============================================================================
