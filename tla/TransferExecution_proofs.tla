----------------------- MODULE TransferExecution_proofs -----------------------
(***************************************************************************)
(* Theorems about TransferExecution, for every set of coroutines, every    *)
(* set of plans and every value of the bounds.  The first part types the   *)
(* state and shows that executions exclude each other.  The second is      *)
(* about what the coroutines keep in step: the page, the records and the   *)
(* chains.  No step is sent blindly twice, none before the client saw the  *)
(* steps ahead of it done, and what the page shows is what is recorded.    *)
(* The third shows that the records implement the history that             *)
(* TransferHistory states.                                                 *)
(***************************************************************************)
EXTENDS TransferExecution, SequenceTheorems, FiniteSetTheorems, TLAPS

----------------------------------------------------------------------------
(* The operators the actions are built from *)

\* What is built over the indexes of a sequence is a sequence as long as it.
LEMMA SameShape ==
    ASSUME NEW S, NEW T, NEW s \in Seq(S), NEW f \in [DOMAIN s -> T]
    PROVE  f \in Seq(T) /\ Len(f) = Len(s)
  <1>1. Len(s) \in Nat /\ f \in [1 .. Len(s) -> T]
    BY LenProperties
  <1>2. f \in Seq(T)
    BY <1>1, SeqDef
  <1> QED BY <1>1, <1>2, LenProperties

LEMMA UpdateStepType ==
    ASSUME NEW ss \in Seq(Step), NEW j, NEW status \in Statuses
    PROVE  /\ UpdateStep(ss, j, status) \in Seq(Step)
           /\ Len(UpdateStep(ss, j, status)) = Len(ss)
  <1>1. DOMAIN ss = 1 .. Len(ss) /\ \A m \in DOMAIN ss : ss[m] \in Step
    BY LenProperties, ElementOfSeq
  <1>2. UpdateStep(ss, j, status) \in [DOMAIN ss -> Step]
    BY <1>1, LenProperties DEF UpdateStep, Step
  <1> QED BY <1>2, SameShape

\* A plan's steps, all pending.
LEMMA FreshType ==
    ASSUME NEW plan \in Plans
    PROVE  Fresh(plan) \in Seq(Step) /\ Len(Fresh(plan)) = Len(plan)
  <1>1. plan \in Seq(Tracking)
    BY PlansAssumption
  <1>2. \A j \in DOMAIN plan : plan[j] \in Tracking
    BY <1>1, LenProperties, ElementOfSeq
  <1>3. Fresh(plan) \in [DOMAIN plan -> Step]
    BY <1>2 DEF Fresh, Step, Statuses
  <1> QED BY <1>1, <1>3, SameShape

\* Counting a transaction, or marking a step, in the table of a record.
LEMMA BumpFunction ==
    ASSUME NEW D, NEW g \in [D -> Nat], NEW i
    PROVE  [g EXCEPT ![i] = @ + 1] \in [D -> Nat]
  <1>1. CASE i \in D
    BY <1>1
  <1>2. CASE i \notin D
    BY <1>2
  <1> QED BY <1>1, <1>2

LEMMA BumpType ==
    ASSUME NEW f \in [Ids -> Seq(Nat)], NEW id, NEW i
    PROVE  [f EXCEPT ![id][i] = @ + 1] \in [Ids -> Seq(Nat)]
  <1>1. ASSUME id \in Ids
        PROVE  [f[id] EXCEPT ![i] = @ + 1] \in Seq(Nat)
    <2>1. f[id] \in Seq(Nat)
      BY <1>1
    <2>2. f[id] \in [DOMAIN f[id] -> Nat]
      BY <2>1, LenProperties
    <2>3. [f[id] EXCEPT ![i] = @ + 1] \in [DOMAIN f[id] -> Nat]
      BY <2>2, BumpFunction
    <2> QED BY <2>1, <2>3, SameShape
  <1> QED BY <1>1

LEMMA MarkType ==
    ASSUME NEW f \in [Ids -> Seq(BOOLEAN)], NEW id, NEW i
    PROVE  [f EXCEPT ![id][i] = TRUE] \in [Ids -> Seq(BOOLEAN)]
  <1>1. ASSUME id \in Ids
        PROVE  [f[id] EXCEPT ![i] = TRUE] \in Seq(BOOLEAN)
    <2>1. f[id] \in Seq(BOOLEAN)
      BY <1>1
    <2>2. \A m \in DOMAIN f[id] : f[id][m] \in BOOLEAN
      BY <2>1, LenProperties, ElementOfSeq
    <2>3. [f[id] EXCEPT ![i] = TRUE] \in [DOMAIN f[id] -> BOOLEAN]
      BY <2>1, <2>2, LenProperties
    <2> QED BY <2>1, <2>3, SameShape
  <1> QED BY <1>1

----------------------------------------------------------------------------
(* Type correctness *)

LEMMA FreeType == Free \in Run
  BY EmptySeq, ChainsAssumption DEF Free, Run, Progress

LEMMA InitType == Init => TypeOK
  <1> SUFFICES ASSUME Init PROVE TypeOK
    OBVIOUS
  <1>1. run \in [Runs -> Run]
    BY FreeType DEF Init
  <1>2. db \in [Ids -> Record]
    BY DEF Init, NoRecord, Record
  <1>3. steps \in Seq(Step) /\ queue \in Seq(Entry)
    BY EmptySeq DEF Init
  <1>4. /\ moved \in [Ids -> Seq(Nat)] /\ lost \in [Ids -> Seq(Nat)]
        /\ confirmed \in [Ids -> Seq(BOOLEAN)]
    BY EmptySeq DEF Init
  <1>5. added \in 0 .. MaxRecords
    BY BoundsAssumption DEF Init
  <1> QED
    BY <1>1, <1>2, <1>3, <1>4, <1>5 DEF Init, TypeOK, Phases

\* The requests that join the queue or leave it.
LEMMA QueueType ==
    ASSUME NEW q \in Seq(Entry), NEW r \in Runs
    PROVE  /\ Append(q, Awaited(r)) \in Seq(Entry)
           /\ q # <<>> => Tail(q) \in Seq(Entry)
           /\ \A h \in Progress : Append(q, HopWrite(r, h)) \in Seq(Entry)
  <1>1. Awaited(r) \in Entry /\ \A h \in Progress : HopWrite(r, h) \in Entry
    BY DEF Awaited, HopWrite, Entry
  <1> QED BY <1>1, HeadTailProperties

\* The pieces the coroutines share.
LEMMA SuspendType ==
    ASSUME TypeOK, NEW r \in Runs, NEW rn \in Run,
           NEW pc \in {"sending", "tracking"} \cup Awaiting, Suspend(r, rn, pc)
    PROVE  run' \in [Runs -> Run]
  <1>1. [rn EXCEPT !.pc = pc] \in Run
    BY DEF Run
  <1> QED BY <1>1 DEF Suspend, TypeOK

LEMMA RequestType ==
    ASSUME TypeOK, NEW r \in Runs, NEW rn \in Run, NEW pc \in Awaiting,
           NEW q \in Seq(Entry), Request(r, rn, pc, q)
    PROVE  run' \in [Runs -> Run] /\ queue' \in Seq(Entry)
  BY SuspendType, QueueType DEF Request

LEMMA FinishType ==
    ASSUME TypeOK, NEW r \in Runs, Finish(r)
    PROVE  run' \in [Runs -> Run] /\ executionLock' \in BOOLEAN
  BY FreeType DEF Finish, TypeOK

LEMMA WritesType ==
    ASSUME TypeOK, NEW r \in Runs, NEW change, Writes(r, change),
           run[r].id \in Ids => change \in Record
    PROVE  db' \in [Ids -> Record] /\ Tail(queue) \in Seq(Entry)
  <1>1. queue \in Seq(Entry) /\ queue # <<>>
    BY DEF TypeOK, Writes, Settles
  <1>2. db' \in [Ids -> Record]
    BY DEF TypeOK, Writes
  <1> QED BY <1>1, <1>2, QueueType

LEMMA CompleteStepType ==
    ASSUME TypeOK, NEW r \in Runs, NEW rn \in Run, NEW q \in Seq(Entry),
           CompleteStep(r, rn, q)
    PROVE  /\ steps' \in Seq(Step) /\ run' \in [Runs -> Run] /\ queue' \in Seq(Entry)
           /\ confirmed' \in [Ids -> Seq(BOOLEAN)]
           /\ refused' \subseteq (Ids \cup {Null}) \X Nat
  <1>1. steps' \in Seq(Step)
    BY UpdateStepType DEF CompleteStep, ShowSteps, Shows, TypeOK, Statuses
  <1>2. confirmed' \in [Ids -> Seq(BOOLEAN)]
    BY MarkType DEF CompleteStep, TypeOK
  <1>3. run' \in [Runs -> Run] /\ queue' \in Seq(Entry)
    BY RequestType DEF CompleteStep, Awaiting
  <1>4. refused' \subseteq (Ids \cup {Null}) \X Nat
    <2>1. rn.id \in Ids \cup {Null} /\ rn.i \in Nat
      BY DEF Run
    <2>2. refused \subseteq (Ids \cup {Null}) \X Nat
      BY DEF TypeOK
    <2>3. refused' = refused \/ refused' = refused \cup {<<rn.id, rn.i>>}
      BY DEF CompleteStep
    <2> QED BY <2>1, <2>2, <2>3
  <1> QED BY <1>1, <1>2, <1>3, <1>4

\* The loop leaves the page's steps, the coroutines and the queue well typed.
LEMMA EnterLoopType ==
    ASSUME TypeOK, NEW r \in Runs, NEW rn \in Run, NEW j \in Nat,
           NEW ss \in Seq(Step), NEW q \in Seq(Entry), EnterLoop(r, rn, j, ss, q)
    PROVE  steps' \in Seq(Step) /\ run' \in [Runs -> Run] /\ queue' \in Seq(Entry)
  <1>1. PICK k \in j .. Len(rn.todo) + 1 :
          IF k <= Len(rn.todo)
          THEN /\ ShowSteps(r, UpdateStep(ss, k, "signing"))
               /\ Suspend(r, [rn EXCEPT !.i = k, !.landed = FALSE], "sending")
               /\ queue' = q
          ELSE /\ ShowSteps(r, ss)
               /\ Request(r, [rn EXCEPT !.i = k], "succeeding", q)
    BY DEF EnterLoop
  <1>2. k \in Nat
    BY LenProperties DEF Run
  <1>3. CASE k <= Len(rn.todo)
    <2>1. steps' \in Seq(Step)
      BY <1>1, <1>3, UpdateStepType DEF ShowSteps, Shows, TypeOK, Statuses
    <2>2. [rn EXCEPT !.i = k, !.landed = FALSE] \in Run
      BY <1>2 DEF Run
    <2> QED BY <1>1, <1>3, <2>1, <2>2, SuspendType
  <1>4. CASE ~(k <= Len(rn.todo))
    <2>1. [rn EXCEPT !.i = k] \in Run
      BY <1>2 DEF Run
    <2>2. steps' \in Seq(Step)
      BY <1>1, <1>4 DEF ShowSteps, Shows, TypeOK
    <2> QED BY <1>1, <1>4, <2>1, <2>2, RequestType DEF Awaiting
  <1> QED BY <1>3, <1>4

\* What the provers need of TypeOK again and again.
LEMMA RunType ==
    ASSUME TypeOK
    PROVE  /\ \A r \in Runs : run[r] \in Run /\ run[r].i \in Nat /\ run[r].hop \in Progress
           /\ queue \in Seq(Entry) /\ db \in [Ids -> Record] /\ steps \in Seq(Step)
           /\ {0, Chains - 1, Chains} \subseteq Progress
  BY ChainsAssumption DEF TypeOK, Run, Progress

LEMMA NewPageType ==
    ASSUME TypeOK, NewPage, run' \in [Runs -> Run], queue' \in Seq(Entry),
           orphaned' \subseteq Ids
    PROVE  TypeOK'
  <1>1. /\ phase' = "idle" /\ currentStepIndex' = 0 /\ dbRecordId' = Null
        /\ multiHopProgress' = Null /\ dbReady' = FALSE /\ executionLock' = FALSE
        /\ quoted' = FALSE
        /\ UNCHANGED <<db, added, moved, lost, confirmed, refused, retries, dbErrors>>
    BY DEF NewPage, FreshPage, chain
  <1>2. exits' \in Nat
    BY DEF NewPage, TypeOK
  <1>3. steps' \in Seq(Step)
    BY EmptySeq DEF NewPage, FreshPage
  <1> QED BY <1>1, <1>2, <1>3 DEF TypeOK, Phases

LEMMA NextType == TypeOK /\ [Next]_vars => TypeOK'
  <1> SUFFICES ASSUME TypeOK, [Next]_vars PROVE TypeOK'
    OBVIOUS
  <1> USE RunType
  <1>1. CASE Submit
    BY <1>1 DEF Submit, TypeOK, Phases, store, chain, budget
  <1>2. CASE Back
    BY <1>2, EmptySeq DEF Back, FreshPage, TypeOK, Phases, store, chain, budget
  <1>3. CASE Reload
    <2>1. run' \in [Runs -> Run]
      BY <1>3, FreeType DEF Reload
    <2>2. orphaned' \subseteq Ids
      BY <1>3 DEF Reload, TypeOK
    <2>3. queue' \in Seq(Entry)
      BY <1>3, EmptySeq DEF Reload
    <2> QED BY <1>3, <2>1, <2>2, <2>3, NewPageType DEF Reload
  <1>10. CASE Leave
    <2>1. run' \in [Runs -> Run]
      <3>1. \A r \in Runs : [run[r] EXCEPT !.shown = FALSE] \in Run
        BY DEF Run
      <3> QED BY <1>10, <3>1, FreeType DEF Leave
    <2> QED BY <1>10, <2>1, NewPageType DEF Leave, TypeOK
  <1>4. CASE OpenDb
    BY <1>4 DEF OpenDb, TypeOK, ui, store, chain, budget
  <1>5. ASSUME NEW r \in Runs, NEW plan \in Plans, ExecuteTransfer(r, plan)
        PROVE  TypeOK'
    <2>1. [Free EXCEPT !.todo = Fresh(plan)] \in Run
      BY FreeType, FreshType DEF Run
    <2>2. run' \in [Runs -> Run] /\ queue' \in Seq(Entry)
      BY <1>5, <2>1, RequestType DEF ExecuteTransfer, Awaiting, TypeOK
    <2> QED BY <1>5, <2>2 DEF ExecuteTransfer, TypeOK, Phases, chain, budget
  <1>6. ASSUME NEW r \in Runs, RetryStep(r)
        PROVE  TypeOK'
    <2>1. [Free EXCEPT !.retry = TRUE, !.id = dbRecordId, !.todo = steps,
                       !.i = RetryFrom] \in Run
      <3>1. /\ dbRecordId \in Ids \cup {Null} /\ steps \in Seq(Step)
            /\ RetryFrom \in Nat
        BY DEF TypeOK, RetryFrom
      <3> QED BY <3>1, FreeType DEF Run
    <2>2. run' \in [Runs -> Run] /\ queue' \in Seq(Entry)
      BY <1>6, <2>1, RequestType DEF RetryStep, Awaiting, TypeOK
    <2> QED BY <1>6, <2>2, SMTT(30) DEF RetryStep, TypeOK, Phases, chain
  <1>7. ASSUME NEW r \in Runs, ChainAccepts(r)
        PROVE  TypeOK'
    <2>1. run' \in [Runs -> Run]
      BY <1>7, ZenonT(60) DEF ChainAccepts, TypeOK, Run
    <2>2. moved' \in [Ids -> Seq(Nat)]
      BY <1>7, BumpType DEF ChainAccepts, TypeOK
    <2> QED BY <1>7, <2>1, <2>2 DEF ChainAccepts, TypeOK, ui, store, budget
  <1>8. ASSUME NEW r \in Runs, Continue(r)
        PROVE  TypeOK'
    <2>1. CASE RecordAdded(r)
      <3> DEFINE rn == [run[r] EXCEPT !.id = added + 1]
      <3>1. rn \in Run /\ rn.todo \in Seq(Step) /\ rn.todo = run[r].todo
        BY <2>1 DEF RecordAdded, Run
      <3>2. Tail(queue) \in Seq(Entry)
        BY <2>1, QueueType DEF RecordAdded, Settles
      <3>3. steps' \in Seq(Step) /\ run' \in [Runs -> Run] /\ queue' \in Seq(Entry)
        BY <2>1, <3>1, <3>2, EnterLoopType DEF RecordAdded
      <3>4. Len(rn.todo) \in Nat
        BY <3>1, LenProperties
      <3>5. db' \in [Ids -> Record]
        BY <2>1, <3>1, <3>4 DEF RecordAdded, TypeOK, Record, NoRecord
      <3>6. /\ moved' \in [Ids -> Seq(Nat)] /\ lost' \in [Ids -> Seq(Nat)]
            /\ confirmed' \in [Ids -> Seq(BOOLEAN)]
        <4>1. /\ [j \in DOMAIN rn.todo |-> 0] \in Seq(Nat)
              /\ [j \in DOMAIN rn.todo |-> FALSE] \in Seq(BOOLEAN)
          BY <3>1, SameShape
        <4> QED BY <2>1, <3>1, <4>1 DEF RecordAdded, TypeOK
      <3>7. /\ phase' \in Phases /\ currentStepIndex' \in Nat
            /\ dbRecordId' \in Ids \cup {Null}
            /\ added' = added + 1 /\ added + 1 \in Ids
            /\ UNCHANGED <<multiHopProgress, quoted, dbReady, executionLock, refused,
                           orphaned, budget>>
        BY <2>1 DEF RecordAdded, ShowPhase, Shows, TypeOK, Phases
      <3>8. added' \in 0 .. MaxRecords
        BY <3>7, BoundsAssumption DEF TypeOK, Ids
      <3> QED BY <3>3, <3>5, <3>6, <3>7, <3>8 DEF TypeOK, Phases, budget
    <2>2. CASE Resumed(r)
      <3>1. run[r].id \in Ids =>
              [db[run[r].id] EXCEPT !.status = "in-progress", !.error = FALSE] \in Record
        BY DEF Record
      <3>2. db' \in [Ids -> Record] /\ Tail(queue) \in Seq(Entry)
        BY <2>2, <3>1, WritesType DEF Resumed
      <3>3. steps' \in Seq(Step) /\ run' \in [Runs -> Run] /\ queue' \in Seq(Entry)
        BY <2>2, <3>2, EnterLoopType DEF Resumed
      <3>4. UNCHANGED <<phase, currentStepIndex, dbRecordId, multiHopProgress, quoted,
                        dbReady, executionLock, added, chain, orphaned, budget>>
        BY <2>2 DEF Resumed, Writes
      <3> QED BY <3>2, <3>3, <3>4 DEF TypeOK, chain, budget
    <2>3. CASE SendSucceeds(r)
      <3>1. /\ run' \in [Runs -> Run] /\ queue' \in Seq(Entry) /\ steps' \in Seq(Step)
            /\ confirmed' \in [Ids -> Seq(BOOLEAN)]
            /\ refused' \subseteq (Ids \cup {Null}) \X Nat
            /\ multiHopProgress' \in Progress \cup {Null}
        <4>1. CASE CompleteStep(r, run[r], queue) /\ UNCHANGED multiHopProgress
          BY <4>1, CompleteStepType DEF TypeOK
        <4>2. CASE /\ ShowSteps(r, UpdateStep(steps, run[r].i, "confirming"))
                   /\ Suspend(r, run[r], "tracking")
                   /\ UNCHANGED <<multiHopProgress, confirmed, refused, queue>>
          BY <4>2, UpdateStepType, SuspendType DEF ShowSteps, Shows, TypeOK, Statuses
        <4>3. CASE /\ ShowSteps(r, UpdateStep(steps, run[r].i, "confirming"))
                   /\ ShowHops(r, 0)
                   /\ Request(r, [run[r] EXCEPT !.hop = 0], "hopstart", queue)
                   /\ UNCHANGED <<confirmed, refused>>
          <5>1. [run[r] EXCEPT !.hop = 0] \in Run
            BY DEF Run
          <5>2. run' \in [Runs -> Run] /\ queue' \in Seq(Entry)
            BY <4>3, <5>1, RequestType DEF Awaiting
          <5> QED BY <4>3, <5>2, UpdateStepType
                  DEF ShowSteps, ShowHops, Shows, TypeOK, Statuses
        <4> QED BY <2>3, <4>1, <4>2, <4>3 DEF SendSucceeds
      <3>2. UNCHANGED <<phase, currentStepIndex, dbRecordId, quoted, dbReady, executionLock,
                        db, added, moved, lost, orphaned, budget>>
        BY <2>3 DEF SendSucceeds
      <3> QED BY <3>1, <3>2 DEF TypeOK, budget
    <2>4. CASE SendFails(r)
      <3>1. run' \in [Runs -> Run] /\ queue' \in Seq(Entry) /\ steps' \in Seq(Step)
        BY <2>4, RequestType, UpdateStepType
        DEF SendFails, ShowSteps, Shows, Awaiting, Statuses
      <3>2. lost' \in [Ids -> Seq(Nat)]
        BY <2>4, BumpType DEF SendFails, TypeOK
      <3>3. UNCHANGED <<phase, currentStepIndex, dbRecordId, multiHopProgress, quoted, dbReady,
                        executionLock, db, added, moved, confirmed, refused, orphaned, budget>>
        BY <2>4 DEF SendFails
      <3> QED BY <3>1, <3>2, <3>3 DEF TypeOK, budget
    <2>5. CASE HopsStarted(r)
      <3>1. run[r].id \in Ids => [db[run[r].id] EXCEPT !.hops = 0] \in Record
        BY DEF Record
      <3>2. db' \in [Ids -> Record] /\ queue' \in Seq(Entry)
        BY <2>5, <3>1, WritesType DEF HopsStarted
      <3>3. run' \in [Runs -> Run]
        BY <2>5, SuspendType DEF HopsStarted
      <3> QED BY <2>5, <3>2, <3>3 DEF HopsStarted, Writes, TypeOK, ui, chain, budget
    <2>6. CASE HopConfirmed(r)
      <3> DEFINE hop == run[r].hop + 1
      <3>1. hop \in Progress
        BY <2>6, ChainsAssumption DEF HopConfirmed, Progress
      <3>2. run' \in [Runs -> Run]
        BY <2>6, <3>1, ZenonT(60) DEF HopConfirmed, TypeOK, Run
      <3>3. queue' \in Seq(Entry)
        BY <2>6, <3>1, QueueType DEF HopConfirmed
      <3> QED BY <2>6, <3>1, <3>2, <3>3 DEF HopConfirmed, ShowHops, Shows, TypeOK, chain, budget
    <2>7. CASE TrackingSucceeds(r)
      <3>1. queue \o LastHops(r) \in Seq(Entry)
        BY DEF LastHops, HopWrite, Entry
      <3>2. /\ steps' \in Seq(Step) /\ run' \in [Runs -> Run] /\ queue' \in Seq(Entry)
            /\ confirmed' \in [Ids -> Seq(BOOLEAN)]
            /\ refused' \subseteq (Ids \cup {Null}) \X Nat
        BY <2>7, <3>1, CompleteStepType DEF TrackingSucceeds
      <3>3. /\ multiHopProgress' \in Progress \cup {Null}
            /\ UNCHANGED <<phase, currentStepIndex, dbRecordId, quoted, dbReady, executionLock,
                           db, added, moved, lost, orphaned, budget>>
        BY <2>7 DEF TrackingSucceeds, ShowHops, Shows, TypeOK
      <3> QED BY <3>2, <3>3 DEF TypeOK, budget
    <2>8. CASE TrackingFails(r)
      <3>1. run' \in [Runs -> Run] /\ queue' \in Seq(Entry)
        BY <2>8, RequestType DEF TrackingFails, Awaiting
      <3>2. phase' \in Phases /\ multiHopProgress' \in Progress \cup {Null}
        BY <2>8 DEF TrackingFails, ShowPhase, ShowHops, Shows, TypeOK, Phases
      <3> QED BY <2>8, <3>1, <3>2 DEF TrackingFails, TypeOK, chain, budget
    <2>9. CASE StepRecorded(r)
      <3>1. run[r].id \in Ids =>
              [db[run[r].id] EXCEPT !.currentStep = run[r].i] \in Record
        BY DEF Record
      <3>2. db' \in [Ids -> Record] /\ Tail(queue) \in Seq(Entry)
        BY <2>9, <3>1, WritesType DEF StepRecorded
      <3>3. steps' \in Seq(Step) /\ run' \in [Runs -> Run] /\ queue' \in Seq(Entry)
        <4>1. run[r].i + 1 \in Nat
          OBVIOUS
        <4> QED BY <2>9, <3>2, <4>1, EnterLoopType DEF StepRecorded
      <3>4. /\ currentStepIndex' \in Nat /\ phase' \in Phases
            /\ UNCHANGED <<dbRecordId, multiHopProgress, quoted, dbReady, executionLock, added,
                           chain, orphaned, budget>>
        BY <2>9 DEF StepRecorded, ShowPhase, Shows, Writes, TypeOK, Phases
      <3> QED BY <3>2, <3>3, <3>4 DEF TypeOK, chain, budget
    <2>10. CASE FailureRecorded(r)
      <3>1. run[r].id \in Ids =>
              [db[run[r].id] EXCEPT !.status = "failed", !.error = TRUE] \in Record
        BY DEF Record
      <3>2. db' \in [Ids -> Record] /\ queue' \in Seq(Entry)
        BY <2>10, <3>1, WritesType DEF FailureRecorded
      <3>3. run' \in [Runs -> Run] /\ executionLock' \in BOOLEAN
        BY <2>10, FinishType DEF FailureRecorded
      <3> QED BY <2>10, <3>2, <3>3
              DEF FailureRecorded, ShowPhase, Shows, Writes, TypeOK, Phases, chain, budget
    <2>11. CASE GiveupRecorded(r)
      <3>1. run[r].id \in Ids =>
              [db[run[r].id] EXCEPT !.status = "failed", !.error = TRUE] \in Record
        BY DEF Record
      <3>2. db' \in [Ids -> Record] /\ queue' \in Seq(Entry)
        BY <2>11, <3>1, WritesType DEF GiveupRecorded
      <3>3. run' \in [Runs -> Run] /\ executionLock' \in BOOLEAN
        BY <2>11, FinishType DEF GiveupRecorded
      <3> QED BY <2>11, <3>2, <3>3 DEF GiveupRecorded, Writes, TypeOK, ui, chain, budget
    <2>12. CASE SuccessRecorded(r)
      <3>1. run[r].id \in Ids =>
              [db[run[r].id] EXCEPT !.status = "success",
                                    !.currentStep = Len(run[r].todo)] \in Record
        <4>1. Len(run[r].todo) \in Nat
          BY LenProperties DEF Run
        <4> QED BY <4>1 DEF Record
      <3>2. db' \in [Ids -> Record] /\ queue' \in Seq(Entry)
        BY <2>12, <3>1, WritesType DEF SuccessRecorded
      <3>3. run' \in [Runs -> Run] /\ executionLock' \in BOOLEAN
        BY <2>12, FinishType DEF SuccessRecorded
      <3> QED BY <2>12, <3>2, <3>3
              DEF SuccessRecorded, ShowPhase, Shows, Writes, TypeOK, Phases, chain, budget
    <2>13. CASE HopWriteSettles(r)
      <3> DEFINE hop == Head(queue).hop
      <3>1. hop \in Progress /\ queue' \in Seq(Entry)
        <4>1. queue # <<>> /\ hop # Null /\ queue' = Tail(queue)
          BY <2>13 DEF HopWriteSettles
        <4>2. Head(queue) \in Entry /\ Tail(queue) \in Seq(Entry)
          BY <4>1, HeadTailProperties
        <4> QED BY <4>1, <4>2 DEF Entry
      <3>2. db' \in [Ids -> Record]
        <4>1. ASSUME run[r].id \in Ids
              PROVE  [db[run[r].id] EXCEPT !.hops = hop] \in Record
          BY <3>1, <4>1 DEF Record
        <4>2. db' = [db EXCEPT ![run[r].id].hops = hop] \/ db' = db
          BY <2>13 DEF HopWriteSettles
        <4> QED BY <4>1, <4>2
      <3>3. dbErrors' \in Nat
        BY <2>13 DEF HopWriteSettles, TypeOK
      <3> QED BY <2>13, <3>1, <3>2, <3>3 DEF HopWriteSettles, TypeOK, ui, chain
    <2>14. CASE WriteRejected(r)
      <3>1. Tail(queue) \in Seq(Entry)
        BY <2>14, QueueType DEF WriteRejected, Settles
      <3>2. /\ run' \in [Runs -> Run] /\ queue' \in Seq(Entry)
            /\ executionLock' \in BOOLEAN /\ orphaned' \subseteq Ids
        <4>1. CASE /\ Request(r, run[r], "catching", Tail(queue))
                   /\ UNCHANGED <<executionLock, orphaned>>
          BY <3>1, <4>1, RequestType DEF Awaiting, TypeOK
        <4>2. CASE /\ Finish(r) /\ queue' = Tail(queue)
                   /\ orphaned' = orphaned \cup ({run[r].id} \cap Ids)
          BY <3>1, <4>2, FinishType DEF TypeOK
        <4> QED BY <2>14, <4>1, <4>2 DEF WriteRejected
      <3>3. /\ phase' \in Phases
            /\ UNCHANGED <<steps, currentStepIndex, dbRecordId, quoted>>
        BY <2>14 DEF WriteRejected, ShowPhase, Shows, TypeOK, Phases
      <3>4. /\ dbErrors' \in Nat
            /\ UNCHANGED <<multiHopProgress, dbReady, db, added, chain, retries, exits>>
        BY <2>14 DEF WriteRejected, TypeOK
      <3> QED BY <3>2, <3>3, <3>4 DEF TypeOK, chain
    <2> QED BY <1>8, <2>1, <2>2, <2>3, <2>4, <2>5, <2>6, <2>7, <2>8, <2>9, <2>10, <2>11,
               <2>12, <2>13, <2>14 DEF Continue
  <1>9. CASE UNCHANGED vars
    BY <1>9 DEF TypeOK, vars, ui, store, chain, budget
  <1> QED BY <1>1, <1>2, <1>3, <1>4, <1>5, <1>6, <1>7, <1>8, <1>9, <1>10 DEF Next, Start

\* Every variable of the client's state keeps its type.
THEOREM TypeCorrect == Spec => []TypeOK
  BY InitType, NextType, PTL DEF Spec

----------------------------------------------------------------------------
(* The execution lock *)

\* A coroutine that goes on stays what it was, executeTransfer or retryStep, and
\* stays with its page.
SameKind(rn, old) == rn.retry = old.retry /\ rn.shown = old.shown

LEMMA SuspendKeeps ==
    ASSUME TypeOK, ExecutionIsExclusive, NEW r \in Runs, run[r].pc # "free",
           NEW rn \in Run, SameKind(rn, run[r]),
           NEW pc \in {"sending", "tracking"} \cup Awaiting, Suspend(r, rn, pc),
           UNCHANGED executionLock
    PROVE  ExecutionIsExclusive'
  <1>1. \A q \in Runs : Executes(q)' <=> Executes(q)
    BY DEF Executes, Suspend, SameKind, TypeOK, Run, Awaiting
  <1> QED BY <1>1 DEF ExecutionIsExclusive

LEMMA EnterLoopKeeps ==
    ASSUME TypeOK, ExecutionIsExclusive, NEW r \in Runs, run[r].pc # "free",
           NEW rn \in Run, SameKind(rn, run[r]), NEW j \in Nat,
           NEW ss, NEW q, EnterLoop(r, rn, j, ss, q), UNCHANGED executionLock
    PROVE  ExecutionIsExclusive'
  <1>1. PICK k \in j .. Len(rn.todo) + 1 :
          \/ Suspend(r, [rn EXCEPT !.i = k, !.landed = FALSE], "sending")
          \/ Suspend(r, [rn EXCEPT !.i = k], "succeeding")
    BY DEF EnterLoop, Request
  <1>2. k \in Nat
    BY LenProperties DEF Run
  <1>3. /\ [rn EXCEPT !.i = k, !.landed = FALSE] \in Run
        /\ [rn EXCEPT !.i = k] \in Run
        /\ SameKind([rn EXCEPT !.i = k, !.landed = FALSE], run[r])
        /\ SameKind([rn EXCEPT !.i = k], run[r])
    BY <1>2 DEF Run, SameKind
  <1> QED BY <1>1, <1>3, SuspendKeeps DEF Awaiting

\* executeTransfer releases the lock when it ends, retryStep leaves it alone.
LEMMA FinishKeeps ==
    ASSUME TypeOK, ExecutionIsExclusive, NEW r \in Runs, run[r].pc # "free", Finish(r)
    PROVE  ExecutionIsExclusive'
  <1>1. ~Executes(r)' /\ \A q \in Runs \ {r} : Executes(q)' <=> Executes(q)
    BY DEF Executes, Finish, TypeOK, Free
  <1>2. CASE ~Executes(r)
    BY <1>1, <1>2 DEF ExecutionIsExclusive, Finish
  <1>3. CASE Executes(r)
    <2>1. \A q \in Runs : ~Executes(q)'
      BY <1>1, <1>3 DEF ExecutionIsExclusive
    <2> QED BY <1>3, <2>1 DEF ExecutionIsExclusive, Finish
  <1> QED BY <1>2, <1>3

LEMMA ExclusiveStep ==
    TypeOK /\ ExecutionIsExclusive /\ [Next]_vars => ExecutionIsExclusive'
  <1> SUFFICES ASSUME TypeOK, ExecutionIsExclusive, [Next]_vars
               PROVE  ExecutionIsExclusive'
    OBVIOUS
  <1> USE RunType
  <1>1. CASE UNCHANGED <<run, executionLock>>
    BY <1>1 DEF ExecutionIsExclusive, Executes
  <1>2. CASE Submit \/ Back \/ OpenDb \/ UNCHANGED vars
    BY <1>1, <1>2 DEF Submit, Back, OpenDb, vars
  <1>3. CASE Reload \/ Leave
    <2>1. \A r \in Runs : ~Executes(r)'
      BY <1>3 DEF Reload, Leave, Executes, Free, TypeOK, Run
    <2> QED BY <1>3, <2>1 DEF Reload, Leave, NewPage, ExecutionIsExclusive
  <1>4. ASSUME NEW r \in Runs, NEW plan \in Plans, ExecuteTransfer(r, plan)
        PROVE  ExecutionIsExclusive'
    <2>1. CASE UNCHANGED <<run, executionLock>>
      BY <1>1, <2>1
    <2>2. CASE /\ ~executionLock /\ executionLock' = TRUE
               /\ Request(r, [Free EXCEPT !.todo = Fresh(plan)], "adding", queue)
      <3>1. Executes(r)' /\ \A q \in Runs \ {r} : Executes(q)' <=> Executes(q)
        BY <2>2 DEF Request, Suspend, Executes, TypeOK, Free
      <3>2. \A q \in Runs : ~Executes(q)
        BY <2>2 DEF ExecutionIsExclusive
      <3> QED BY <2>2, <3>1, <3>2 DEF ExecutionIsExclusive
    <2> QED BY <1>4, <2>1, <2>2 DEF ExecuteTransfer, Unlocked
  <1>5. ASSUME NEW r \in Runs, RetryStep(r)
        PROVE  ExecutionIsExclusive'
    <2>1. \A q \in Runs : Executes(q)' <=> Executes(q)
      BY <1>5 DEF RetryStep, Request, Suspend, Executes, TypeOK, Free
    <2> QED BY <1>5, <2>1 DEF RetryStep, ExecutionIsExclusive
  <1>6. ASSUME NEW r \in Runs, ChainAccepts(r) \/ HopConfirmed(r)
        PROVE  ExecutionIsExclusive'
    <2>1. \A q \in Runs : Executes(q)' <=> Executes(q)
      <3>1. CASE run' = [run EXCEPT ![r].landed = TRUE]
        BY <3>1 DEF Executes, Run
      <3>2. CASE run' = [run EXCEPT ![r].hop = run[r].hop + 1]
        BY <3>2 DEF Executes, Run
      <3> QED BY <1>6, <3>1, <3>2 DEF ChainAccepts, HopConfirmed
    <2> QED BY <1>6, <2>1 DEF ChainAccepts, HopConfirmed, ExecutionIsExclusive
  <1>7. ASSUME NEW r \in Runs, RecordAdded(r)
        PROVE  ExecutionIsExclusive'
    <2>1. [run[r] EXCEPT !.id = added + 1] \in Run
      BY <1>7 DEF RecordAdded, Run
    <2>2. SameKind([run[r] EXCEPT !.id = added + 1], run[r])
      BY DEF SameKind, Run
    <2> QED BY <1>7, <2>1, <2>2, EnterLoopKeeps DEF RecordAdded
  <1>8. ASSUME NEW r \in Runs, Resumed(r) \/ StepRecorded(r)
        PROVE  ExecutionIsExclusive'
    <2>1. run[r].i + 1 \in Nat /\ run[r].pc # "free" /\ UNCHANGED executionLock
      BY <1>8 DEF Resumed, StepRecorded
    <2> QED BY <1>8, <2>1, EnterLoopKeeps DEF Resumed, StepRecorded, SameKind
  <1>9. ASSUME NEW r \in Runs, SendSucceeds(r) \/ SendFails(r) \/ HopsStarted(r)
                             \/ TrackingSucceeds(r) \/ TrackingFails(r)
        PROVE  ExecutionIsExclusive'
    <2>1. [run[r] EXCEPT !.hop = 0] \in Run /\ SameKind([run[r] EXCEPT !.hop = 0], run[r])
      BY DEF Run, SameKind
    <2>2. run[r].pc # "free" /\ UNCHANGED executionLock
      BY <1>9 DEF SendSucceeds, SendFails, HopsStarted, TrackingSucceeds, TrackingFails
    <2>3. \/ \E pc \in {"sending", "tracking"} \cup Awaiting : Suspend(r, run[r], pc)
          \/ \E pc \in {"sending", "tracking"} \cup Awaiting :
                Suspend(r, [run[r] EXCEPT !.hop = 0], pc)
      BY <1>9 DEF SendSucceeds, SendFails, HopsStarted, TrackingSucceeds, TrackingFails,
                  CompleteStep, Request, Awaiting
    <2> QED BY <2>1, <2>2, <2>3, SuspendKeeps DEF SameKind
  <1>10. ASSUME NEW r \in Runs, FailureRecorded(r) \/ GiveupRecorded(r) \/ SuccessRecorded(r)
         PROVE  ExecutionIsExclusive'
    BY <1>10, FinishKeeps DEF FailureRecorded, GiveupRecorded, SuccessRecorded
  <1>11. ASSUME NEW r \in Runs, HopWriteSettles(r)
         PROVE  ExecutionIsExclusive'
    BY <1>1, <1>11 DEF HopWriteSettles
  <1>12. ASSUME NEW r \in Runs, WriteRejected(r)
         PROVE  ExecutionIsExclusive'
    <2>1. run[r].pc # "free"
      BY <1>12 DEF WriteRejected, Settles, Awaiting
    <2>2. \/ Finish(r)
          \/ Suspend(r, run[r], "catching") /\ UNCHANGED executionLock
      BY <1>12 DEF WriteRejected, Request
    <2> QED BY <2>1, <2>2, FinishKeeps, SuspendKeeps DEF Awaiting, SameKind
  <1> QED
    BY <1>2, <1>3, <1>4, <1>5, <1>6, <1>7, <1>8, <1>9, <1>10, <1>11, <1>12
    DEF Next, Start, Continue

\* A page never has two executeTransfer in flight, whatever effects, retries,
\* reloads and failing requests interleave, and its lock never stays behind.
THEOREM ExclusiveExecution == Spec => []ExecutionIsExclusive
  <1>1. Init => ExecutionIsExclusive
    BY DEF Init, ExecutionIsExclusive, Executes, Free
  <1> QED BY <1>1, InitType, NextType, ExclusiveStep, PTL DEF Spec

----------------------------------------------------------------------------
(* The requests in the queue *)

\* A coroutine has one request in the queue while it awaits one, and none else.
InLine(q, r, waits) ==
  /\ waits => \E j \in DOMAIN q : q[j] = Awaited(r)
  /\ ~waits => \A j \in DOMAIN q : q[j] # Awaited(r)
  /\ \A j, k \in DOMAIN q : q[j] = Awaited(r) /\ q[k] = Awaited(r) => j = k

\* The request of a is ahead of the one of b.
Ahead(q, a, b) ==
  \A j \in DOMAIN q : q[j] = Awaited(b) => \E i \in 1 .. j - 1 : q[i] = Awaited(a)

QueueInv == \A r \in Runs : InLine(queue, r, run[r].pc \in Awaiting)

LEMMA EntriesDiffer ==
    /\ \A r, q \in Runs : Awaited(r) = Awaited(q) => r = q
    /\ \A r, q \in Runs, h \in Progress : HopWrite(r, h) # Awaited(q)
    /\ \A r \in Runs : Awaited(r) \in Entry /\ \A h \in Progress : HopWrite(r, h) \in Entry
  BY NullAssumption, ChainsAssumption DEF Awaited, HopWrite, Entry, Progress

LEMMA AppendedFacts ==
    ASSUME NEW q \in Seq(Entry), NEW e \in Entry
    PROVE  /\ Append(q, e) \in Seq(Entry) /\ Len(q) \in Nat
           /\ DOMAIN q = 1 .. Len(q) /\ DOMAIN Append(q, e) = 1 .. Len(q) + 1
           /\ \A j \in 1 .. Len(q) : Append(q, e)[j] = q[j]
           /\ Append(q, e)[Len(q) + 1] = e
  BY AppendProperties, LenProperties

LEMMA TailFacts ==
    ASSUME NEW q \in Seq(Entry), q # <<>>
    PROVE  /\ Tail(q) \in Seq(Entry) /\ Len(q) \in Nat \ {0}
           /\ DOMAIN q = 1 .. Len(q) /\ DOMAIN Tail(q) = 1 .. Len(q) - 1
           /\ \A j \in 1 .. Len(q) - 1 : Tail(q)[j] = q[j + 1]
           /\ Head(q) = q[1]
  BY HeadTailProperties, LenProperties, EmptySeq

LEMMA AppendOther ==
    ASSUME NEW q \in Seq(Entry), NEW e \in Entry, NEW r, e # Awaited(r)
    PROVE  /\ \A w \in BOOLEAN : InLine(q, r, w) => InLine(Append(q, e), r, w)
           /\ \A a : Ahead(q, a, r) => Ahead(Append(q, e), a, r)
  BY AppendedFacts DEF InLine, Ahead

LEMMA AppendOwn ==
    ASSUME NEW q \in Seq(Entry), NEW r \in Runs, InLine(q, r, FALSE)
    PROVE  /\ InLine(Append(q, Awaited(r)), r, TRUE)
           /\ \A a : InLine(q, a, TRUE) => Ahead(Append(q, Awaited(r)), a, r)
  <1>1. Awaited(r) \in Entry
    BY EntriesDiffer
  <1> QED BY <1>1, AppendedFacts DEF InLine, Ahead

LEMMA TailOther ==
    ASSUME NEW q \in Seq(Entry), q # <<>>, NEW r, Head(q) # Awaited(r)
    PROVE  /\ \A w \in BOOLEAN : InLine(q, r, w) => InLine(Tail(q), r, w)
           /\ \A b : Ahead(q, r, b) => Ahead(Tail(q), r, b)
  <1>1. ASSUME NEW w \in BOOLEAN, InLine(q, r, w) PROVE InLine(Tail(q), r, w)
    <2>1. ASSUME w PROVE \E j \in DOMAIN Tail(q) : Tail(q)[j] = Awaited(r)
      <3>1. PICK j \in DOMAIN q : q[j] = Awaited(r)
        BY <1>1, <2>1 DEF InLine
      <3>2. j - 1 \in DOMAIN Tail(q) /\ Tail(q)[j - 1] = q[j]
        BY <3>1, TailFacts
      <3> QED BY <3>1, <3>2
    <2>2. ASSUME ~w, NEW j \in DOMAIN Tail(q) PROVE Tail(q)[j] # Awaited(r)
      BY <1>1, <2>2, TailFacts DEF InLine
    <2>3. ASSUME NEW j \in DOMAIN Tail(q), NEW k \in DOMAIN Tail(q),
                 Tail(q)[j] = Awaited(r), Tail(q)[k] = Awaited(r)
          PROVE  j = k
      <3>1. /\ j + 1 \in DOMAIN q /\ k + 1 \in DOMAIN q /\ j \in Nat /\ k \in Nat
            /\ q[j + 1] = Awaited(r) /\ q[k + 1] = Awaited(r)
        BY <2>3, TailFacts
      <3> QED BY <1>1, <3>1 DEF InLine
    <2> QED BY <2>1, <2>2, <2>3 DEF InLine
  <1>2. ASSUME NEW b, Ahead(q, r, b), NEW j \in DOMAIN Tail(q), Tail(q)[j] = Awaited(b)
        PROVE  \E i \in 1 .. j - 1 : Tail(q)[i] = Awaited(r)
    <2>1. j + 1 \in DOMAIN q /\ q[j + 1] = Awaited(b) /\ j \in 1 .. Len(q) - 1 /\ Len(q) \in Nat
      BY <1>2, TailFacts
    <2>2. PICK i \in 1 .. j : q[i] = Awaited(r)
      BY <1>2, <2>1 DEF Ahead
    <2>3. i # 1
      BY <2>2, TailFacts
    <2>4. i - 1 \in 1 .. j - 1 /\ Tail(q)[i - 1] = q[i]
      BY <2>1, <2>2, <2>3, TailFacts
    <2> QED BY <2>2, <2>4
  <1> QED BY <1>1, <1>2 DEF Ahead

LEMMA TailOwn ==
    ASSUME NEW q \in Seq(Entry), q # <<>>, NEW r, Head(q) = Awaited(r),
           NEW w \in BOOLEAN, InLine(q, r, w)
    PROVE  InLine(Tail(q), r, FALSE) /\ \A a : ~Ahead(q, a, r)
  <1>1. ASSUME NEW j \in DOMAIN Tail(q), Tail(q)[j] = Awaited(r) PROVE FALSE
    <2>1. j + 1 \in DOMAIN q /\ 1 \in DOMAIN q /\ q[j + 1] = Awaited(r) /\ q[1] = Awaited(r)
          /\ j \in Nat /\ j # 0
      BY <1>1, TailFacts
    <2>2. j + 1 = 1
      BY <2>1 DEF InLine
    <2> QED BY <2>1, <2>2
  <1>2. ASSUME NEW a, Ahead(q, a, r) PROVE FALSE
    <2>1. 1 \in DOMAIN q /\ q[1] = Awaited(r)
      BY TailFacts
    <2> QED BY <1>2, <2>1 DEF Ahead
  <1> QED BY <1>1, <1>2 DEF InLine

Before(a, b) == Ahead(queue, a, b)

\* A step of coroutine r: it leaves the other coroutines alone, and the order
\* of their requests.
Alone(r) == \A a \in Runs \ {r} : run'[a] = run[a]
KeepsOrder(r) == \A a, b \in Runs \ {r} : Before(a, b) => Before(a, b)'

LEMMA QueuePasses ==
    ASSUME QueueInv, NEW r \in Runs, Alone(r), UNCHANGED queue,
           run'[r].pc \in Awaiting <=> run[r].pc \in Awaiting
    PROVE  QueueInv' /\ KeepsOrder(r)
  BY DEF QueueInv, InLine, Alone, KeepsOrder, Before, Ahead

LEMMA QueueJoins ==
    ASSUME TypeOK, QueueInv, NEW r \in Runs, Alone(r), queue' = Append(queue, Awaited(r)),
           run'[r].pc \in Awaiting, run[r].pc \notin Awaiting
    PROVE  /\ QueueInv' /\ KeepsOrder(r)
           /\ \A a \in Runs : run[a].pc \in Awaiting => Before(a, r)'
  <1>1. queue \in Seq(Entry) /\ Awaited(r) \in Entry
    BY EntriesDiffer DEF TypeOK
  <1>2. \A a \in Runs \ {r} : Awaited(r) # Awaited(a)
    BY EntriesDiffer
  <1>3. \A a \in Runs : InLine(queue, a, run[a].pc \in Awaiting) /\ (run[a].pc \in Awaiting) \in BOOLEAN
    BY DEF QueueInv
  <1>4. ASSUME NEW a \in Runs \ {r} PROVE InLine(queue, a, run[a].pc \in Awaiting)'
    BY <1>1, <1>2, <1>3, <1>4, AppendOther DEF Alone
  <1>5. InLine(queue, r, FALSE)
    BY <1>3 DEF InLine
  <1>6. InLine(queue', r, TRUE) /\ \A a : InLine(queue, a, TRUE) => Ahead(queue', a, r)
    BY <1>1, <1>5, AppendOwn
  <1>7. InLine(queue, r, run[r].pc \in Awaiting)'
    BY <1>6 DEF InLine
  <1>8. QueueInv'
    BY <1>4, <1>7 DEF QueueInv
  <1>9. KeepsOrder(r)
    BY <1>1, <1>2, AppendOther DEF KeepsOrder, Before
  <1>10. ASSUME NEW a \in Runs, run[a].pc \in Awaiting PROVE Before(a, r)'
    BY <1>3, <1>6, <1>10 DEF Before, InLine
  <1> QED BY <1>8, <1>9, <1>10

\* A progress write joins the queue.
LEMMA QueueHopWrite ==
    ASSUME NEW q \in Seq(Entry), NEW r \in Runs, NEW h \in Progress
    PROVE  /\ Append(q, HopWrite(r, h)) \in Seq(Entry)
           /\ \A a \in Runs, w \in BOOLEAN : InLine(q, a, w) => InLine(Append(q, HopWrite(r, h)), a, w)
           /\ \A a, b \in Runs : Ahead(q, a, b) => Ahead(Append(q, HopWrite(r, h)), a, b)
  <1>1. HopWrite(r, h) \in Entry /\ \A a \in Runs : HopWrite(r, h) # Awaited(a)
    BY EntriesDiffer
  <1> QED BY <1>1, AppendOther, AppendedFacts

LEMMA QueueNotes ==
    ASSUME TypeOK, QueueInv, NEW r \in Runs, Alone(r), NEW h \in Progress,
           queue' = Append(queue, HopWrite(r, h)), run'[r].pc = run[r].pc
    PROVE  QueueInv' /\ KeepsOrder(r)
  <1>1. queue \in Seq(Entry)
    BY DEF TypeOK
  <1>2. \A a \in Runs : InLine(queue, a, run[a].pc \in Awaiting) /\ (run[a].pc \in Awaiting) \in BOOLEAN
    BY DEF QueueInv
  <1>3. \A a \in Runs : run'[a].pc = run[a].pc
    BY DEF Alone
  <1>4. ASSUME NEW a \in Runs PROVE InLine(queue, a, run[a].pc \in Awaiting)'
    BY <1>1, <1>2, <1>3, QueueHopWrite
  <1>5. KeepsOrder(r)
    BY <1>1, QueueHopWrite DEF KeepsOrder, Before
  <1> QED BY <1>4, <1>5 DEF QueueInv

\* The last two progress writes of a tracker join the queue before the request
\* its coroutine then awaits.
LEMMA QueueJoinsLate ==
    ASSUME TypeOK, QueueInv, NEW r \in Runs, Alone(r), NEW g \in Progress, NEW h \in Progress,
           queue' = Append(queue \o <<HopWrite(r, g), HopWrite(r, h)>>, Awaited(r)),
           run'[r].pc \in Awaiting, run[r].pc \notin Awaiting
    PROVE  QueueInv' /\ KeepsOrder(r)
  <1> DEFINE q == Append(Append(queue, HopWrite(r, g)), HopWrite(r, h))
  <1>1. queue \in Seq(Entry) /\ Awaited(r) \in Entry /\ HopWrite(r, g) \in Entry /\ HopWrite(r, h) \in Entry
    BY EntriesDiffer DEF TypeOK
  <1>2. queue' = Append(q, Awaited(r)) /\ q \in Seq(Entry)
    BY <1>1
  <1>3. \A a \in Runs \ {r} : Awaited(r) # Awaited(a)
    BY EntriesDiffer
  <1>4. \A a \in Runs : InLine(queue, a, run[a].pc \in Awaiting) /\ (run[a].pc \in Awaiting) \in BOOLEAN
    BY DEF QueueInv
  <1>5. \A a \in Runs : InLine(q, a, run[a].pc \in Awaiting)
    BY <1>1, <1>4, QueueHopWrite
  <1>6. \A a, b \in Runs : Ahead(queue, a, b) => Ahead(q, a, b)
    BY <1>1, QueueHopWrite
  <1> HIDE DEF q
  <1>7. ASSUME NEW a \in Runs \ {r} PROVE InLine(queue, a, run[a].pc \in Awaiting)'
    BY <1>1, <1>2, <1>3, <1>4, <1>5, <1>7, AppendOther DEF Alone
  <1>8. InLine(q, r, FALSE)
    BY <1>5 DEF InLine
  <1>9. InLine(queue', r, TRUE)
    BY <1>2, <1>8, AppendOwn
  <1>10. InLine(queue, r, run[r].pc \in Awaiting)'
    BY <1>9 DEF InLine
  <1>11. KeepsOrder(r)
    BY <1>1, <1>2, <1>3, <1>6, AppendOther DEF KeepsOrder, Before
  <1> QED BY <1>7, <1>10, <1>11 DEF QueueInv

\* The oldest request settles, and whose it is; the coroutine goes on.
LEMMA QueueLeaves ==
    ASSUME TypeOK, QueueInv, NEW r \in Runs, Alone(r), Settles(r), queue' = Tail(queue),
           run'[r].pc \notin Awaiting
    PROVE  QueueInv' /\ KeepsOrder(r)
  <1>1. queue \in Seq(Entry) /\ queue # <<>> /\ Head(queue) = Awaited(r)
    BY DEF TypeOK, Settles
  <1>2. \A a \in Runs \ {r} : Awaited(r) # Awaited(a)
    BY EntriesDiffer
  <1>3. \A a \in Runs : InLine(queue, a, run[a].pc \in Awaiting) /\ (run[a].pc \in Awaiting) \in BOOLEAN
    BY DEF QueueInv
  <1>4. ASSUME NEW a \in Runs \ {r} PROVE InLine(queue, a, run[a].pc \in Awaiting)'
    BY <1>1, <1>2, <1>3, <1>4, TailOther DEF Alone
  <1>5. InLine(queue', r, FALSE)
    BY <1>1, <1>3, TailOwn
  <1>6. InLine(queue, r, run[r].pc \in Awaiting)'
    BY <1>5 DEF InLine
  <1>7. KeepsOrder(r)
    BY <1>1, <1>2, TailOther DEF KeepsOrder, Before
  <1> QED BY <1>4, <1>6, <1>7 DEF QueueInv

\* The oldest request settles, and its coroutine makes another one.
LEMMA QueueRejoins ==
    ASSUME TypeOK, QueueInv, NEW r \in Runs, Alone(r), Settles(r),
           queue' = Append(Tail(queue), Awaited(r)), run'[r].pc \in Awaiting
    PROVE  QueueInv' /\ KeepsOrder(r)
  <1>1. queue \in Seq(Entry) /\ queue # <<>> /\ Head(queue) = Awaited(r) /\ Awaited(r) \in Entry
    BY EntriesDiffer DEF TypeOK, Settles
  <1>2. \A a \in Runs \ {r} : Awaited(r) # Awaited(a)
    BY EntriesDiffer
  <1>3. \A a \in Runs : InLine(queue, a, run[a].pc \in Awaiting) /\ (run[a].pc \in Awaiting) \in BOOLEAN
    BY DEF QueueInv
  <1>4. Tail(queue) \in Seq(Entry)
    BY <1>1, TailFacts
  <1>5. ASSUME NEW a \in Runs \ {r} PROVE InLine(queue, a, run[a].pc \in Awaiting)'
    <2>1. InLine(Tail(queue), a, run[a].pc \in Awaiting)
      BY <1>1, <1>2, <1>3, TailOther
    <2> QED BY <1>1, <1>2, <1>3, <1>4, <2>1, AppendOther DEF Alone
  <1>6. InLine(Tail(queue), r, FALSE)
    BY <1>1, <1>3, TailOwn
  <1>7. InLine(queue', r, TRUE)
    BY <1>4, <1>6, AppendOwn
  <1>8. InLine(queue, r, run[r].pc \in Awaiting)'
    BY <1>7 DEF InLine
  <1>9. ASSUME NEW a \in Runs \ {r}, NEW b \in Runs \ {r}, Before(a, b) PROVE Before(a, b)'
    <2>1. Ahead(Tail(queue), a, b)
      BY <1>1, <1>2, <1>9, TailOther DEF Before
    <2> QED BY <1>1, <1>2, <1>4, <2>1, AppendOther DEF Before
  <1> QED BY <1>5, <1>8, <1>9 DEF QueueInv, KeepsOrder

\* A progress write settles.
LEMMA QueueDrops ==
    ASSUME TypeOK, QueueInv, queue # <<>>, Head(queue).hop # Null, queue' = Tail(queue),
           UNCHANGED run
    PROVE  QueueInv' /\ \A a, b \in Runs : Before(a, b) => Before(a, b)'
  <1>1. queue \in Seq(Entry) /\ \A a \in Runs : Head(queue) # Awaited(a)
    BY DEF TypeOK, Awaited
  <1>2. \A a \in Runs : InLine(queue, a, run[a].pc \in Awaiting) /\ (run[a].pc \in Awaiting) \in BOOLEAN
    BY DEF QueueInv
  <1>3. ASSUME NEW a \in Runs PROVE InLine(queue, a, run[a].pc \in Awaiting)'
    BY <1>1, <1>2, TailOther
  <1>4. ASSUME NEW a \in Runs, NEW b \in Runs, Before(a, b) PROVE Before(a, b)'
    BY <1>1, <1>4, TailOther DEF Before
  <1> QED BY <1>3, <1>4 DEF QueueInv

\* Nobody's request is ahead of the one that settles.
LEMMA NoneAhead ==
    ASSUME TypeOK, QueueInv, NEW r \in Runs, Settles(r)
    PROVE  \A a \in Runs : ~Before(a, r)
  <1>1. queue \in Seq(Entry) /\ queue # <<>> /\ Head(queue) = Awaited(r)
    BY DEF TypeOK, Settles
  <1>2. InLine(queue, r, run[r].pc \in Awaiting) /\ (run[r].pc \in Awaiting) \in BOOLEAN
    BY DEF QueueInv
  <1> QED BY <1>1, <1>2, TailOwn DEF Before

----------------------------------------------------------------------------
(* The invariant *)

\* The coroutines that sent something of their record, or are about to.
Holding == Working \cup {"giveup"}
Acting(r) == run[r].pc \in Working \cup {"adding"}

\* The client knows of every inclusion of a step that the chain made.
Told(id, i) == moved[id][i] <= lost[id][i]

\* What a record's steps did on the chains: NoBlindResend and StepsInOrder.
RowOK(id) ==
  /\ Len(lost[id]) = Len(moved[id]) /\ Len(confirmed[id]) = Len(moved[id])
  /\ \A i \in 1 .. Len(moved[id]) :
       /\ moved[id][i] <= 1 + lost[id][i]
       /\ moved[id][i] > 0 => \A j \in 1 .. i - 1 : confirmed[id][j]

\* A coroutine's own copy of the steps agrees with the chains: what is before
\* its index is confirmed, what is after it was never sent, and what it is about to
\* send is on no chain without its knowledge.
PlanOK(r) ==
  LET rn == run[r]
      n  == Len(rn.todo)
  IN  /\ rn.pc \in Holding \cup {"catching"} => rn.id \in 1 .. added
      /\ rn.pc = "adding" => rn.id = Null /\ ~rn.retry /\ n > 0
                             /\ \A j \in 1 .. n : rn.todo[j].status = "pending"
      /\ rn.pc \in Working =>
           /\ Len(moved[rn.id]) = n
           /\ \A j \in 1 .. rn.i - 1 : confirmed[rn.id][j]
           /\ \A j \in rn.i + 1 .. n : rn.todo[j].status = "pending" /\ moved[rn.id][j] = 0
           /\ IF rn.pc = "succeeding" THEN rn.i = n + 1 ELSE rn.i \in 1 .. n
      /\ rn.pc = "resuming" => rn.todo[rn.i].status # "completed"
      /\ rn.pc = "resuming" \/ (rn.pc = "sending" /\ ~rn.landed) => Told(rn.id, rn.i)
      /\ rn.pc = "recording" => confirmed[rn.id][rn.i]

Current == steps[currentStepIndex + 1].status

\* The page agrees with the chains too: a step it offers to retry is on no chain
\* without the client's knowledge.
PageOK ==
  /\ dbRecordId = Null => steps = <<>>
  /\ phase \in {"idle", "preparing"} => dbRecordId = Null
  /\ dbRecordId # Null =>
       /\ dbRecordId \in 1 .. added
       /\ Len(steps) = Len(moved[dbRecordId]) /\ currentStepIndex < Len(steps)
       /\ \A j \in 1 .. currentStepIndex :
            steps[j].status = "completed" /\ confirmed[dbRecordId][j]
       /\ \A j \in currentStepIndex + 2 .. Len(steps) :
            steps[j].status = "pending" /\ moved[dbRecordId][j] = 0
       /\ Current = "failed" => Told(dbRecordId, currentStepIndex + 1)
  /\ phase = "completed" =>
       dbRecordId # Null /\ Len(steps) = currentStepIndex + 1 /\ Current = "completed"

\* A coroutine of the mounted page is at the step the page shows.
OnPage(r) ==
  LET rn == run[r] IN
  /\ rn.pc = "adding" => dbRecordId = Null
  /\ rn.pc = "giveup" => dbRecordId = Null \/ Current # "failed"
  /\ rn.pc \in Working =>
       /\ phase = "executing" /\ dbRecordId = rn.id /\ Len(steps) = Len(rn.todo)
       /\ IF rn.pc = "succeeding"
          THEN Len(steps) = currentStepIndex + 1 /\ Current = "completed"
          ELSE rn.i = currentStepIndex + 1
  /\ rn.pc \in {"sending", "hopstart", "tracking"} => Current # "failed"
  /\ rn.pc = "recording" => Current = "completed"

\* Two coroutines do not get in each other's way.  One that only records its
\* failure is done before a new one acts on its page or on its record, because
\* its request is ahead.
Apart(r, q) ==
  /\ Acting(r) /\ Acting(q) /\ run[r].shown /\ run[q].shown => FALSE
  /\ run[r].pc \in Holding /\ run[q].pc \in Holding => run[r].id # run[q].id
  /\ run[r].pc = "giveup" /\ run[r].shown /\ run[q].shown /\ Acting(q) =>
       run[q].pc = "adding" /\ Before(r, q)
  /\ run[r].pc = "catching" /\ run[q].pc \in Holding /\ run[r].id = run[q].id =>
       run[q].pc = "resuming" /\ Before(r, q)

\* Who works on another record than the page's.
Elsewhere(r) ==
  /\ run[r].pc \in Holding /\ ~run[r].shown => run[r].id # dbRecordId
  /\ phase = "completed" /\ run[r].pc # "free" => run[r].id # dbRecordId

DeliveryInv ==
  /\ \A id \in 1 .. added : RowOK(id)
  /\ PageOK
  /\ \A r \in Runs : PlanOK(r) /\ Elsewhere(r) /\ (run[r].shown => OnPage(r))
  /\ \A r, q \in Runs : r # q => Apart(r, q)
  /\ QueueInv

LEMMA InitialDelivery == Init => DeliveryInv
  <1> SUFFICES ASSUME Init PROVE DeliveryInv
    OBVIOUS
  <1>1. \A r \in Runs : run[r].pc = "free"
    BY DEF Init, Free
  <1>2. QueueInv
    BY <1>1 DEF Init, QueueInv, InLine, Awaiting
  <1>3. PageOK
    BY DEF Init, PageOK
  <1>4. \A r \in Runs : PlanOK(r) /\ Elsewhere(r) /\ OnPage(r)
    BY <1>1 DEF PlanOK, Elsewhere, OnPage, Holding, Working
  <1>5. \A r, q \in Runs : Apart(r, q)
    BY <1>1 DEF Apart, Acting, Holding, Working
  <1> QED BY <1>2, <1>3, <1>4, <1>5 DEF DeliveryInv, Init

\* The facts of TypeOK this part needs.
LEMMA DeliveryTypes ==
    ASSUME TypeOK
    PROVE  /\ \A r \in Runs : /\ run[r] \in Run /\ run[r].i \in Nat /\ run[r].todo \in Seq(Step)
                              /\ run[r].id \in Ids \cup {Null} /\ Len(run[r].todo) \in Nat
                              /\ run[r].pc \in {"free", "sending", "tracking"} \cup Awaiting
                              /\ run[r].shown \in BOOLEAN /\ run[r].landed \in BOOLEAN /\ run[r].retry \in BOOLEAN
           /\ added \in Nat /\ currentStepIndex \in Nat /\ MaxRecords \in Nat
           /\ steps \in Seq(Step) /\ Len(steps) \in Nat /\ Null \notin Ids /\ 1 .. added \subseteq Ids
           /\ \A id \in Ids : /\ Len(moved[id]) \in Nat
                              /\ \A i \in 1 .. Len(moved[id]) : moved[id][i] \in Nat
                              /\ Len(lost[id]) \in Nat
                              /\ \A i \in 1 .. Len(lost[id]) : lost[id][i] \in Nat
  <1>1. \A r \in Runs : run[r] \in Run
    BY DEF TypeOK
  <1>2. \A r \in Runs : Len(run[r].todo) \in Nat /\ run[r].i \in Nat /\ run[r].todo \in Seq(Step)
    BY <1>1, LenProperties DEF Run
  <1>3. Len(steps) \in Nat
    BY LenProperties DEF TypeOK
  <1>4. ASSUME NEW f \in [Ids -> Seq(Nat)], NEW id \in Ids
        PROVE  Len(f[id]) \in Nat /\ \A i \in 1 .. Len(f[id]) : f[id][i] \in Nat
    <2>1. f[id] \in Seq(Nat)
      BY <1>4
    <2> QED BY <2>1, LenProperties, ElementOfSeq
  <1>5. added \in Nat /\ MaxRecords \in Nat /\ 1 .. added \subseteq Ids /\ Null \notin Ids
    BY BoundsAssumption, NullAssumption DEF TypeOK, Ids
  <1> QED BY <1>1, <1>2, <1>3, <1>4, <1>5 DEF TypeOK, Run

\* The rows of the records other than X, as a step leaves them.
OtherRows(X) ==
  \A id \in Ids \ {X} : moved'[id] = moved[id] /\ lost'[id] = lost[id] /\ confirmed'[id] = confirmed[id]

\* A step of a coroutine that works on its record: what has to be shown of the
\* coroutine, its row and the page it shows on, the rest follows.
LEMMA WorkingStep ==
    ASSUME TypeOK, DeliveryInv, TypeOK', NEW r \in Runs, run[r].pc \in Working, Alone(r),
           run'[r].pc \in (Holding \ {"resuming"}) \cup {"catching", "free"},
           run'[r].pc # "free" => run'[r].id = run[r].id /\ run'[r].shown = run[r].shown,
           UNCHANGED <<added, dbRecordId>>, PlanOK(r)',
           NEW X, X = run[r].id, OtherRows(X), RowOK(X)',
           ~run[r].shown => UNCHANGED <<phase, steps, currentStepIndex>>,
           run[r].shown => PageOK' /\ (run'[r].pc # "free" => OnPage(r)'),
           run[r].shown /\ phase' = "completed" => run'[r].pc = "free" /\ run[r].pc # "resuming",
           run[r].pc = "resuming" => Settles(r),
           QueueInv' /\ KeepsOrder(r)
    PROVE  DeliveryInv'
  <1> USE DeliveryTypes
  <1>0. /\ PlanOK(r) /\ Elsewhere(r) /\ (run[r].shown => OnPage(r)) /\ run[r].id \in 1 .. added
        /\ run[r].pc \in Holding /\ Acting(r)
    BY DEF DeliveryInv, PlanOK, Holding, Acting
  <1>1. ASSUME NEW id \in 1 .. added PROVE RowOK(id)'
    <2>1. CASE id = X
      BY <2>1
    <2>2. CASE id # X
      <3>1. RowOK(id) /\ id \in Ids \ {X}
        BY <2>2 DEF DeliveryInv
      <3> QED BY <3>1 DEF OtherRows, RowOK
    <2> QED BY <2>1, <2>2
  <1>2. PageOK'
    <2>1. CASE run[r].shown
      BY <2>1
    <2>2. CASE ~run[r].shown
      <3>1. dbRecordId # run[r].id
        BY <1>0, <2>2 DEF Elsewhere
      <3>2. dbRecordId # Null => dbRecordId \in Ids \ {run[r].id}
        BY <3>1 DEF TypeOK
      <3>3. PageOK /\ UNCHANGED <<phase, steps, currentStepIndex, dbRecordId, added>>
        BY <2>2 DEF DeliveryInv
      <3>4. CASE dbRecordId = Null
        BY <3>3, <3>4 DEF PageOK, Current
      <3>5. CASE dbRecordId # Null
        <4>1. /\ moved'[dbRecordId] = moved[dbRecordId] /\ lost'[dbRecordId] = lost[dbRecordId]
              /\ confirmed'[dbRecordId] = confirmed[dbRecordId]
          BY <3>2, <3>5 DEF OtherRows
        <4> QED BY <3>3, <3>5, <4>1 DEF PageOK, Told, Current
      <3> QED BY <3>4, <3>5
    <2> QED BY <2>1, <2>2
  <1>3. ASSUME NEW q \in Runs \ {r} PROVE PlanOK(q)'
    <2>1. run'[q] = run[q] /\ PlanOK(q) /\ Apart(r, q)
      BY DEF Alone, DeliveryInv
    <2>2. run[q].pc \in Working => run[q].id \in Ids \ {run[r].id}
      BY <1>0, <2>1 DEF Apart, PlanOK, Holding
    <2>3. CASE run[q].pc \in Working
      <3>1. /\ moved'[run[q].id] = moved[run[q].id] /\ lost'[run[q].id] = lost[run[q].id]
            /\ confirmed'[run[q].id] = confirmed[run[q].id]
        BY <2>2, <2>3 DEF OtherRows
      <3> QED BY <2>1, <3>1 DEF PlanOK, Told
    <2>4. CASE run[q].pc \notin Working
      BY <2>1, <2>4 DEF PlanOK, Working
    <2> QED BY <2>3, <2>4
  <1>4. ASSUME NEW q \in Runs \ {r}, run'[q].shown PROVE OnPage(q)'
    <2>1. run'[q] = run[q] /\ OnPage(q) /\ Apart(r, q) /\ Apart(q, r)
      BY <1>4 DEF Alone, DeliveryInv
    <2>2. CASE run[r].shown
      <3>1. ~Acting(q) /\ run[q].pc # "giveup"
        BY <1>0, <1>4, <2>1, <2>2 DEF Apart, Working
      <3> QED BY <2>1, <3>1 DEF OnPage, Acting, Working
    <2>3. CASE ~run[r].shown
      BY <2>1, <2>3 DEF OnPage, Current
    <2> QED BY <2>2, <2>3
  <1>5. ASSUME NEW q \in Runs PROVE Elsewhere(q)'
    <2>1. CASE q = r
      BY <1>0, <2>1 DEF Elsewhere, Holding, Working
    <2>2. CASE q # r
      <3>1. run'[q] = run[q] /\ Elsewhere(q) /\ Apart(r, q) /\ Apart(q, r) /\ PlanOK(q)
        BY <2>2 DEF Alone, DeliveryInv
      <3>2. ASSUME phase' = "completed", run[q].pc # "free" PROVE run[q].id # dbRecordId
        <4>1. CASE ~run[r].shown
          BY <3>1, <3>2, <4>1 DEF Elsewhere
        <4>2. CASE run[r].shown
          <5>1. run[r].id = dbRecordId /\ run[r].pc # "resuming"
            BY <1>0, <3>2, <4>2 DEF OnPage
          <5>2. run[q].pc \in Holding \cup {"catching", "adding"}
            BY <3>2 DEF Holding, Working, Awaiting
          <5>3. dbRecordId # Null
            BY <1>0, <5>1
          <5> QED BY <1>0, <3>1, <5>1, <5>2, <5>3 DEF Apart, PlanOK
        <4> QED BY <4>1, <4>2
      <3> QED BY <3>1, <3>2 DEF Elsewhere
    <2> QED BY <2>1, <2>2
  <1>6. ASSUME NEW a \in Runs, NEW b \in Runs, a # b PROVE Apart(a, b)'
    <2>1. Apart(a, b) /\ Apart(b, a)
      BY <1>6 DEF DeliveryInv
    <2>2. CASE a # r /\ b # r
      BY <2>1, <2>2 DEF Apart, Alone, Acting, KeepsOrder
    <2>3. CASE a = r
      <3>1. run'[b] = run[b] /\ (Acting(b)' <=> Acting(b))
        BY <1>6, <2>3 DEF Alone, Acting
      <3>2. Acting(r)' => run'[r].pc \in Working
        BY DEF Acting, Holding, Working
      <3> QED BY <1>0, <2>1, <2>3, <3>1, <3>2 DEF Apart, Holding, Acting, Working
    <2>4. CASE b = r
      <3>1. run'[a] = run[a] /\ (Acting(a)' <=> Acting(a))
        BY <1>6, <2>4 DEF Alone, Acting
      <3>2. Acting(r)' => run'[r].pc \in Working
        BY DEF Acting, Holding, Working
      <3>3. run[r].pc # "adding" /\ (run[r].pc = "resuming" => ~Before(a, r))
        BY NoneAhead DEF Working, DeliveryInv
      <3> QED BY <1>0, <2>1, <2>4, <3>1, <3>2, <3>3 DEF Apart, Holding, Acting, Working
    <2> QED BY <2>2, <2>3, <2>4
  <1>7. ASSUME run'[r].shown PROVE OnPage(r)'
    <2>1. CASE run'[r].pc = "free"
      BY <2>1 DEF OnPage, Working
    <2>2. CASE run'[r].pc # "free"
      BY <1>7, <2>2
    <2> QED BY <2>1, <2>2
  <1> QED BY <1>1, <1>2, <1>3, <1>4, <1>5, <1>6, <1>7 DEF DeliveryInv

\* A step of a coroutine that has not started, or only records its failure.
LEMMA RecordingStep ==
    ASSUME TypeOK, DeliveryInv, NEW r \in Runs, run[r].pc \in {"giveup", "catching", "adding"}, Alone(r),
           run'[r].pc \in {"catching", "free"},
           run'[r].pc = "catching" => /\ run[r].pc = "giveup"
                                      /\ run'[r].id = run[r].id /\ run'[r].shown = run[r].shown,
           UNCHANGED <<added, dbRecordId, steps, currentStepIndex, chain>>,
           \/ UNCHANGED phase
           \/ run[r].pc \in {"giveup", "adding"} /\ run[r].shown /\ phase' = "failed",
           QueueInv' /\ KeepsOrder(r)
    PROVE  DeliveryInv'
  <1> USE DeliveryTypes
  <1>1. \A id \in 1 .. added' : RowOK(id)'
    BY DEF DeliveryInv, RowOK, chain
  <1>2. PageOK'
    BY DEF DeliveryInv, PageOK, Current, Told, chain
  <1>3. ASSUME NEW q \in Runs PROVE PlanOK(q)'
    <2>1. CASE q = r
      BY <2>1 DEF DeliveryInv, PlanOK, Holding, Working
    <2>2. CASE q # r
      <3>1. PlanOK(q) /\ run'[q] = run[q] /\ UNCHANGED <<added, moved, lost, confirmed>>
        BY <2>2 DEF DeliveryInv, Alone, chain
      <3> QED BY <3>1 DEF PlanOK, Told
    <2> QED BY <2>1, <2>2
  <1>4. ASSUME NEW q \in Runs, run'[q].shown PROVE OnPage(q)'
    <2>1. CASE q = r
      BY <2>1 DEF OnPage, Working
    <2>2. CASE q # r
      <3>1. run'[q] = run[q] /\ OnPage(q) /\ Apart(r, q)
        BY <1>4, <2>2 DEF Alone, DeliveryInv
      <3>2. run[q].pc \in Working => UNCHANGED phase
        BY <1>4, <3>1 DEF Apart, Acting, Working
      <3> QED BY <3>1, <3>2 DEF OnPage, Current
    <2> QED BY <2>1, <2>2
  <1>5. ASSUME NEW q \in Runs PROVE Elsewhere(q)'
    <2>1. CASE q = r
      BY <2>1 DEF DeliveryInv, Elsewhere, Holding, Working
    <2>2. CASE q # r
      BY <2>2 DEF DeliveryInv, Elsewhere, Alone
    <2> QED BY <2>1, <2>2
  <1>6. ASSUME NEW a \in Runs, NEW b \in Runs, a # b PROVE Apart(a, b)'
    <2>1. Apart(a, b) /\ Apart(b, a)
      BY <1>6 DEF DeliveryInv
    <2>2. CASE a # r /\ b # r
      BY <2>1, <2>2 DEF Apart, Alone, Acting, KeepsOrder
    <2>3. CASE a = r
      <3>1. run'[b] = run[b]
        BY <1>6, <2>3 DEF Alone
      <3> QED BY <2>1, <2>3, <3>1 DEF Apart, Holding, Acting, Working
    <2>4. CASE b = r
      <3>1. run'[a] = run[a]
        BY <1>6, <2>4 DEF Alone
      <3> QED BY <2>1, <2>4, <3>1 DEF Apart, Holding, Acting, Working
    <2> QED BY <2>2, <2>3, <2>4
  <1> QED BY <1>1, <1>2, <1>3, <1>4, <1>5, <1>6 DEF DeliveryInv

\* No coroutine changes, nor anything but what the page says of the transfer.
LEMMA PhaseStep ==
    ASSUME TypeOK, DeliveryInv, UNCHANGED <<run, queue, added, chain>>,
           phase # "executing" \/ UNCHANGED phase, phase' = "completed" => UNCHANGED phase,
           phase' \in {"idle", "preparing"} => phase \in {"idle", "preparing"} \/ dbRecordId' = Null,
           \/ UNCHANGED <<dbRecordId, steps, currentStepIndex>>
           \/ dbRecordId' = Null /\ steps' = <<>> /\ phase' # "completed" /\ phase # "executing"
    PROVE  DeliveryInv'
  <1> USE DeliveryTypes
  <1>1. \A id \in 1 .. added' : RowOK(id)'
    BY DEF DeliveryInv, RowOK, chain
  <1>2. PageOK'
    BY DEF DeliveryInv, PageOK, Current, Told, chain
  <1>3. \A q \in Runs : PlanOK(q)'
    BY DEF DeliveryInv, PlanOK, Told, chain
  <1>4. ASSUME NEW q \in Runs, run'[q].shown PROVE OnPage(q)'
    <2>1. OnPage(q)
      BY <1>4 DEF DeliveryInv
    <2> QED BY <2>1 DEF OnPage, Current, Working
  <1>5. ASSUME NEW q \in Runs PROVE Elsewhere(q)'
    BY DEF DeliveryInv, Elsewhere, PlanOK
  <1>6. \A a, b \in Runs : a # b => Apart(a, b)'
    BY DEF DeliveryInv, Apart, Acting, Before
  <1>7. QueueInv'
    BY DEF DeliveryInv, QueueInv
  <1> QED BY <1>1, <1>2, <1>3, <1>4, <1>5, <1>6, <1>7 DEF DeliveryInv

\* A new page: no coroutine shows on it.
LEMMA NewPageStep ==
    ASSUME TypeOK, DeliveryInv, Reload \/ Leave
    PROVE  DeliveryInv'
  <1> USE DeliveryTypes
  <1>0. /\ dbRecordId' = Null /\ steps' = <<>> /\ phase' = "idle"
        /\ UNCHANGED <<added, moved, lost, confirmed>>
    BY DEF Reload, Leave, NewPage, FreshPage, chain
  <1>1. \A id \in 1 .. added' : RowOK(id)'
    BY <1>0 DEF DeliveryInv, RowOK
  <1>2. PageOK'
    BY <1>0 DEF PageOK
  <1>3. CASE Reload
    <2>1. \A r \in Runs : run'[r].pc = "free"
      BY <1>3 DEF Reload, Free
    <2>2. QueueInv'
      BY <1>3, <2>1 DEF Reload, QueueInv, InLine, Awaiting
    <2>3. \A r \in Runs : PlanOK(r)' /\ Elsewhere(r)' /\ OnPage(r)'
      BY <1>0, <2>1 DEF PlanOK, Elsewhere, OnPage, Holding, Working
    <2>4. \A r, q \in Runs : Apart(r, q)'
      BY <2>1 DEF Apart, Acting, Holding, Working
    <2> QED BY <1>1, <1>2, <2>2, <2>3, <2>4 DEF DeliveryInv
  <1>4. CASE Leave
    <2>1. \A r \in Runs : /\ run'[r].pc = run[r].pc
                          /\ run[r].pc = "free" => run'[r] = Free
                          /\ run[r].pc # "free" => run'[r] = [run[r] EXCEPT !.shown = FALSE]
      BY <1>4 DEF Leave, Free
    <2>2. \A r \in Runs : run[r].pc # "free" =>
             /\ run'[r].id = run[r].id /\ run'[r].todo = run[r].todo /\ run'[r].i = run[r].i
             /\ run'[r].landed = run[r].landed /\ run'[r].retry = run[r].retry /\ ~run'[r].shown
      BY <2>1 DEF Run
    <2>3. QueueInv'
      BY <1>4, <2>1 DEF Leave, DeliveryInv, QueueInv, InLine
    <2>4. ASSUME NEW r \in Runs PROVE PlanOK(r)' /\ Elsewhere(r)' /\ (run'[r].shown => OnPage(r)')
      <3>1. CASE run[r].pc = "free"
        BY <1>0, <2>1, <3>1 DEF PlanOK, Elsewhere, OnPage, Holding, Working
      <3>2. CASE run[r].pc # "free"
        <4>1. /\ PlanOK(r) /\ run'[r].pc = run[r].pc /\ run'[r].id = run[r].id
              /\ run'[r].todo = run[r].todo /\ run'[r].i = run[r].i
              /\ run'[r].landed = run[r].landed /\ run'[r].retry = run[r].retry
          BY <2>1, <2>2, <3>2 DEF DeliveryInv
        <4>2. PlanOK(r)'
          BY <1>0, <4>1 DEF PlanOK, Told
        <4>3. Elsewhere(r)'
          BY <1>0, <4>1 DEF PlanOK, Elsewhere
        <4> QED BY <2>2, <3>2, <4>2, <4>3
      <3> QED BY <3>1, <3>2
    <2>5. ASSUME NEW a \in Runs, NEW b \in Runs, a # b PROVE Apart(a, b)'
      <3>1. Apart(a, b) /\ UNCHANGED queue
        BY <1>4, <2>5 DEF DeliveryInv, Leave
      <3>2. ~(Acting(a)' /\ run'[a].shown) /\ ~(Acting(b)' /\ run'[b].shown)
        BY <2>1, <2>2 DEF Acting, Working
      <3>3. run[a].pc \in Holding \cup {"catching"} => run'[a].id = run[a].id
        BY <2>2 DEF Holding, Working
      <3>4. run[b].pc \in Holding => run'[b].id = run[b].id
        BY <2>2 DEF Holding, Working
      <3> QED BY <2>1, <3>1, <3>2, <3>3, <3>4 DEF Apart, Before
    <2> QED BY <1>1, <1>2, <2>3, <2>4, <2>5 DEF DeliveryInv
  <1> QED BY <1>3, <1>4

\* executeTransfer starts: the lock was free, so nobody acts on the page, and
\* whoever still records a failure has asked before.
LEMMA StartStep ==
    ASSUME TypeOK, ExecutionIsExclusive, DeliveryInv, NEW r \in Runs, NEW plan \in Plans,
           ExecuteTransfer(r, plan)
    PROVE  DeliveryInv'
  <1> USE DeliveryTypes
  <1>1. CASE UNCHANGED <<run, executionLock, queue>> /\ phase' = "failed"
    BY <1>1, PhaseStep DEF ExecuteTransfer
  <1>2. CASE /\ Unlocked /\ plan # <<>> /\ UNCHANGED phase
             /\ Request(r, [Free EXCEPT !.todo = Fresh(plan)], "adding", queue)
    <2>0. /\ phase = "preparing" /\ run[r].pc = "free" /\ dbRecordId = Null
          /\ UNCHANGED <<steps, currentStepIndex, dbRecordId, added, moved, lost, confirmed>>
      BY <1>2 DEF ExecuteTransfer, chain, DeliveryInv, PageOK
    <2>1. /\ Alone(r) /\ run'[r].pc = "adding" /\ run'[r].id = Null /\ ~run'[r].retry
          /\ run'[r].shown /\ run'[r].todo = Fresh(plan) /\ queue' = Append(queue, Awaited(r))
      BY <1>2 DEF Request, Suspend, Alone, Free, TypeOK
    <2>2. /\ QueueInv' /\ KeepsOrder(r)
          /\ \A a \in Runs : run[a].pc \in Awaiting => Before(a, r)'
      BY <2>0, <2>1, QueueJoins DEF DeliveryInv, Awaiting
    <2>3. \A id \in 1 .. added' : RowOK(id)'
      BY <2>0 DEF DeliveryInv, RowOK
    <2>4. PageOK'
      BY <1>2, <2>0 DEF DeliveryInv, PageOK, Current, Told
    <2>5. PlanOK(r)'
      <3>1. Len(Fresh(plan)) = Len(plan) /\ plan \in Seq(Tracking)
        BY FreshType, PlansAssumption
      <3>2. Len(plan) > 0 /\ DOMAIN plan = 1 .. Len(plan)
        BY <1>2, <3>1, LenProperties, EmptySeq
      <3>3. \A j \in 1 .. Len(plan) : Fresh(plan)[j].status = "pending"
        BY <3>2 DEF Fresh
      <3> QED BY <2>1, <3>1, <3>2, <3>3 DEF PlanOK, Holding, Working
    <2>6. ASSUME NEW q \in Runs \ {r}
          PROVE  PlanOK(q)' /\ Elsewhere(q)' /\ (run'[q].shown => OnPage(q)')
      <3>1. run'[q] = run[q] /\ PlanOK(q) /\ Elsewhere(q) /\ (run[q].shown => OnPage(q))
        BY <2>1 DEF Alone, DeliveryInv
      <3> QED BY <1>2, <2>0, <3>1 DEF PlanOK, Told, Elsewhere, OnPage, Current
    <2>7. Elsewhere(r)' /\ OnPage(r)'
      BY <1>2, <2>0, <2>1 DEF Elsewhere, OnPage, Holding, Working
    <2>8. ASSUME NEW q \in Runs \ {r}, run[q].shown PROVE ~Acting(q)
      <3>1. OnPage(q) /\ PlanOK(q)
        BY <2>8 DEF DeliveryInv
      <3>2. ~Executes(q)
        BY <1>2 DEF Unlocked, ExecutionIsExclusive
      <3> QED BY <2>0, <2>8, <3>1, <3>2 DEF Acting, OnPage, PlanOK, Executes
    <2>9. ASSUME NEW a \in Runs, NEW b \in Runs, a # b PROVE Apart(a, b)'
      <3>1. Apart(a, b)
        BY <2>9 DEF DeliveryInv
      <3>2. CASE a # r /\ b # r
        BY <2>1, <2>2, <3>1, <3>2 DEF Apart, Alone, Acting, KeepsOrder
      <3>3. CASE a = r
        BY <2>1, <2>8, <2>9, <3>3 DEF Apart, Alone, Acting, Holding, Working
      <3>4. CASE b = r
        <4>1. run'[a] = run[a] /\ (Acting(a)' <=> Acting(a))
          BY <2>1, <2>9, <3>4 DEF Alone, Acting
        <4>2. run[a].pc = "giveup" => Before(a, r)'
          BY <2>2 DEF Awaiting
        <4> QED BY <2>1, <2>8, <2>9, <3>4, <4>1, <4>2 DEF Apart, Holding, Working
      <3> QED BY <3>2, <3>3, <3>4
    <2> QED BY <2>2, <2>3, <2>4, <2>5, <2>6, <2>7, <2>9 DEF DeliveryInv
  <1> QED BY <1>1, <1>2 DEF ExecuteTransfer

\* retryStep starts: the step that failed is on no chain without the client's
\* knowledge, and nobody else works on the record.
LEMMA RetryStarts ==
    ASSUME TypeOK, DeliveryInv, NEW r \in Runs, RetryStep(r)
    PROVE  DeliveryInv'
  <1> USE DeliveryTypes
  <1>0. /\ phase = "failed" /\ Current = "failed" /\ dbRecordId # Null /\ run[r].pc = "free"
        /\ phase' = "executing" /\ RetryFrom = currentStepIndex + 1
        /\ UNCHANGED <<steps, currentStepIndex, dbRecordId, added, moved, lost, confirmed>>
    BY DEF RetryStep, CanRetry, Current, chain, RetryFrom
  <1>1. /\ Alone(r) /\ run'[r].pc = "resuming" /\ run'[r].id = dbRecordId /\ run'[r].shown
        /\ run'[r].todo = steps /\ run'[r].i = currentStepIndex + 1
        /\ queue' = Append(queue, Awaited(r))
    BY <1>0 DEF RetryStep, Request, Suspend, Alone, Free, TypeOK
  <1>2. /\ QueueInv' /\ KeepsOrder(r)
        /\ \A a \in Runs : run[a].pc \in Awaiting => Before(a, r)'
    BY <1>0, <1>1, QueueJoins DEF DeliveryInv, Awaiting
  <1>3. \A id \in 1 .. added' : RowOK(id)'
    BY <1>0 DEF DeliveryInv, RowOK
  <1>4. PageOK'
    BY <1>0 DEF DeliveryInv, PageOK, Current, Told
  <1>5. PlanOK(r)'
    <2>1. /\ dbRecordId \in 1 .. added /\ Len(steps) = Len(moved[dbRecordId])
          /\ currentStepIndex < Len(steps)
          /\ \A j \in 1 .. currentStepIndex : confirmed[dbRecordId][j]
          /\ \A j \in currentStepIndex + 2 .. Len(steps) :
               steps[j].status = "pending" /\ moved[dbRecordId][j] = 0
          /\ Told(dbRecordId, currentStepIndex + 1)
      BY <1>0 DEF DeliveryInv, PageOK
    <2>2. currentStepIndex + 1 \in 1 .. Len(steps) /\ steps[currentStepIndex + 1].status = "failed"
      BY <1>0, <2>1 DEF Current
    <2> QED BY <1>0, <1>1, <2>1, <2>2 DEF PlanOK, Told, Holding, Working
  <1>6. OnPage(r)' /\ Elsewhere(r)'
    <2>1. Len(steps) \in Nat
      OBVIOUS
    <2> QED BY <1>0, <1>1, <2>1 DEF OnPage, Elsewhere, Working, Holding
  <1>7. ASSUME NEW q \in Runs \ {r}, run[q].shown PROVE ~Acting(q) /\ run[q].pc # "giveup"
    <2>1. OnPage(q)
      BY <1>7 DEF DeliveryInv
    <2> QED BY <1>0, <2>1 DEF Acting, OnPage
  <1>8. ASSUME NEW q \in Runs \ {r}
        PROVE  PlanOK(q)' /\ Elsewhere(q)' /\ (run'[q].shown => OnPage(q)')
    <2>1. run'[q] = run[q] /\ PlanOK(q) /\ Elsewhere(q) /\ (run[q].shown => OnPage(q))
      BY <1>1 DEF Alone, DeliveryInv
    <2>2. PlanOK(q)' /\ Elsewhere(q)'
      BY <1>0, <2>1 DEF PlanOK, Told, Elsewhere
    <2>3. run[q].shown => run[q].pc \notin Working \cup {"adding", "giveup"}
      BY <1>7 DEF Acting
    <2>4. run[q].shown => OnPage(q)'
      BY <2>1, <2>3 DEF OnPage, Working
    <2> QED BY <2>1, <2>2, <2>4
  <1>9. ASSUME NEW q \in Runs \ {r}, run[q].pc \in Holding PROVE run[q].id # dbRecordId
    <2>1. ~run[q].shown
      BY <1>7, <1>9 DEF Holding, Acting
    <2> QED BY <1>9, <2>1 DEF DeliveryInv, Elsewhere
  <1>10. ASSUME NEW a \in Runs, NEW b \in Runs, a # b PROVE Apart(a, b)'
    <2>1. Apart(a, b)
      BY <1>10 DEF DeliveryInv
    <2>2. CASE a # r /\ b # r
      BY <1>1, <1>2, <2>1, <2>2 DEF Apart, Alone, Acting, KeepsOrder
    <2>3. CASE a = r
      BY <1>0, <1>1, <1>7, <1>9, <1>10, <2>3 DEF Apart, Alone, Acting, Holding, Working
    <2>4. CASE b = r
      <3>1. run'[a] = run[a] /\ (Acting(a)' <=> Acting(a))
        BY <1>1, <1>10, <2>4 DEF Alone, Acting
      <3>2. run[a].pc = "catching" => Before(a, r)'
        BY <1>2 DEF Awaiting
      <3> QED BY <1>0, <1>1, <1>7, <1>9, <1>10, <2>4, <3>1, <3>2 DEF Apart, Holding, Working
    <2> QED BY <2>2, <2>3, <2>4
  <1> QED BY <1>2, <1>3, <1>4, <1>5, <1>6, <1>8, <1>10 DEF DeliveryInv

----------------------------------------------------------------------------
(* The loop *)

LEMMA UpdateFacts ==
    ASSUME NEW ss \in Seq(Step), NEW j, NEW status \in Statuses
    PROVE  /\ UpdateStep(ss, j, status) \in Seq(Step)
           /\ Len(UpdateStep(ss, j, status)) = Len(ss) /\ Len(ss) \in Nat
           /\ \A m \in 1 .. Len(ss) :
                UpdateStep(ss, j, status)[m].status = IF m = j THEN status ELSE ss[m].status
  <1>1. DOMAIN ss = 1 .. Len(ss) /\ Len(ss) \in Nat /\ \A m \in 1 .. Len(ss) : ss[m] \in Step
    BY LenProperties, ElementOfSeq
  <1>2. ASSUME NEW m \in 1 .. Len(ss)
        PROVE  UpdateStep(ss, j, status)[m].status = IF m = j THEN status ELSE ss[m].status
    <2>1. ss[m] \in Step
      BY <1>1
    <2> QED BY <1>1, <2>1 DEF UpdateStep, Step
  <1> QED BY <1>1, <1>2, UpdateStepType

\* The loop hands step j to the wallet, or ends: the two branches of EnterLoop.
HandsOver(r, rn, j, ss, q) ==
  /\ ShowSteps(r, UpdateStep(ss, j, "signing"))
  /\ Suspend(r, [rn EXCEPT !.i = j, !.landed = FALSE], "sending")
  /\ queue' = q

Ends(r, rn, j, ss, q) ==
  /\ ShowSteps(r, ss)
  /\ Request(r, [rn EXCEPT !.i = j], "succeeding", q)

\* The loop is entered at a step that is not completed, or after the last: it
\* skips nothing.
LEMMA LoopEntered ==
    ASSUME NEW r, NEW rn \in Run, NEW ss \in Seq(Step), NEW q \in Seq(Entry),
           NEW j \in 1 .. Len(rn.todo) + 1, EnterLoop(r, rn, j, ss, q),
           j <= Len(rn.todo) => rn.todo[j].status # "completed"
    PROVE  IF j <= Len(rn.todo) THEN HandsOver(r, rn, j, ss, q) ELSE Ends(r, rn, j, ss, q)
  <1>0. Len(rn.todo) \in Nat
    BY LenProperties DEF Run
  <1>1. PICK k \in j .. Len(rn.todo) + 1 :
          /\ GoesOnAt(rn.todo, j, k)
          /\ IF k <= Len(rn.todo) THEN HandsOver(r, rn, k, ss, q) ELSE Ends(r, rn, k, ss, q)
    BY DEF EnterLoop, HandsOver, Ends
  <1>2. k = j
    <2>1. SUFFICES ASSUME k # j PROVE FALSE
      OBVIOUS
    <2>2. j \in j .. k - 1 /\ j <= Len(rn.todo)
      BY <1>0, <2>1
    <2> QED BY <1>1, <2>2 DEF GoesOnAt
  <1> QED BY <1>1, <1>2

\* What RecordAdded leaves: a new row, and its first step handed to the wallet.
Opened(r, id) ==
  LET todo == run[r].todo IN
  /\ id \in Ids /\ added' = id /\ Alone(r) /\ Settles(r) /\ queue' = Tail(queue)
  /\ Len(todo) \in Nat \ {0}
  /\ run'[r] = [run[r] EXCEPT !.id = id, !.i = 1, !.landed = FALSE, !.pc = "sending"]
  /\ OtherRows(id)
  /\ Len(moved'[id]) = Len(todo) /\ Len(lost'[id]) = Len(todo)
  /\ Len(confirmed'[id]) = Len(todo)
  /\ \A j \in 1 .. Len(todo) : moved'[id][j] = 0 /\ lost'[id][j] = 0
  /\ IF run[r].shown
     THEN /\ phase' = "executing" /\ currentStepIndex' = 0 /\ dbRecordId' = id
          /\ steps' = UpdateStep(todo, 1, "signing")
     ELSE UNCHANGED <<phase, currentStepIndex, dbRecordId, steps>>

LEMMA AddedFacts ==
    ASSUME TypeOK, DeliveryInv, NEW r \in Runs, RecordAdded(r)
    PROVE  Opened(r, added + 1)
  <1> DEFINE id == added + 1
  <1> DEFINE rn == [run[r] EXCEPT !.id = id]
             todo == run[r].todo
  <1>1. run[r].pc = "adding" /\ Settles(r) /\ id \in Ids /\ added' = id
    BY DEF RecordAdded
  <1>2. /\ run[r] \in Run /\ rn \in Run /\ rn.todo = todo /\ todo \in Seq(Step)
        /\ Len(todo) \in Nat /\ DOMAIN todo = 1 .. Len(todo)
    BY <1>1, DeliveryTypes, LenProperties DEF Run
  <1>3. Len(todo) > 0 /\ \A j \in 1 .. Len(todo) : todo[j].status = "pending"
    BY <1>1 DEF DeliveryInv, PlanOK
  <1>4. EnterLoop(r, rn, 1, rn.todo, Tail(queue))
    BY DEF RecordAdded
  <1>5. /\ Alone(r) /\ steps' = Shows(r, steps, UpdateStep(todo, 1, "signing"))
        /\ run'[r] = [rn EXCEPT !.i = 1, !.landed = FALSE, !.pc = "sending"]
        /\ queue' = Tail(queue)
    <2>1. 1 \in 1 .. Len(rn.todo) + 1 /\ 1 <= Len(rn.todo) /\ rn.todo[1].status # "completed"
      BY <1>2, <1>3
    <2>2. rn \in Run /\ rn.todo = todo /\ rn.todo \in Seq(Step) /\ Tail(queue) \in Seq(Entry)
      BY <1>1, <1>2, TailFacts DEF Settles, TypeOK
    <2> HIDE DEF rn, todo
    <2>3. HandsOver(r, rn, 1, rn.todo, Tail(queue))
      BY <1>4, <2>1, <2>2, LoopEntered
    <2> QED BY <2>2, <2>3 DEF HandsOver, ShowSteps, Suspend, Alone, TypeOK
  <1>6. run'[r] = [run[r] EXCEPT !.id = id, !.i = 1, !.landed = FALSE, !.pc = "sending"]
    BY <1>2, <1>5 DEF Run
  <1>7. /\ moved' = [moved EXCEPT ![id] = [j \in DOMAIN todo |-> 0]]
        /\ lost' = [lost EXCEPT ![id] = [j \in DOMAIN todo |-> 0]]
        /\ confirmed' = [confirmed EXCEPT ![id] = [j \in DOMAIN todo |-> FALSE]]
    BY <1>2 DEF RecordAdded
  <1>8. OtherRows(id)
    BY <1>1, <1>7 DEF OtherRows, TypeOK
  <1>9. /\ Len([j \in DOMAIN todo |-> 0]) = Len(todo)
        /\ Len([j \in DOMAIN todo |-> FALSE]) = Len(todo)
    <2>1. [j \in DOMAIN todo |-> 0] \in [DOMAIN todo -> Nat]
      OBVIOUS
    <2>2. [j \in DOMAIN todo |-> FALSE] \in [DOMAIN todo -> BOOLEAN]
      OBVIOUS
    <2> QED BY <1>2, <2>1, <2>2, SameShape
  <1>10. /\ moved'[id] = [j \in DOMAIN todo |-> 0] /\ lost'[id] = [j \in DOMAIN todo |-> 0]
         /\ confirmed'[id] = [j \in DOMAIN todo |-> FALSE]
    BY <1>1, <1>7 DEF TypeOK
  <1>11. IF run[r].shown
         THEN /\ phase' = "executing" /\ currentStepIndex' = 0 /\ dbRecordId' = id
              /\ steps' = UpdateStep(todo, 1, "signing")
         ELSE UNCHANGED <<phase, currentStepIndex, dbRecordId, steps>>
    BY <1>5 DEF RecordAdded, ShowPhase, Shows
  <1> QED BY <1>1, <1>2, <1>3, <1>5, <1>6, <1>8, <1>9, <1>10, <1>11 DEF Opened

LEMMA RecordAddedStep ==
    ASSUME TypeOK, DeliveryInv, NEW r \in Runs, RecordAdded(r)
    PROVE  DeliveryInv'
  <1> USE DeliveryTypes
  <1> SUFFICES ASSUME NEW id, id = added + 1 PROVE DeliveryInv'
    OBVIOUS
  <1> DEFINE todo == run[r].todo
  <1>0. /\ run[r].pc = "adding" /\ run[r] \in Run /\ todo \in Seq(Step)
        /\ \A j \in 1 .. Len(todo) : todo[j].status = "pending"
    BY DEF RecordAdded, DeliveryInv, PlanOK
  <1>1. /\ id \in Ids /\ added' = id /\ Alone(r) /\ Settles(r) /\ queue' = Tail(queue)
        /\ Len(todo) \in Nat \ {0}
        /\ run'[r] = [run[r] EXCEPT !.id = id, !.i = 1, !.landed = FALSE, !.pc = "sending"]
        /\ OtherRows(id)
        /\ Len(moved'[id]) = Len(todo) /\ Len(lost'[id]) = Len(todo) /\ Len(confirmed'[id]) = Len(todo)
        /\ \A j \in 1 .. Len(todo) : moved'[id][j] = 0 /\ lost'[id][j] = 0
        /\ IF run[r].shown
           THEN /\ phase' = "executing" /\ currentStepIndex' = 0 /\ dbRecordId' = id
                /\ steps' = UpdateStep(todo, 1, "signing")
           ELSE UNCHANGED <<phase, currentStepIndex, dbRecordId, steps>>
    <2>1. Opened(r, id)
      BY AddedFacts
    <2> QED BY <2>1 DEF Opened
  <1>2. /\ run'[r].pc = "sending" /\ run'[r].id = id /\ run'[r].i = 1 /\ run'[r].todo = todo
        /\ run'[r].shown = run[r].shown
    BY <1>0, <1>1 DEF Run
  <1>3. QueueInv' /\ KeepsOrder(r)
    BY <1>0, <1>1, <1>2, QueueLeaves DEF DeliveryInv, Awaiting
  <1>4. \A a \in Runs : ~Before(a, r)
    BY <1>1, NoneAhead DEF DeliveryInv
  <1>5. \A x \in 1 .. added : /\ x \in Ids \ {id} /\ moved'[x] = moved[x] /\ lost'[x] = lost[x]
                              /\ confirmed'[x] = confirmed[x]
    BY <1>1 DEF OtherRows
  <1> HIDE DEF todo
  <1>6. ASSUME NEW x \in 1 .. added' PROVE RowOK(x)'
    <2>1. CASE x = id
      BY <1>1, <2>1 DEF RowOK
    <2>2. CASE x # id
      <3>1. x \in 1 .. added
        BY <1>1, <2>2
      <3>2. RowOK(x)
        BY <3>1 DEF DeliveryInv
      <3> QED BY <1>5, <3>1, <3>2 DEF RowOK
    <2> QED BY <2>1, <2>2
  <1>7. PageOK'
    <2>1. CASE run[r].shown
      <3>1. /\ Len(steps') = Len(todo) /\ steps'[1].status = "signing"
            /\ \A j \in 2 .. Len(todo) : steps'[j].status = "pending"
        <4>1. steps' = UpdateStep(todo, 1, "signing")
          BY <1>1, <2>1
        <4>2. /\ Len(steps') = Len(todo)
              /\ \A m \in 1 .. Len(todo) : steps'[m].status = IF m = 1 THEN "signing" ELSE todo[m].status
          BY <1>0, <4>1, UpdateFacts DEF Statuses
        <4>3. 1 \in 1 .. Len(todo) /\ \A j \in 2 .. Len(todo) : j \in 1 .. Len(todo) /\ j # 1
          BY <1>1
        <4>4. ASSUME NEW j \in 2 .. Len(todo) PROVE steps'[j].status = "pending"
          <5>1. steps'[j].status = todo[j].status /\ todo[j].status = "pending"
            BY <1>0, <4>2, <4>3
          <5> QED BY <5>1
        <4>5. steps'[1].status = "signing"
          BY <4>2, <4>3
        <4> QED BY <4>2, <4>4, <4>5
      <3> QED BY <1>1, <2>1, <3>1 DEF PageOK, Current
    <2>2. CASE ~run[r].shown
      <3>1. PageOK /\ UNCHANGED <<phase, currentStepIndex, dbRecordId, steps>>
        BY <1>1, <2>2 DEF DeliveryInv
      <3>2. CASE dbRecordId = Null
        BY <3>1, <3>2 DEF PageOK, Current
      <3>3. CASE dbRecordId # Null
        <4>1. dbRecordId \in 1 .. added /\ dbRecordId \in 1 .. added'
          BY <1>1, <3>1, <3>3 DEF PageOK
        <4> QED BY <1>5, <3>1, <3>3, <4>1 DEF PageOK, Told, Current
      <3> QED BY <3>2, <3>3
    <2> QED BY <2>1, <2>2
  <1>8. PlanOK(r)'
    <2>1. moved'[id][1] <= lost'[id][1]
      BY <1>1
    <2> QED BY <1>0, <1>1, <1>2, <2>1 DEF PlanOK, Told, Working, Holding
  <1>9. ASSUME NEW q \in Runs \ {r} PROVE PlanOK(q)'
    <2>1. PlanOK(q) /\ run'[q] = run[q]
      BY <1>1 DEF DeliveryInv, Alone
    <2>2. CASE run[q].pc \in Working
      <3>1. run[q].id \in 1 .. added
        BY <2>1, <2>2 DEF PlanOK, Holding
      <3>2. /\ moved'[run[q].id] = moved[run[q].id] /\ lost'[run[q].id] = lost[run[q].id]
            /\ confirmed'[run[q].id] = confirmed[run[q].id] /\ run[q].id \in 1 .. added'
        BY <1>1, <1>5, <3>1
      <3> QED BY <2>1, <2>2, <3>2 DEF PlanOK, Told
    <2>3. CASE run[q].pc \notin Working
      BY <1>1, <2>1, <2>3 DEF PlanOK, Working, Holding
    <2> QED BY <2>2, <2>3
  <1>10. ASSUME run'[r].shown PROVE OnPage(r)'
    <2>1. Len(steps') = Len(todo) /\ steps'[1].status = "signing"
      BY <1>0, <1>1, <1>2, <1>10, UpdateFacts DEF Statuses
    <2> QED BY <1>1, <1>2, <1>10, <2>1 DEF OnPage, Working, Current
  <1>11. ASSUME NEW q \in Runs \ {r}, run'[q].shown PROVE OnPage(q)'
    <2>1. run'[q] = run[q] /\ OnPage(q) /\ Apart(r, q) /\ Apart(q, r)
      BY <1>1, <1>11 DEF Alone, DeliveryInv
    <2>2. CASE run[r].shown
      <3>1. ~Acting(q) /\ run[q].pc # "giveup"
        BY <1>0, <1>4, <1>11, <2>1, <2>2 DEF Apart, Acting
      <3> QED BY <2>1, <3>1 DEF OnPage, Acting, Working
    <2>3. CASE ~run[r].shown
      BY <1>1, <2>1, <2>3 DEF OnPage, Current
    <2> QED BY <2>2, <2>3
  <1>12. ASSUME NEW q \in Runs \ {r} PROVE Elsewhere(q)'
    <2>1. run'[q] = run[q] /\ Elsewhere(q) /\ PlanOK(q)
      BY <1>1 DEF Alone, DeliveryInv
    <2>2. run[q].pc \in Holding => run[q].id # id
      BY <2>1 DEF PlanOK
    <2> QED BY <1>1, <2>1, <2>2 DEF Elsewhere
  <1>13. Elsewhere(r)'
    <2>1. dbRecordId # id
      <3>1. dbRecordId # Null => dbRecordId \in 1 .. added
        BY DEF DeliveryInv, PageOK
      <3> QED BY <1>1, <3>1
    <2> QED BY <1>0, <1>1, <1>2, <2>1 DEF Elsewhere, DeliveryInv
  <1>14. ASSUME NEW q \in Runs \ {r}, run[q].pc \in Holding \cup {"catching"} PROVE run[q].id # id
    BY <1>14 DEF DeliveryInv, PlanOK
  <1>15. ASSUME NEW a \in Runs, NEW b \in Runs, a # b PROVE Apart(a, b)'
    <2>1. Apart(a, b) /\ Apart(b, a)
      BY <1>15 DEF DeliveryInv
    <2>2. CASE a # r /\ b # r
      BY <1>1, <1>3, <2>1, <2>2 DEF Apart, Alone, Acting, KeepsOrder
    <2>3. CASE a = r
      <3>1. run'[b] = run[b] /\ (Acting(b)' <=> Acting(b)) /\ Acting(r)
        BY <1>0, <1>1, <1>15, <2>3 DEF Alone, Acting
      <3> QED BY <1>2, <1>14, <1>15, <2>1, <2>3, <3>1 DEF Apart, Holding
    <2>4. CASE b = r
      <3>1. run'[a] = run[a] /\ (Acting(a)' <=> Acting(a)) /\ Acting(r)
        BY <1>0, <1>1, <1>15, <2>4 DEF Alone, Acting
      <3> QED BY <1>2, <1>4, <1>14, <1>15, <2>1, <2>4, <3>1 DEF Apart, Holding
    <2> QED BY <2>2, <2>3, <2>4
  <1> QED BY <1>3, <1>6, <1>7, <1>8, <1>9, <1>10, <1>11, <1>12, <1>13, <1>15 DEF DeliveryInv

----------------------------------------------------------------------------
(* The steps of a coroutine between two turns of the loop *)

LEMMA BumpedFacts ==
    ASSUME NEW f \in [Ids -> Seq(Nat)], NEW X \in Ids, NEW i, NEW g, g = [f EXCEPT ![X][i] = @ + 1]
    PROVE  /\ Len(g[X]) = Len(f[X])
           /\ \A j \in 1 .. Len(f[X]) : g[X][j] = IF j = i THEN f[X][j] + 1 ELSE f[X][j]
           /\ \A x \in Ids \ {X} : g[x] = f[x]
  <1>1. f[X] \in Seq(Nat)
    OBVIOUS
  <1>2. DOMAIN f[X] = 1 .. Len(f[X]) /\ f[X] \in [DOMAIN f[X] -> Nat]
    BY <1>1, LenProperties
  <1>3. g[X] = [f[X] EXCEPT ![i] = @ + 1]
    OBVIOUS
  <1>4. Len(g[X]) = Len(f[X])
    BY <1>1, <1>2, <1>3, BumpFunction, SameShape
  <1> QED BY <1>2, <1>3, <1>4

LEMMA MarkedFacts ==
    ASSUME NEW f \in [Ids -> Seq(BOOLEAN)], NEW X \in Ids, NEW i, NEW g, g = [f EXCEPT ![X][i] = TRUE]
    PROVE  /\ Len(g[X]) = Len(f[X])
           /\ \A j \in 1 .. Len(f[X]) : g[X][j] <=> j = i \/ f[X][j]
           /\ \A x \in Ids \ {X} : g[x] = f[x]
  <1>1. f[X] \in Seq(BOOLEAN)
    OBVIOUS
  <1>2. DOMAIN f[X] = 1 .. Len(f[X]) /\ \A j \in DOMAIN f[X] : f[X][j] \in BOOLEAN
    BY <1>1, LenProperties, ElementOfSeq
  <1>3. g[X] = [f[X] EXCEPT ![i] = TRUE] /\ f[X] = [j \in DOMAIN f[X] |-> f[X][j]]
    BY <1>1
  <1>4. Len(g[X]) = Len(f[X])
    <2>1. g[X] \in [DOMAIN f[X] -> BOOLEAN]
      BY <1>2, <1>3
    <2> QED BY <1>1, <2>1, SameShape
  <1> QED BY <1>2, <1>3, <1>4

LEMMA WorkingFacts ==
    ASSUME TypeOK, DeliveryInv, NEW r \in Runs, run[r].pc \in Working
    PROVE  /\ run[r].id \in Ids /\ run[r].id \in 1 .. added /\ run[r].id # Null
           /\ RowOK(run[r].id) /\ PlanOK(r) /\ PageOK /\ (run[r].shown => OnPage(r))
           /\ Len(moved[run[r].id]) = Len(run[r].todo) /\ Len(lost[run[r].id]) = Len(run[r].todo)
           /\ Len(confirmed[run[r].id]) = Len(run[r].todo)
           /\ run[r].pc # "succeeding" => run[r].i \in 1 .. Len(run[r].todo)
  <1>1. PlanOK(r) /\ PageOK /\ (run[r].shown => OnPage(r))
    BY DEF DeliveryInv
  <1>2. run[r].id \in 1 .. added /\ run[r].id \in Ids /\ run[r].id # Null
    BY <1>1, DeliveryTypes DEF PlanOK, Holding
  <1>3. RowOK(run[r].id)
    BY <1>2 DEF DeliveryInv
  <1> QED BY <1>1, <1>2, <1>3 DEF PlanOK, RowOK

\* The page marks the step its coroutine is at.
LEMMA MarkPage ==
    ASSUME TypeOK, DeliveryInv, NEW r \in Runs, run[r].pc \in Working \ {"succeeding"}, run[r].shown,
           NEW X, X = run[r].id, NEW i, i = run[r].i, NEW status \in Statuses,
           steps' = UpdateStep(steps, i, status),
           UNCHANGED <<phase, currentStepIndex, dbRecordId, added, moved>>,
           \A j \in 1 .. Len(run[r].todo) : confirmed[X][j] => confirmed'[X][j],
           status = "failed" => Told(X, i)'
    PROVE  PageOK' /\ Len(steps') = Len(steps) /\ Current' = status
  <1> USE DeliveryTypes
  <1>0. /\ X \in 1 .. added /\ X # Null /\ dbRecordId = X /\ phase = "executing"
        /\ Len(steps) = Len(run[r].todo) /\ run[r].i = currentStepIndex + 1
        /\ run[r].i \in 1 .. Len(steps) /\ PageOK
    BY WorkingFacts DEF OnPage
  <1>1. /\ Len(steps') = Len(steps)
        /\ \A m \in 1 .. Len(steps) : steps'[m].status = IF m = run[r].i THEN status ELSE steps[m].status
    BY UpdateFacts
  <1>2. Current' = status
    BY <1>0, <1>1 DEF Current
  <1>3. /\ Len(steps) = Len(moved[X]) /\ currentStepIndex < Len(steps)
        /\ \A j \in 1 .. currentStepIndex : steps[j].status = "completed" /\ confirmed[X][j]
        /\ \A j \in currentStepIndex + 2 .. Len(steps) : steps[j].status = "pending" /\ moved[X][j] = 0
    BY <1>0 DEF PageOK
  <1>4. ASSUME NEW j \in 1 .. currentStepIndex
        PROVE  steps'[j].status = "completed" /\ confirmed'[X][j]
    <2>1. j \in 1 .. Len(steps) /\ j \in 1 .. Len(run[r].todo) /\ j # run[r].i
      BY <1>0, <1>3
    <2>2. steps'[j].status = steps[j].status
      BY <1>1, <2>1
    <2> QED BY <1>3, <2>1, <2>2
  <1>5. ASSUME NEW j \in currentStepIndex + 2 .. Len(steps)
        PROVE  steps'[j].status = "pending" /\ moved'[X][j] = 0
    <2>1. j \in 1 .. Len(steps) /\ j # run[r].i
      BY <1>0
    <2>2. steps'[j].status = steps[j].status
      BY <1>1, <2>1
    <2> QED BY <1>3, <2>2
  <1>6. status = "failed" => Told(X, currentStepIndex + 1)'
    BY <1>0 DEF Told
  <1> QED BY <1>0, <1>1, <1>2, <1>3, <1>4, <1>5, <1>6 DEF PageOK

LEMMA ChainAcceptsStep ==
    ASSUME TypeOK, DeliveryInv, TypeOK', NEW r \in Runs, ChainAccepts(r)
    PROVE  DeliveryInv'
  <1> USE DeliveryTypes
  <1> SUFFICES ASSUME NEW X, X = run[r].id PROVE DeliveryInv'
    OBVIOUS
  <1>0. /\ run[r].pc = "sending" /\ ~run[r].landed
        /\ UNCHANGED <<phase, steps, currentStepIndex, dbRecordId, added, queue, lost, confirmed>>
    BY DEF ChainAccepts, ui, store
  <1>1. run[r].pc \in Working
    BY <1>0 DEF Working
  <1>2. /\ X \in Ids /\ X \in 1 .. added /\ RowOK(X) /\ PlanOK(r) /\ PageOK /\ (run[r].shown => OnPage(r))
        /\ Len(moved[X]) = Len(run[r].todo) /\ run[r].i \in 1 .. Len(run[r].todo)
    BY <1>0, <1>1, WorkingFacts
  <1>3. /\ Alone(r) /\ run'[r] = [run[r] EXCEPT !.landed = TRUE]
    BY DEF ChainAccepts, Alone, TypeOK
  <1>4. /\ run'[r].pc = "sending" /\ run'[r].landed /\ run'[r].id = X /\ run'[r].i = run[r].i
        /\ run'[r].todo = run[r].todo /\ run'[r].shown = run[r].shown
    BY <1>0, <1>3 DEF Run
  <1>5. /\ Len(moved'[X]) = Len(moved[X])
        /\ \A j \in 1 .. Len(moved[X]) :
             moved'[X][j] = IF j = run[r].i THEN moved[X][j] + 1 ELSE moved[X][j]
        /\ \A x \in Ids \ {X} : moved'[x] = moved[x]
    <2>1. moved' = [moved EXCEPT ![X][run[r].i] = @ + 1] /\ moved \in [Ids -> Seq(Nat)]
      BY DEF ChainAccepts, TypeOK
    <2>2. X \in Ids
      BY <1>2
    <2> HIDE DeliveryTypes
    <2> QED BY <2>1, <2>2, BumpedFacts
  <1>6. RowOK(X)'
    <2>1. /\ Told(X, run[r].i) /\ \A j \in 1 .. run[r].i - 1 : confirmed[X][j]
      BY <1>0, <1>1, <1>2 DEF PlanOK
    <2>2. ASSUME NEW i \in 1 .. Len(moved[X])
          PROVE  /\ moved'[X][i] <= 1 + lost[X][i]
                 /\ moved'[X][i] > 0 => \A j \in 1 .. i - 1 : confirmed[X][j]
      <3>1. CASE i = run[r].i
        <4>1. moved'[X][i] = moved[X][i] + 1 /\ moved[X][i] <= lost[X][i]
          BY <1>5, <2>1, <3>1 DEF Told
        <4>2. moved[X][i] \in Nat /\ lost[X][i] \in Nat
          <5>1. i \in 1 .. Len(moved[X]) /\ i \in 1 .. Len(lost[X])
            BY <1>2 DEF RowOK
          <5> QED BY <1>2, <5>1
        <4>3. moved'[X][i] <= 1 + lost[X][i]
          <5>1. \A a, b \in Nat : a <= b => a + 1 <= 1 + b
            OBVIOUS
          <5> HIDE DeliveryTypes
          <5> QED BY <4>1, <4>2, <5>1
        <4>4. \A j \in 1 .. i - 1 : confirmed[X][j]
          BY <2>1, <3>1
        <4> QED BY <4>3, <4>4
      <3>2. CASE i # run[r].i
        <4>1. moved'[X][i] = moved[X][i]
          BY <1>5, <3>2
        <4>2. /\ moved[X][i] <= 1 + lost[X][i]
              /\ moved[X][i] > 0 => \A j \in 1 .. i - 1 : confirmed[X][j]
          BY <1>2 DEF RowOK
        <4> QED BY <4>1, <4>2
      <3> QED BY <3>1, <3>2
    <2> QED BY <1>0, <1>2, <1>5, <2>2 DEF RowOK
  <1>7. PlanOK(r)'
    <2>1. /\ Len(moved[X]) = Len(run[r].todo)
          /\ \A j \in 1 .. run[r].i - 1 : confirmed[X][j]
          /\ \A j \in run[r].i + 1 .. Len(run[r].todo) :
               run[r].todo[j].status = "pending" /\ moved[X][j] = 0
      BY <1>0, <1>1, <1>2 DEF PlanOK
    <2>2. ASSUME NEW j \in run[r].i + 1 .. Len(run[r].todo) PROVE moved'[X][j] = 0
      <3>1. j \in 1 .. Len(moved[X]) /\ j # run[r].i
        BY <1>2
      <3> QED BY <1>5, <2>1, <3>1
    <2> QED BY <1>0, <1>2, <1>4, <1>5, <2>1, <2>2 DEF PlanOK
  <1>8. ASSUME run[r].shown PROVE PageOK' /\ OnPage(r)' /\ phase' = "executing"
    <2>1. /\ dbRecordId = X /\ run[r].i = currentStepIndex + 1 /\ Current # "failed"
          /\ Len(steps) = Len(run[r].todo) /\ phase = "executing" /\ dbRecordId # Null
      BY <1>0, <1>1, <1>2, <1>8 DEF OnPage
    <2>2. ASSUME NEW j \in currentStepIndex + 2 .. Len(steps)
          PROVE  steps[j].status = "pending" /\ moved'[X][j] = 0
      <3>1. j \in 1 .. Len(moved[X]) /\ j # run[r].i
        BY <1>2, <2>1
      <3>2. steps[j].status = "pending" /\ moved[X][j] = 0
        BY <1>2, <2>1 DEF PageOK
      <3> QED BY <1>5, <3>1, <3>2
    <2>3. PageOK'
      BY <1>0, <1>2, <1>5, <2>1, <2>2 DEF PageOK, Current
    <2>4. OnPage(r)'
      BY <1>0, <1>4, <2>1 DEF OnPage, Current, Working
    <2> QED BY <1>0, <2>1, <2>3, <2>4
  <1>9. OtherRows(X)
    BY <1>0, <1>5 DEF OtherRows
  <1>10. QueueInv' /\ KeepsOrder(r)
    BY <1>0, <1>3, <1>4, QueuePasses DEF DeliveryInv
  <1> QED BY <1>0, <1>1, <1>3, <1>4, <1>6, <1>7, <1>8, <1>9, <1>10, WorkingStep DEF Holding, Working

\* What is confirmed stays confirmed, and nothing was sent.
LEMMA RowGrows ==
    ASSUME NEW X, RowOK(X), moved'[X] = moved[X], lost'[X] = lost[X],
           Len(confirmed'[X]) = Len(confirmed[X]), Len(moved[X]) \in Nat,
           \A j \in 1 .. Len(moved[X]) : confirmed[X][j] => confirmed'[X][j]
    PROVE  RowOK(X)'
  <1>1. ASSUME NEW i \in 1 .. Len(moved[X]), moved[X][i] > 0, NEW j \in 1 .. i - 1
        PROVE  confirmed'[X][j]
    <2>1. confirmed[X][j] /\ j \in 1 .. Len(moved[X])
      BY <1>1 DEF RowOK
    <2> QED BY <2>1
  <1>2. /\ Len(lost[X]) = Len(moved[X]) /\ Len(confirmed[X]) = Len(moved[X])
        /\ \A i \in 1 .. Len(moved[X]) : moved[X][i] <= 1 + lost[X][i]
    BY DEF RowOK
  <1> QED BY <1>1, <1>2 DEF RowOK

\* The coroutine's part of PlanOK when its step is on the chain, with the rest
\* of its plan as it was.
LEMMA PlanGoesOn ==
    ASSUME TypeOK, DeliveryInv, NEW r \in Runs, run[r].pc \in Working \ {"succeeding"}, UNCHANGED added,
           run'[r].pc \in {"hopstart", "tracking", "recording", "failing", "giveup", "catching"},
           run'[r].id = run[r].id, run'[r].todo = run[r].todo, run'[r].i = run[r].i,
           NEW X, X = run[r].id, moved'[X] = moved[X],
           \A j \in 1 .. Len(run[r].todo) : confirmed[X][j] => confirmed'[X][j],
           NEW i, i = run[r].i, run'[r].pc = "recording" => confirmed'[X][i]
    PROVE  PlanOK(r)'
  <1>1. /\ X \in 1 .. added /\ Len(moved[X]) = Len(run[r].todo) /\ i \in 1 .. Len(run[r].todo)
        /\ \A j \in 1 .. i - 1 : confirmed[X][j]
        /\ \A j \in i + 1 .. Len(run[r].todo) : run[r].todo[j].status = "pending" /\ moved[X][j] = 0
    BY WorkingFacts DEF PlanOK
  <1>2. ASSUME NEW j \in 1 .. i - 1 PROVE confirmed'[X][j]
    <2>1. j \in 1 .. Len(run[r].todo) /\ confirmed[X][j]
      BY <1>1, DeliveryTypes
    <2> QED BY <2>1
  <1> QED BY <1>1, <1>2 DEF PlanOK, Holding, Working

\* A step is done: CompleteStep.
LEMMA CompletingStep ==
    ASSUME TypeOK, DeliveryInv, TypeOK', NEW r \in Runs, run[r].pc \in {"sending", "tracking"},
           NEW q \in Seq(Entry), CompleteStep(r, run[r], q),
           UNCHANGED <<phase, currentStepIndex, dbRecordId, added, moved, lost>>,
           QueueInv' /\ KeepsOrder(r)
    PROVE  DeliveryInv'
  <1> USE DeliveryTypes
  <1> SUFFICES ASSUME NEW X, X = run[r].id, NEW i, i = run[r].i PROVE DeliveryInv'
    OBVIOUS
  <1>1. run[r].pc \in Working \ {"succeeding"} /\ run[r].pc # "resuming"
    BY DEF Working
  <1>2. /\ X \in Ids /\ RowOK(X) /\ (run[r].shown => OnPage(r)) /\ i \in 1 .. Len(run[r].todo)
        /\ Len(moved[X]) = Len(run[r].todo) /\ Len(confirmed[X]) = Len(run[r].todo)
    BY <1>1, WorkingFacts
  <1>3. Alone(r) /\ run'[r] = [run[r] EXCEPT !.pc = "recording"]
    BY DEF CompleteStep, Request, Suspend, Alone, TypeOK
  <1>4. /\ run'[r].pc = "recording" /\ run'[r].id = X /\ run'[r].i = i
        /\ run'[r].todo = run[r].todo /\ run'[r].shown = run[r].shown
    BY <1>3 DEF Run
  <1>5. /\ Len(confirmed'[X]) = Len(confirmed[X]) /\ confirmed'[X][i]
        /\ \A j \in 1 .. Len(confirmed[X]) : confirmed[X][j] => confirmed'[X][j]
        /\ \A x \in Ids \ {X} : confirmed'[x] = confirmed[x]
    <2>1. confirmed' = [confirmed EXCEPT ![X][i] = TRUE] /\ confirmed \in [Ids -> Seq(BOOLEAN)]
      BY DEF CompleteStep, TypeOK
    <2> QED BY <1>2, <2>1, MarkedFacts
  <1>6. RowOK(X)'
    BY <1>2, <1>5, RowGrows
  <1>7. PlanOK(r)'
    BY <1>1, <1>2, <1>4, <1>5, PlanGoesOn
  <1>8. ~run[r].shown => UNCHANGED steps
    BY DEF CompleteStep, ShowSteps, Shows
  <1>9. ASSUME run[r].shown PROVE PageOK' /\ OnPage(r)' /\ phase' = "executing"
    <2>1. steps' = UpdateStep(steps, i, "completed")
      BY <1>9 DEF CompleteStep, ShowSteps, Shows
    <2>2. PageOK' /\ Len(steps') = Len(steps) /\ Current' = "completed"
      BY <1>1, <1>2, <1>5, <1>9, <2>1, MarkPage DEF Statuses
    <2>3. /\ phase = "executing" /\ dbRecordId = X /\ Len(steps) = Len(run[r].todo)
          /\ i = currentStepIndex + 1
      BY <1>1, <1>2, <1>9 DEF OnPage
    <2> QED BY <1>4, <2>2, <2>3 DEF OnPage, Working
  <1>10. OtherRows(X)
    BY <1>5 DEF OtherRows
  <1> QED BY <1>1, <1>3, <1>4, <1>6, <1>7, <1>8, <1>9, <1>10, WorkingStep DEF Holding, Working

\* The step is on the chain, and its packets are followed.
LEMMA ConfirmingStep ==
    ASSUME TypeOK, DeliveryInv, TypeOK', NEW r \in Runs, run[r].pc = "sending", Alone(r),
           run'[r].pc \in {"tracking", "hopstart"}, run'[r].id = run[r].id, run'[r].i = run[r].i,
           run'[r].todo = run[r].todo, run'[r].shown = run[r].shown,
           ShowSteps(r, UpdateStep(steps, run[r].i, "confirming")),
           UNCHANGED <<phase, currentStepIndex, dbRecordId, added, moved, lost, confirmed>>,
           QueueInv' /\ KeepsOrder(r)
    PROVE  DeliveryInv'
  <1> USE DeliveryTypes
  <1> SUFFICES ASSUME NEW X, X = run[r].id, NEW i, i = run[r].i PROVE DeliveryInv'
    OBVIOUS
  <1>1. run[r].pc \in Working \ {"succeeding"} /\ run[r].pc # "resuming"
    BY DEF Working
  <1>2. /\ X \in Ids /\ RowOK(X) /\ (run[r].shown => OnPage(r)) /\ i \in 1 .. Len(run[r].todo)
    BY <1>1, WorkingFacts
  <1>3. UNCHANGED <<moved, lost, confirmed>>
    OBVIOUS
  <1>4. RowOK(X)' /\ OtherRows(X)
    BY <1>2, <1>3 DEF RowOK, OtherRows
  <1>5. PlanOK(r)'
    BY <1>1, <1>3, PlanGoesOn
  <1>6. ~run[r].shown => UNCHANGED steps
    BY DEF ShowSteps, Shows
  <1>7. ASSUME run[r].shown PROVE PageOK' /\ OnPage(r)' /\ phase' = "executing"
    <2>1. steps' = UpdateStep(steps, i, "confirming")
      BY <1>7 DEF ShowSteps, Shows
    <2>2. PageOK' /\ Len(steps') = Len(steps) /\ Current' = "confirming"
      BY <1>1, <1>2, <1>3, <1>7, <2>1, MarkPage DEF Statuses
    <2>3. /\ phase = "executing" /\ dbRecordId = X /\ Len(steps) = Len(run[r].todo)
          /\ i = currentStepIndex + 1
      BY <1>1, <1>2, <1>7 DEF OnPage
    <2> QED BY <2>2, <2>3 DEF OnPage, Working
  <1> QED BY <1>1, <1>4, <1>5, <1>6, <1>7, WorkingStep DEF Holding, Working

LEMMA SendSucceedsStep ==
    ASSUME TypeOK, DeliveryInv, TypeOK', NEW r \in Runs, SendSucceeds(r)
    PROVE  DeliveryInv'
  <1> USE DeliveryTypes
  <1>0. /\ run[r].pc = "sending" /\ run[r].pc \notin Awaiting /\ queue \in Seq(Entry)
        /\ UNCHANGED <<phase, currentStepIndex, dbRecordId, added, moved, lost>>
    BY DEF SendSucceeds, Awaiting, TypeOK
  <1>1. CASE CompleteStep(r, run[r], queue)
    <2>1. /\ Alone(r) /\ run'[r].pc = "recording" /\ queue' = Append(queue, Awaited(r))
      BY <1>1 DEF CompleteStep, Request, Suspend, Alone, TypeOK, Run
    <2>2. QueueInv' /\ KeepsOrder(r)
      BY <1>0, <2>1, QueueJoins DEF DeliveryInv, Awaiting
    <2> QED BY <1>0, <1>1, <2>2, CompletingStep
  <1>2. CASE /\ ShowSteps(r, UpdateStep(steps, run[r].i, "confirming"))
             /\ Suspend(r, run[r], "tracking") /\ UNCHANGED <<confirmed, queue>>
    <2>1. Alone(r) /\ run'[r] = [run[r] EXCEPT !.pc = "tracking"]
      BY <1>2 DEF Suspend, Alone, TypeOK
    <2>2. /\ run'[r].pc = "tracking" /\ run'[r].id = run[r].id /\ run'[r].i = run[r].i
          /\ run'[r].todo = run[r].todo /\ run'[r].shown = run[r].shown
      BY <2>1 DEF Run
    <2>3. QueueInv' /\ KeepsOrder(r)
      BY <1>0, <1>2, <2>1, <2>2, QueuePasses DEF DeliveryInv, Awaiting
    <2> QED BY <1>0, <1>2, <2>1, <2>2, <2>3, ConfirmingStep
  <1>3. CASE /\ ShowSteps(r, UpdateStep(steps, run[r].i, "confirming"))
             /\ Request(r, [run[r] EXCEPT !.hop = 0], "hopstart", queue) /\ UNCHANGED confirmed
    <2>1. /\ Alone(r) /\ run'[r] = [[run[r] EXCEPT !.hop = 0] EXCEPT !.pc = "hopstart"]
          /\ queue' = Append(queue, Awaited(r))
      BY <1>3 DEF Request, Suspend, Alone, TypeOK
    <2>2. /\ run'[r].pc = "hopstart" /\ run'[r].id = run[r].id /\ run'[r].i = run[r].i
          /\ run'[r].todo = run[r].todo /\ run'[r].shown = run[r].shown
      BY <2>1 DEF Run
    <2>3. QueueInv' /\ KeepsOrder(r)
      BY <1>0, <2>1, <2>2, QueueJoins DEF DeliveryInv, Awaiting
    <2> QED BY <1>0, <1>3, <2>1, <2>2, <2>3, ConfirmingStep
  <1> QED BY <1>1, <1>2, <1>3 DEF SendSucceeds

\* Nothing is sent or confirmed, and no step changes on the page: the coroutine
\* goes on tracking, or is about to end.
LEMMA QuietStep ==
    ASSUME TypeOK, DeliveryInv, TypeOK', NEW r \in Runs, run[r].pc \in Working, Alone(r),
           run'[r].pc \in {"tracking", "giveup", "catching", "free"},
           run'[r].pc # "free" => /\ run'[r].id = run[r].id /\ run'[r].i = run[r].i
                                  /\ run'[r].todo = run[r].todo /\ run'[r].shown = run[r].shown,
           run'[r].pc = "tracking" => run[r].pc \in {"hopstart", "tracking"} /\ UNCHANGED phase,
           run'[r].pc = "giveup" => run[r].pc = "tracking",
           ~run[r].shown => UNCHANGED phase,
           run[r].shown => \/ UNCHANGED phase /\ run'[r].pc = "tracking"
                           \/ phase' = "failed" /\ run'[r].pc # "tracking"
                           \/ phase' = "completed" /\ run'[r].pc = "free" /\ run[r].pc = "succeeding",
           run[r].pc = "resuming" => Settles(r),
           UNCHANGED <<steps, currentStepIndex, dbRecordId, added, chain>>,
           QueueInv' /\ KeepsOrder(r)
    PROVE  DeliveryInv'
  <1> USE DeliveryTypes
  <1> SUFFICES ASSUME NEW X, X = run[r].id PROVE DeliveryInv'
    OBVIOUS
  <1>1. /\ X \in 1 .. added /\ RowOK(X) /\ PlanOK(r) /\ PageOK /\ (run[r].shown => OnPage(r))
    BY WorkingFacts
  <1>2. UNCHANGED <<moved, lost, confirmed>>
    BY DEF chain
  <1>3. RowOK(X)' /\ OtherRows(X)
    BY <1>1, <1>2 DEF RowOK, OtherRows
  <1>4. PlanOK(r)'
    BY <1>1, <1>2 DEF PlanOK, Holding, Working
  <1>5. ASSUME run[r].shown PROVE PageOK' /\ (run'[r].pc # "free" => OnPage(r)')
    <2>1. /\ phase = "executing" /\ dbRecordId = X /\ Len(steps) = Len(run[r].todo)
          /\ run[r].pc = "succeeding" => Len(steps) = currentStepIndex + 1 /\ Current = "completed"
          /\ run[r].pc # "succeeding" => run[r].i = currentStepIndex + 1
          /\ run[r].pc \in {"hopstart", "tracking"} => Current # "failed"
      BY <1>1, <1>5 DEF OnPage
    <2>2. PageOK'
      BY <1>1, <1>2, <1>5, <2>1 DEF PageOK, Current, Told
    <2>3. run'[r].pc # "free" => OnPage(r)'
      BY <1>5, <2>1 DEF OnPage, Current, Working
    <2> QED BY <2>2, <2>3
  <1>6. run[r].shown /\ phase' = "completed" => run'[r].pc = "free" /\ run[r].pc # "resuming"
    <2>1. run[r].shown => phase = "executing"
      BY <1>1 DEF OnPage
    <2> QED BY <2>1
  <1> QED BY <1>3, <1>4, <1>5, <1>6, WorkingStep DEF Holding, Working

LEMMA SendFailsStep ==
    ASSUME TypeOK, DeliveryInv, TypeOK', NEW r \in Runs, SendFails(r)
    PROVE  DeliveryInv'
  <1> USE DeliveryTypes
  <1> SUFFICES ASSUME NEW X, X = run[r].id, NEW i, i = run[r].i PROVE DeliveryInv'
    OBVIOUS
  <1>0. /\ run[r].pc = "sending" /\ ShowSteps(r, UpdateStep(steps, i, "failed"))
        /\ lost' = IF run[r].landed THEN [lost EXCEPT ![X][i] = @ + 1] ELSE lost
        /\ UNCHANGED <<phase, currentStepIndex, dbRecordId, added, moved, confirmed>>
    BY DEF SendFails
  <1>1. run[r].pc \in Working \ {"succeeding"} /\ run[r].pc # "resuming" /\ run[r].pc \notin Awaiting
    BY <1>0 DEF Working, Awaiting
  <1>2. /\ X \in Ids /\ RowOK(X) /\ PlanOK(r) /\ (run[r].shown => OnPage(r)) /\ i \in 1 .. Len(run[r].todo)
        /\ Len(moved[X]) = Len(run[r].todo) /\ Len(lost[X]) = Len(run[r].todo)
    BY <1>1, WorkingFacts
  <1>3. Alone(r) /\ run'[r] = [run[r] EXCEPT !.pc = "failing"] /\ queue' = Append(queue, Awaited(r))
    BY DEF SendFails, Request, Suspend, Alone, TypeOK
  <1>4. /\ run'[r].pc = "failing" /\ run'[r].id = X /\ run'[r].i = i
        /\ run'[r].todo = run[r].todo /\ run'[r].shown = run[r].shown
    BY <1>3 DEF Run
  <1>5. /\ Len(lost'[X]) = Len(lost[X])
        /\ \A j \in 1 .. Len(lost[X]) :
             lost'[X][j] = IF run[r].landed /\ j = i THEN lost[X][j] + 1 ELSE lost[X][j]
        /\ \A x \in Ids \ {X} : lost'[x] = lost[x]
    <2>1. CASE run[r].landed
      <3>1. lost' = [lost EXCEPT ![X][i] = @ + 1] /\ lost \in [Ids -> Seq(Nat)]
        BY <1>0, <2>1 DEF TypeOK
      <3> QED BY <1>2, <2>1, <3>1, BumpedFacts
    <2>2. CASE ~run[r].landed
      BY <1>0, <2>2
    <2> QED BY <2>1, <2>2
  <1>6. \A j \in 1 .. Len(moved[X]) : moved[X][j] \in Nat /\ lost[X][j] \in Nat /\ lost[X][j] <= lost'[X][j]
    <2>1. ASSUME NEW j \in 1 .. Len(moved[X]) PROVE moved[X][j] \in Nat /\ lost[X][j] \in Nat
      BY <1>2
    <2>2. ASSUME NEW j \in 1 .. Len(moved[X]) PROVE lost[X][j] <= lost'[X][j]
      <3>1. lost[X][j] \in Nat /\ lost'[X][j] \in {lost[X][j], lost[X][j] + 1}
        BY <1>2, <1>5, <2>1
      <3> QED BY <3>1
    <2> QED BY <2>1, <2>2
  <1>7. RowOK(X)'
    <2>1. ASSUME NEW j \in 1 .. Len(moved[X]) PROVE moved[X][j] <= 1 + lost'[X][j]
      <3>1. moved[X][j] <= 1 + lost[X][j]
        BY <1>2 DEF RowOK
      <3>2. lost'[X][j] \in Nat
        <4>1. lost'[X] \in Seq(Nat) /\ j \in 1 .. Len(lost'[X])
          BY <1>2, <1>5 DEF TypeOK
        <4> QED BY <4>1, ElementOfSeq
      <3>3. moved[X][j] \in Nat /\ lost[X][j] \in Nat /\ lost[X][j] <= lost'[X][j]
        BY <1>6
      <3>4. \A a, b, c \in Nat : a <= 1 + b /\ b <= c => a <= 1 + c
        OBVIOUS
      <3> HIDE DeliveryTypes
      <3> QED BY <3>1, <3>2, <3>3, <3>4, Zenon
    <2>2. /\ Len(confirmed[X]) = Len(moved[X])
          /\ \A k \in 1 .. Len(moved[X]) : moved[X][k] > 0 => \A j \in 1 .. k - 1 : confirmed[X][j]
      BY <1>2 DEF RowOK
    <2> QED BY <1>0, <1>2, <1>5, <2>1, <2>2 DEF RowOK
  <1>8. Told(X, i)'
    <2>1. i \in 1 .. Len(moved[X]) /\ moved[X][i] \in Nat /\ lost[X][i] \in Nat
      BY <1>2, <1>6
    <2>2. CASE run[r].landed
      <3>1. moved[X][i] <= 1 + lost[X][i] /\ lost'[X][i] = lost[X][i] + 1
        BY <1>2, <1>5, <2>1, <2>2 DEF RowOK
      <3> QED BY <1>0, <2>1, <3>1 DEF Told
    <2>3. CASE ~run[r].landed
      <3>1. Told(X, i) /\ lost' = lost
        BY <1>0, <1>2, <2>3 DEF PlanOK
      <3> QED BY <1>0, <3>1 DEF Told
    <2> QED BY <2>2, <2>3
  <1>9. PlanOK(r)'
    BY <1>0, <1>1, <1>4, PlanGoesOn
  <1>10. ~run[r].shown => UNCHANGED steps
    BY <1>0 DEF ShowSteps, Shows
  <1>11. ASSUME run[r].shown PROVE PageOK' /\ OnPage(r)' /\ phase' = "executing"
    <2>1. steps' = UpdateStep(steps, i, "failed")
      BY <1>0, <1>11 DEF ShowSteps, Shows
    <2>2. PageOK' /\ Len(steps') = Len(steps)
      BY <1>0, <1>1, <1>2, <1>8, <1>11, <2>1, MarkPage DEF Statuses
    <2>3. /\ phase = "executing" /\ dbRecordId = X /\ Len(steps) = Len(run[r].todo)
          /\ i = currentStepIndex + 1
      BY <1>1, <1>2, <1>11 DEF OnPage
    <2> QED BY <1>0, <1>4, <2>2, <2>3 DEF OnPage, Working
  <1>12. OtherRows(X)
    BY <1>0, <1>5 DEF OtherRows
  <1>13. QueueInv' /\ KeepsOrder(r)
    BY <1>1, <1>3, <1>4, QueueJoins DEF DeliveryInv, Awaiting
  <1> QED BY <1>0, <1>1, <1>3, <1>4, <1>7, <1>9, <1>10, <1>11, <1>12, <1>13, WorkingStep DEF Holding, Working

LEMMA TrackingStep ==
    ASSUME TypeOK, DeliveryInv, TypeOK', NEW r \in Runs,
           HopsStarted(r) \/ HopConfirmed(r) \/ TrackingSucceeds(r) \/ TrackingFails(r)
    PROVE  DeliveryInv'
  <1> USE DeliveryTypes
  <1>0. queue \in Seq(Entry) /\ Chains \in Nat /\ Chains >= 2 /\ run[r].hop \in Nat
    BY ChainsAssumption DEF TypeOK, Run, Progress
  <1>1. CASE HopsStarted(r)
    <2>1. /\ run[r].pc = "hopstart" /\ Settles(r) /\ queue' = Tail(queue) /\ Alone(r)
          /\ run'[r] = [run[r] EXCEPT !.pc = "tracking"]
          /\ UNCHANGED <<phase, steps, currentStepIndex, dbRecordId, added, chain>>
      BY <1>1 DEF HopsStarted, Writes, Suspend, Alone, TypeOK, ui
    <2>2. /\ run'[r].pc = "tracking" /\ run'[r].id = run[r].id /\ run'[r].i = run[r].i
          /\ run'[r].todo = run[r].todo /\ run'[r].shown = run[r].shown
      BY <2>1 DEF Run
    <2>3. QueueInv' /\ KeepsOrder(r)
      BY <2>1, <2>2, QueueLeaves DEF DeliveryInv, Awaiting
    <2> QED BY <2>1, <2>2, <2>3, QuietStep DEF Working
  <1>2. CASE HopConfirmed(r)
    <2>1. /\ run[r].pc = "tracking" /\ queue' = Append(queue, HopWrite(r, run[r].hop + 1)) /\ Alone(r)
          /\ run'[r] = [run[r] EXCEPT !.hop = run[r].hop + 1] /\ run[r].hop + 1 \in Progress
          /\ UNCHANGED <<phase, steps, currentStepIndex, dbRecordId, added, chain>>
      <3>1. run[r].hop + 1 < Chains - 1 /\ run' = [run EXCEPT ![r].hop = run[r].hop + 1]
        BY <1>2 DEF HopConfirmed
      <3>2. run[r].hop + 1 \in Progress
        BY <1>0, <3>1 DEF Progress
      <3>3. Alone(r) /\ run'[r] = [run[r] EXCEPT !.hop = run[r].hop + 1]
        BY <3>1 DEF Alone, TypeOK
      <3> QED BY <1>2, <3>2, <3>3 DEF HopConfirmed
    <2>2. /\ run'[r].pc = "tracking" /\ run'[r].id = run[r].id /\ run'[r].i = run[r].i
          /\ run'[r].todo = run[r].todo /\ run'[r].shown = run[r].shown
      BY <2>1 DEF Run
    <2>3. QueueInv' /\ KeepsOrder(r)
      BY <2>1, <2>2, QueueNotes DEF DeliveryInv
    <2> QED BY <2>1, <2>2, <2>3, QuietStep DEF Working
  <1>3. CASE TrackingSucceeds(r)
    <2>0. /\ run[r].pc = "tracking" /\ run[r].pc \notin Awaiting
          /\ UNCHANGED <<phase, currentStepIndex, dbRecordId, added, moved, lost>>
      BY <1>3 DEF TrackingSucceeds, Awaiting
    <2>1. CASE CompleteStep(r, run[r], queue)
      <3>1. /\ Alone(r) /\ run'[r].pc = "recording" /\ queue' = Append(queue, Awaited(r))
        BY <2>1 DEF CompleteStep, Request, Suspend, Alone, TypeOK, Run
      <3>2. QueueInv' /\ KeepsOrder(r)
        BY <2>0, <3>1, QueueJoins DEF DeliveryInv, Awaiting
      <3> QED BY <1>0, <2>0, <2>1, <3>2, CompletingStep
    <2>2. CASE CompleteStep(r, run[r], queue \o LastHops(r))
      <3>1. /\ Alone(r) /\ run'[r].pc = "recording"
            /\ queue' = Append(queue \o <<HopWrite(r, Chains - 1), HopWrite(r, Chains)>>, Awaited(r))
        BY <2>2 DEF LastHops, CompleteStep, Request, Suspend, Alone, TypeOK, Run
      <3>2. Chains - 1 \in Progress /\ Chains \in Progress
        BY <1>0 DEF Progress
      <3>3. QueueInv' /\ KeepsOrder(r)
        BY <2>0, <3>1, <3>2, QueueJoinsLate DEF DeliveryInv, Awaiting
      <3>4. queue \o LastHops(r) \in Seq(Entry)
        BY <1>0, <3>2 DEF LastHops, HopWrite, Entry
      <3> QED BY <2>0, <2>2, <3>3, <3>4, CompletingStep
    <2> QED BY <1>3, <2>1, <2>2 DEF TrackingSucceeds
  <1>4. CASE TrackingFails(r)
    <2>1. /\ run[r].pc = "tracking" /\ ShowPhase(r, "failed") /\ Alone(r)
          /\ queue' = Append(queue, Awaited(r)) /\ run'[r] = [run[r] EXCEPT !.pc = "giveup"]
          /\ UNCHANGED <<steps, currentStepIndex, dbRecordId, added, chain>>
      BY <1>4 DEF TrackingFails, Request, Suspend, Alone, TypeOK
    <2>2. /\ run'[r].pc = "giveup" /\ run'[r].id = run[r].id /\ run'[r].i = run[r].i
          /\ run'[r].todo = run[r].todo /\ run'[r].shown = run[r].shown
      BY <2>1 DEF Run
    <2>3. QueueInv' /\ KeepsOrder(r)
      BY <2>1, <2>2, QueueJoins DEF DeliveryInv, Awaiting
    <2>4. IF run[r].shown THEN phase' = "failed" ELSE UNCHANGED phase
      BY <2>1 DEF ShowPhase, Shows
    <2> QED BY <2>1, <2>2, <2>3, <2>4, QuietStep DEF Working
  <1> QED BY <1>1, <1>2, <1>3, <1>4

----------------------------------------------------------------------------
(* The steps of a coroutine that turn the loop, or end it *)

\* What HandsOver and Ends leave of the coroutine and the queue.
LEMMA TurnFacts ==
    ASSUME TypeOK, DeliveryInv, NEW r \in Runs, run[r].pc \in Awaiting, Settles(r), NEW j \in Nat,
           \/ HandsOver(r, run[r], j, steps, Tail(queue))
           \/ Ends(r, run[r], j, steps, Tail(queue))
    PROVE  /\ Alone(r) /\ QueueInv' /\ KeepsOrder(r)
           /\ run'[r].id = run[r].id /\ run'[r].i = j
           /\ run'[r].todo = run[r].todo /\ run'[r].shown = run[r].shown
           /\ HandsOver(r, run[r], j, steps, Tail(queue)) => run'[r].pc = "sending" /\ ~run'[r].landed
           /\ ~HandsOver(r, run[r], j, steps, Tail(queue)) => run'[r].pc = "succeeding"
  <1> USE DeliveryTypes
  <1>1. CASE HandsOver(r, run[r], j, steps, Tail(queue))
    <2>1. /\ Alone(r) /\ queue' = Tail(queue)
          /\ run'[r] = [[run[r] EXCEPT !.i = j, !.landed = FALSE] EXCEPT !.pc = "sending"]
      BY <1>1 DEF HandsOver, Suspend, Alone, TypeOK
    <2>2. /\ run'[r].pc = "sending" /\ ~run'[r].landed /\ run'[r].id = run[r].id /\ run'[r].i = j
          /\ run'[r].todo = run[r].todo /\ run'[r].shown = run[r].shown
      BY <2>1 DEF Run
    <2>3. QueueInv' /\ KeepsOrder(r)
      BY <2>1, <2>2, QueueLeaves DEF DeliveryInv, Awaiting
    <2> QED BY <1>1, <2>1, <2>2, <2>3
  <1>2. CASE ~HandsOver(r, run[r], j, steps, Tail(queue))
    <2>0. Ends(r, run[r], j, steps, Tail(queue))
      BY <1>2
    <2>1. /\ Alone(r) /\ queue' = Append(Tail(queue), Awaited(r))
          /\ run'[r] = [[run[r] EXCEPT !.i = j] EXCEPT !.pc = "succeeding"]
      BY <2>0 DEF Ends, Request, Suspend, Alone, TypeOK
    <2>2. /\ run'[r].pc = "succeeding" /\ run'[r].id = run[r].id /\ run'[r].i = j
          /\ run'[r].todo = run[r].todo /\ run'[r].shown = run[r].shown
      BY <2>1 DEF Run
    <2>3. QueueInv' /\ KeepsOrder(r)
      BY <2>1, <2>2, QueueRejoins DEF DeliveryInv, Awaiting
    <2> QED BY <1>2, <2>1, <2>2, <2>3
  <1> QED BY <1>1, <1>2

LEMMA ResumedTurn ==
    ASSUME TypeOK, DeliveryInv, NEW r \in Runs, Resumed(r), NEW X, X = run[r].id, NEW i, i = run[r].i
    PROVE  /\ HandsOver(r, run[r], i, steps, Tail(queue))
           /\ Alone(r) /\ QueueInv' /\ KeepsOrder(r) /\ run'[r].pc = "sending" /\ ~run'[r].landed
           /\ run'[r].id = X /\ run'[r].i = i /\ run'[r].todo = run[r].todo /\ run'[r].shown = run[r].shown
  <1> USE DeliveryTypes
  <1>0. run[r].pc = "resuming" /\ Settles(r) /\ EnterLoop(r, run[r], i, steps, Tail(queue))
    BY DEF Resumed, Writes
  <1>1. run[r].pc \in Working \ {"succeeding"} /\ run[r].pc \in Awaiting
    BY <1>0 DEF Working, Awaiting
  <1>2. PlanOK(r) /\ i \in 1 .. Len(run[r].todo)
    BY <1>1, WorkingFacts
  <1>3. HandsOver(r, run[r], i, steps, Tail(queue))
    <2>1. /\ i \in 1 .. Len(run[r].todo) + 1 /\ i <= Len(run[r].todo)
          /\ run[r].todo[i].status # "completed"
      BY <1>0, <1>2 DEF PlanOK
    <2>2. Tail(queue) \in Seq(Entry)
      BY <1>0, TailFacts DEF Settles, TypeOK
    <2> QED BY <1>0, <2>1, <2>2, LoopEntered
  <1>4. /\ Alone(r) /\ QueueInv' /\ KeepsOrder(r) /\ run'[r].pc = "sending" /\ ~run'[r].landed
        /\ run'[r].id = X /\ run'[r].i = i /\ run'[r].todo = run[r].todo /\ run'[r].shown = run[r].shown
    BY <1>0, <1>1, <1>3, TurnFacts
  <1> QED BY <1>3, <1>4

LEMMA ResumedStep ==
    ASSUME TypeOK, DeliveryInv, TypeOK', NEW r \in Runs, Resumed(r)
    PROVE  DeliveryInv'
  <1> USE DeliveryTypes
  <1> SUFFICES ASSUME NEW X, X = run[r].id, NEW i, i = run[r].i PROVE DeliveryInv'
    OBVIOUS
  <1>0. /\ run[r].pc = "resuming" /\ Settles(r) /\ EnterLoop(r, run[r], i, steps, Tail(queue))
        /\ UNCHANGED <<phase, currentStepIndex, dbRecordId, added, moved, lost, confirmed>>
    BY DEF Resumed, Writes, chain
  <1>1. run[r].pc \in Working \ {"succeeding"} /\ run[r].pc \in Awaiting
    BY <1>0 DEF Working, Awaiting
  <1>2. /\ X \in Ids /\ X \in 1 .. added /\ RowOK(X) /\ PlanOK(r) /\ (run[r].shown => OnPage(r))
        /\ i \in 1 .. Len(run[r].todo) /\ Len(moved[X]) = Len(run[r].todo)
    BY <1>1, WorkingFacts
  <1>3. HandsOver(r, run[r], i, steps, Tail(queue))
    BY ResumedTurn
  <1>4. /\ Alone(r) /\ QueueInv' /\ KeepsOrder(r) /\ run'[r].pc = "sending" /\ ~run'[r].landed
        /\ run'[r].id = X /\ run'[r].i = i /\ run'[r].todo = run[r].todo /\ run'[r].shown = run[r].shown
    BY ResumedTurn
  <1>5. RowOK(X)' /\ OtherRows(X)
    BY <1>0, <1>2 DEF RowOK, OtherRows
  <1>6. PlanOK(r)'
    BY <1>0, <1>1, <1>2, <1>4 DEF PlanOK, Told, Working, Holding
  <1>7. ~run[r].shown => UNCHANGED steps
    BY <1>3 DEF HandsOver, ShowSteps, Shows
  <1>8. ASSUME run[r].shown PROVE PageOK' /\ OnPage(r)' /\ phase' = "executing"
    <2>1. steps' = UpdateStep(steps, i, "signing")
      BY <1>3, <1>8 DEF HandsOver, ShowSteps, Shows
    <2>2. PageOK' /\ Len(steps') = Len(steps) /\ Current' = "signing"
      BY <1>0, <1>1, <1>2, <1>8, <2>1, MarkPage DEF Statuses
    <2>3. /\ phase = "executing" /\ dbRecordId = X /\ Len(steps) = Len(run[r].todo)
          /\ i = currentStepIndex + 1
      BY <1>0, <1>1, <1>2, <1>8 DEF OnPage
    <2> QED BY <1>0, <1>4, <2>2, <2>3 DEF OnPage, Working
  <1> QED BY <1>0, <1>1, <1>4, <1>5, <1>6, <1>7, <1>8, WorkingStep DEF Holding, Working

LEMMA RecordedTurn ==
    ASSUME TypeOK, DeliveryInv, NEW r \in Runs, StepRecorded(r), NEW X, X = run[r].id, NEW i, i = run[r].i,
           NEW n, n = Len(run[r].todo)
    PROVE  /\ IF i + 1 <= n THEN HandsOver(r, run[r], i + 1, steps, Tail(queue))
              ELSE Ends(r, run[r], i + 1, steps, Tail(queue))
           /\ Alone(r) /\ QueueInv' /\ KeepsOrder(r)
           /\ run'[r].id = X /\ run'[r].i = i + 1
           /\ run'[r].todo = run[r].todo /\ run'[r].shown = run[r].shown
           /\ i + 1 <= n => ~run'[r].landed
           /\ run'[r].pc = IF i + 1 <= n THEN "sending" ELSE "succeeding"
  <1> USE DeliveryTypes
  <1>0. run[r].pc = "recording" /\ Settles(r) /\ EnterLoop(r, run[r], i + 1, steps, Tail(queue))
    BY DEF StepRecorded, Writes
  <1>1. run[r].pc \in Working \ {"succeeding"} /\ run[r].pc \in Awaiting
    BY <1>0 DEF Working, Awaiting
  <1>2. PlanOK(r) /\ i \in 1 .. n /\ n \in Nat
    BY <1>1, WorkingFacts
  <1>3. \A j \in i + 1 .. n : run[r].todo[j].status = "pending"
    BY <1>1, <1>2 DEF PlanOK
  <1>4. IF i + 1 <= n THEN HandsOver(r, run[r], i + 1, steps, Tail(queue))
        ELSE Ends(r, run[r], i + 1, steps, Tail(queue))
    <2>1. i + 1 \in 1 .. n + 1
      BY <1>2
    <2>2. Tail(queue) \in Seq(Entry)
      BY <1>0, TailFacts DEF Settles, TypeOK
    <2>3. ASSUME i + 1 <= n PROVE run[r].todo[i + 1].status # "completed"
      <3>1. i + 1 \in i + 1 .. n
        BY <1>2, <2>3
      <3>2. run[r].todo[i + 1].status = "pending"
        BY <1>3, <3>1
      <3> QED BY <3>2
    <2> QED BY <1>0, <2>1, <2>2, <2>3, LoopEntered
  <1>5. /\ Alone(r) /\ QueueInv' /\ KeepsOrder(r)
        /\ run'[r].id = X /\ run'[r].i = i + 1
        /\ run'[r].todo = run[r].todo /\ run'[r].shown = run[r].shown
        /\ HandsOver(r, run[r], i + 1, steps, Tail(queue)) => run'[r].pc = "sending" /\ ~run'[r].landed
        /\ ~HandsOver(r, run[r], i + 1, steps, Tail(queue)) => run'[r].pc = "succeeding"
    <2>1. i + 1 \in Nat
      BY <1>2
    <2> QED BY <1>0, <1>1, <1>4, <2>1, TurnFacts
  <1>6. run'[r].pc = IF i + 1 <= n THEN "sending" ELSE "succeeding"
    <2>1. ASSUME ~(i + 1 <= n), HandsOver(r, run[r], i + 1, steps, Tail(queue)) PROVE FALSE
      <3>1. queue' = Tail(queue) /\ queue' = Append(Tail(queue), Awaited(r)) /\ Tail(queue) \in Seq(Entry)
        BY <1>0, <1>4, <2>1, TailFacts DEF HandsOver, Ends, Request, Settles, TypeOK
      <3>2. Awaited(r) \in Entry
        BY EntriesDiffer
      <3> QED BY <3>1, <3>2, AppendedFacts, LenProperties
    <2> QED BY <1>4, <1>5, <2>1
  <1> QED BY <1>4, <1>5, <1>6

LEMMA StepRecordedStep ==
    ASSUME TypeOK, DeliveryInv, TypeOK', NEW r \in Runs, StepRecorded(r)
    PROVE  DeliveryInv'
  <1> USE DeliveryTypes
  <1> SUFFICES ASSUME NEW X, X = run[r].id, NEW i, i = run[r].i PROVE DeliveryInv'
    OBVIOUS
  <1> DEFINE n == Len(run[r].todo)
  <1>0. /\ run[r].pc = "recording" /\ Settles(r) /\ EnterLoop(r, run[r], i + 1, steps, Tail(queue))
        /\ IF i < n
           THEN /\ currentStepIndex' = Shows(r, currentStepIndex, currentStepIndex + 1)
                /\ ShowPhase(r, IF currentStepIndex + 1 >= Len(steps) THEN "tracking" ELSE phase)
           ELSE UNCHANGED <<currentStepIndex, phase>>
        /\ UNCHANGED <<dbRecordId, added, moved, lost, confirmed>>
    BY DEF StepRecorded, Writes, chain
  <1>1. run[r].pc \in Working \ {"succeeding"} /\ run[r].pc \in Awaiting
    BY <1>0 DEF Working, Awaiting
  <1>2. /\ X \in Ids /\ X \in 1 .. added /\ RowOK(X) /\ PlanOK(r) /\ PageOK /\ (run[r].shown => OnPage(r))
        /\ i \in 1 .. n /\ Len(moved[X]) = n /\ Len(lost[X]) = n /\ n \in Nat
    BY <1>1, WorkingFacts
  <1>3. /\ \A j \in 1 .. i - 1 : confirmed[X][j]
        /\ \A j \in i + 1 .. n : run[r].todo[j].status = "pending" /\ moved[X][j] = 0
        /\ confirmed[X][i]
    BY <1>0, <1>1, <1>2 DEF PlanOK
  <1>4. IF i + 1 <= n THEN HandsOver(r, run[r], i + 1, steps, Tail(queue))
        ELSE Ends(r, run[r], i + 1, steps, Tail(queue))
    BY RecordedTurn
  <1>5. /\ Alone(r) /\ QueueInv' /\ KeepsOrder(r)
        /\ run'[r].id = X /\ run'[r].i = i + 1
        /\ run'[r].todo = run[r].todo /\ run'[r].shown = run[r].shown
        /\ i + 1 <= n => ~run'[r].landed
    BY RecordedTurn
  <1>6. run'[r].pc = IF i + 1 <= n THEN "sending" ELSE "succeeding"
    BY RecordedTurn
  <1>7. RowOK(X)' /\ OtherRows(X)
    BY <1>0, <1>2 DEF RowOK, OtherRows
  <1>8. PlanOK(r)'
    <2>1. \A j \in 1 .. i + 1 - 1 : confirmed[X][j]
      BY <1>2, <1>3
    <2>2. \A j \in i + 1 + 1 .. n : run[r].todo[j].status = "pending" /\ moved[X][j] = 0
      BY <1>2, <1>3
    <2>3. CASE i + 1 <= n
      <3>1. moved[X][i + 1] = 0 /\ lost[X][i + 1] \in Nat
        <4>1. i + 1 \in i + 1 .. n /\ i + 1 \in 1 .. Len(lost[X])
          BY <1>2, <2>3
        <4>2. moved[X][i + 1] = 0
          BY <1>3, <4>1
        <4>3. lost[X][i + 1] \in Nat
          BY <1>2, <4>1
        <4> QED BY <4>2, <4>3
      <3>2. Told(X, i + 1)' /\ i + 1 \in 1 .. n
        <4>1. Told(X, i + 1) /\ i + 1 \in 1 .. n
          <5>1. i + 1 \in 1 .. n
            BY <1>2, <2>3
          <5> HIDE DeliveryTypes
          <5>2. Told(X, i + 1)
            BY <3>1 DEF Told
          <5> QED BY <5>1, <5>2
        <4>2. UNCHANGED <<moved, lost>>
          BY <1>0
        <4> QED BY <4>1, <4>2 DEF Told
      <3> QED BY <1>0, <1>2, <1>5, <1>6, <2>1, <2>2, <2>3, <3>2, SMTT(30) DEF PlanOK, Working, Holding
    <2>4. CASE ~(i + 1 <= n)
      <3>1. i + 1 = n + 1
        BY <1>2, <2>4, SMTT(30)
      <3> QED BY <1>0, <1>2, <1>5, <1>6, <2>1, <2>2, <2>4, <3>1 DEF PlanOK, Working, Holding
    <2> QED BY <2>3, <2>4
  <1>9. ~run[r].shown => UNCHANGED <<phase, steps, currentStepIndex>>
    BY <1>0, <1>4 DEF HandsOver, Ends, ShowSteps, ShowPhase, Shows
  <1>10. ASSUME run[r].shown PROVE PageOK' /\ OnPage(r)' /\ phase' = "executing"
    <2>1. /\ phase = "executing" /\ dbRecordId = X /\ X # Null /\ Len(steps) = n
          /\ i = currentStepIndex + 1 /\ Current = "completed"
      BY <1>0, <1>1, <1>2, <1>10 DEF OnPage
    <2>2. /\ \A j \in 1 .. currentStepIndex : steps[j].status = "completed" /\ confirmed[X][j]
          /\ \A j \in currentStepIndex + 2 .. n : steps[j].status = "pending" /\ moved[X][j] = 0
      BY <1>2, <2>1 DEF PageOK
    <2>3. CASE i + 1 <= n
      <3>1. /\ steps' = UpdateStep(steps, i + 1, "signing") /\ currentStepIndex' = i /\ phase' = phase
        BY <1>0, <1>2, <1>4, <1>10, <2>1, <2>3 DEF HandsOver, ShowSteps, ShowPhase, Shows
      <3>2. /\ Len(steps') = n
            /\ \A m \in 1 .. n : steps'[m].status = IF m = i + 1 THEN "signing" ELSE steps[m].status
        <4> DEFINE marked == UpdateStep(steps, i + 1, "signing")
        <4>1. steps \in Seq(Step) /\ "signing" \in Statuses
          BY DEF Statuses
        <4>2. /\ Len(marked) = Len(steps)
              /\ \A m \in 1 .. Len(steps) : marked[m].status = IF m = i + 1 THEN "signing" ELSE steps[m].status
          BY <4>1, UpdateFacts
        <4> HIDE DEF marked
        <4>3. steps' = marked
          BY <3>1 DEF marked
        <4> QED BY <2>1, <4>2, <4>3
      <3>3. ASSUME NEW j \in 1 .. i PROVE steps'[j].status = "completed" /\ confirmed[X][j]
        <4>1. j \in 1 .. n /\ j # i + 1
          BY <1>2
        <4>2. steps[j].status = "completed" /\ confirmed[X][j]
          <5>1. CASE j = i
            BY <1>3, <2>1, <5>1 DEF Current
          <5>2. CASE j # i
            <6>1. j \in 1 .. currentStepIndex
              BY <2>1, <5>2
            <6> QED BY <2>2, <6>1
          <5> QED BY <5>1, <5>2
        <4> QED BY <3>2, <4>1, <4>2
      <3>4. ASSUME NEW j \in i + 2 .. n PROVE steps'[j].status = "pending" /\ moved[X][j] = 0
        <4>1. j \in 1 .. n /\ j # i + 1 /\ j \in currentStepIndex + 2 .. n
          BY <1>2, <2>1
        <4> QED BY <2>2, <3>2, <4>1
      <3>5. Current' = "signing"
        BY <1>2, <2>3, <3>1, <3>2, SMTT(40) DEF Current
      <3>6. PageOK'
        BY <1>0, <1>2, <2>1, <2>3, <3>1, <3>2, <3>3, <3>4, <3>5, ZenonT(60) DEF PageOK
      <3>7. OnPage(r)'
        BY <1>0, <1>5, <1>6, <2>1, <2>3, <3>1, <3>2, <3>5 DEF OnPage, Working
      <3> QED BY <2>1, <3>1, <3>6, <3>7
    <2>4. CASE ~(i + 1 <= n)
      <3>1. UNCHANGED <<steps, currentStepIndex, phase>> /\ i = n
        BY <1>0, <1>2, <1>4, <2>4 DEF Ends, ShowSteps, Shows
      <3>2. PageOK'
        BY <1>0, <1>2, <3>1 DEF PageOK, Current, Told
      <3>3. OnPage(r)'
        BY <1>0, <1>5, <1>6, <2>1, <2>4, <3>1 DEF OnPage, Working, Current
      <3> QED BY <2>1, <3>1, <3>2, <3>3
    <2> QED BY <2>3, <2>4
  <1> QED BY <1>0, <1>1, <1>5, <1>6, <1>7, <1>8, <1>9, <1>10, WorkingStep DEF Holding, Working

\* A coroutine that records how it ended returns.
LEMMA ReturnFacts ==
    ASSUME TypeOK, DeliveryInv, NEW r \in Runs, Settles(r), Finish(r), queue' = Tail(queue)
    PROVE  Alone(r) /\ run'[r].pc = "free" /\ QueueInv' /\ KeepsOrder(r)
  <1>1. Alone(r) /\ run'[r] = Free
    BY DEF Finish, Alone, TypeOK
  <1>2. run'[r].pc = "free" /\ run'[r].pc \notin Awaiting
    BY <1>1 DEF Free, Awaiting
  <1> QED BY <1>1, <1>2, QueueLeaves DEF DeliveryInv

LEMMA OutcomeRecorded ==
    ASSUME TypeOK, DeliveryInv, TypeOK', NEW r \in Runs,
           FailureRecorded(r) \/ SuccessRecorded(r) \/ GiveupRecorded(r)
    PROVE  DeliveryInv'
  <1>1. CASE GiveupRecorded(r)
    <2>1. /\ run[r].pc \in {"giveup", "catching"} /\ Settles(r) /\ Finish(r) /\ queue' = Tail(queue)
          /\ UNCHANGED <<phase, steps, currentStepIndex, dbRecordId, added, chain>>
      BY <1>1 DEF GiveupRecorded, Writes, ui
    <2>2. Alone(r) /\ run'[r].pc = "free" /\ QueueInv' /\ KeepsOrder(r)
      BY <2>1, ReturnFacts
    <2> QED BY <2>1, <2>2, RecordingStep
  <1>2. CASE FailureRecorded(r) \/ SuccessRecorded(r)
    <2>1. /\ Settles(r) /\ Finish(r) /\ queue' = Tail(queue)
          /\ \/ run[r].pc = "failing" /\ ShowPhase(r, "failed")
             \/ run[r].pc = "succeeding" /\ ShowPhase(r, "completed")
          /\ UNCHANGED <<steps, currentStepIndex, dbRecordId, added, chain>>
      BY <1>2 DEF FailureRecorded, SuccessRecorded, Writes
    <2>2. Alone(r) /\ run'[r].pc = "free" /\ QueueInv' /\ KeepsOrder(r)
      BY <2>1, ReturnFacts
    <2>3. /\ ~run[r].shown => UNCHANGED phase
          /\ run[r].shown => \/ phase' = "failed"
                             \/ phase' = "completed" /\ run[r].pc = "succeeding"
      BY <2>1 DEF ShowPhase, Shows
    <2> QED BY <2>1, <2>2, <2>3, QuietStep DEF Working
  <1> QED BY <1>1, <1>2

LEMMA WriteRejectedStep ==
    ASSUME TypeOK, DeliveryInv, TypeOK', NEW r \in Runs, WriteRejected(r)
    PROVE  DeliveryInv'
  <1> USE DeliveryTypes
  <1>1. /\ Settles(r) /\ run[r].pc \in Awaiting /\ PlanOK(r)
        /\ IF run[r].pc = "catching" THEN UNCHANGED phase ELSE ShowPhase(r, "failed")
        /\ IF run[r].retry /\ run[r].pc # "catching"
           THEN Request(r, run[r], "catching", Tail(queue))
           ELSE Finish(r) /\ queue' = Tail(queue)
        /\ UNCHANGED <<steps, currentStepIndex, dbRecordId, added, chain>>
    BY DEF WriteRejected, Settles, DeliveryInv
  <1>2. /\ ~run[r].shown \/ run[r].pc = "catching" => UNCHANGED phase
        /\ run[r].shown /\ run[r].pc # "catching" => phase' = "failed"
    BY <1>1 DEF ShowPhase, Shows
  <1>3. CASE run[r].retry /\ run[r].pc # "catching"
    <2>1. /\ Alone(r) /\ run'[r] = [run[r] EXCEPT !.pc = "catching"]
          /\ queue' = Append(Tail(queue), Awaited(r))
      BY <1>1, <1>3 DEF Request, Suspend, Alone, TypeOK
    <2>2. /\ run'[r].pc = "catching" /\ run'[r].id = run[r].id /\ run'[r].i = run[r].i
          /\ run'[r].todo = run[r].todo /\ run'[r].shown = run[r].shown
      BY <2>1 DEF Run
    <2>3. QueueInv' /\ KeepsOrder(r)
      BY <1>1, <2>1, <2>2, QueueRejoins DEF DeliveryInv, Awaiting
    <2>4. CASE run[r].pc \in Working
      BY <1>1, <1>2, <1>3, <2>1, <2>2, <2>3, <2>4, QuietStep
    <2>5. CASE run[r].pc \notin Working
      <3>1. run[r].pc = "giveup"
        BY <1>1, <1>3, <2>5 DEF PlanOK, Working, Awaiting
      <3> QED BY <1>1, <1>2, <2>1, <2>2, <2>3, <3>1, RecordingStep
    <2> QED BY <2>4, <2>5
  <1>4. CASE ~(run[r].retry /\ run[r].pc # "catching")
    <2>1. Alone(r) /\ run'[r].pc = "free" /\ QueueInv' /\ KeepsOrder(r)
      BY <1>1, <1>4, ReturnFacts
    <2>2. CASE run[r].pc \in Working
      BY <1>1, <1>2, <2>1, <2>2, QuietStep DEF Working
    <2>3. CASE run[r].pc \notin Working
      <3>1. run[r].pc \in {"giveup", "catching", "adding"}
        BY <1>1, <2>3 DEF Working, Awaiting
      <3> QED BY <1>1, <1>2, <2>1, <3>1, RecordingStep
    <2> QED BY <2>2, <2>3
  <1> QED BY <1>3, <1>4

LEMMA HopWriteStep ==
    ASSUME TypeOK, DeliveryInv, NEW r \in Runs, HopWriteSettles(r)
    PROVE  DeliveryInv'
  <1>1. /\ queue # <<>> /\ Head(queue).hop # Null /\ queue' = Tail(queue) /\ UNCHANGED run
        /\ UNCHANGED <<phase, steps, currentStepIndex, dbRecordId, added, moved, lost, confirmed>>
    BY DEF HopWriteSettles, ui, chain
  <1>2. QueueInv' /\ \A a, b \in Runs : Before(a, b) => Before(a, b)'
    BY <1>1, QueueDrops DEF DeliveryInv
  <1>3. \A id \in 1 .. added' : RowOK(id)'
    BY <1>1 DEF DeliveryInv, RowOK
  <1>4. PageOK'
    BY <1>1 DEF DeliveryInv, PageOK, Current, Told
  <1>5. \A a \in Runs : PlanOK(a)' /\ Elsewhere(a)' /\ (run'[a].shown => OnPage(a)')
    BY <1>1 DEF DeliveryInv, PlanOK, Elsewhere, OnPage, Told, Current
  <1>6. \A a, b \in Runs : a # b => Apart(a, b)'
    BY <1>1, <1>2 DEF DeliveryInv, Apart, Acting
  <1> QED BY <1>2, <1>3, <1>4, <1>5, <1>6 DEF DeliveryInv

----------------------------------------------------------------------------
(* The invariant holds *)

LEMMA DeliveryStep ==
    TypeOK /\ TypeOK' /\ ExecutionIsExclusive /\ DeliveryInv /\ [Next]_vars => DeliveryInv'
  <1> SUFFICES ASSUME TypeOK, TypeOK', ExecutionIsExclusive, DeliveryInv, [Next]_vars
               PROVE  DeliveryInv'
    OBVIOUS
  <1>1. CASE Submit
    BY <1>1, PhaseStep DEF Submit, store, chain
  <1>2. CASE Back
    BY <1>2, PhaseStep DEF Back, FreshPage, CanGoBack, store
  <1>3. CASE OpenDb \/ UNCHANGED vars
    <2>1. UNCHANGED <<run, queue, added, chain, phase, steps, currentStepIndex, dbRecordId>>
      BY <1>3 DEF OpenDb, vars, ui, store
    <2>2. phase' \in {"idle", "preparing"} => phase \in {"idle", "preparing"}
      BY <2>1
    <2> QED BY <2>1, <2>2, PhaseStep
  <1>4. CASE Reload \/ Leave
    BY <1>4, NewPageStep
  <1>5. ASSUME NEW r \in Runs, Start(r)
        PROVE  DeliveryInv'
    BY <1>5, StartStep DEF Start
  <1>6. ASSUME NEW r \in Runs, RetryStep(r)
        PROVE  DeliveryInv'
    BY <1>6, RetryStarts
  <1>7. ASSUME NEW r \in Runs, ChainAccepts(r)
        PROVE  DeliveryInv'
    BY <1>7, ChainAcceptsStep
  <1>8. ASSUME NEW r \in Runs, Continue(r)
        PROVE  DeliveryInv'
    <2>1. CASE RecordAdded(r)
      BY <2>1, RecordAddedStep
    <2>2. CASE Resumed(r)
      BY <2>2, ResumedStep
    <2>3. CASE SendSucceeds(r)
      BY <2>3, SendSucceedsStep
    <2>4. CASE SendFails(r)
      BY <2>4, SendFailsStep
    <2>5. CASE HopsStarted(r) \/ HopConfirmed(r) \/ TrackingSucceeds(r) \/ TrackingFails(r)
      BY <2>5, TrackingStep
    <2>6. CASE StepRecorded(r)
      BY <2>6, StepRecordedStep
    <2>7. CASE FailureRecorded(r) \/ SuccessRecorded(r) \/ GiveupRecorded(r)
      BY <2>7, OutcomeRecorded
    <2>8. CASE HopWriteSettles(r)
      BY <2>8, HopWriteStep
    <2>9. CASE WriteRejected(r)
      BY <2>9, WriteRejectedStep
    <2> QED BY <1>8, <2>1, <2>2, <2>3, <2>4, <2>5, <2>6, <2>7, <2>8, <2>9 DEF Continue
  <1> QED BY <1>1, <1>2, <1>3, <1>4, <1>5, <1>6, <1>7, <1>8 DEF Next

\* Sent twice only if the client never learned that the first one had moved the
\* money: what DeliveryInv says of every record's row.
LEMMA RowsAreSafe ==
    ASSUME TypeOK, DeliveryInv
    PROVE  NoBlindResend /\ StepsInOrder
  <1>1. ASSUME NEW id \in 1 .. added
        PROVE  DOMAIN moved[id] = 1 .. Len(moved[id]) /\ RowOK(id)
    <2>1. moved[id] \in Seq(Nat)
      BY DeliveryTypes DEF TypeOK
    <2> QED BY <2>1, LenProperties DEF DeliveryInv
  <1> QED BY <1>1 DEF NoBlindResend, StepsInOrder, RowOK

LEMMA PageIsFollowed ==
    ASSUME TypeOK, DeliveryInv
    PROVE  PageFollowsRun
  <1>1. ASSUME CanRetry PROVE dbRecordId # Null
    <2>1. currentStepIndex < Len(steps) /\ currentStepIndex \in Nat
      BY <1>1, DeliveryTypes DEF CanRetry
    <2>2. Len(<<>>) = 0
      OBVIOUS
    <2>3. steps # <<>>
      BY <2>1, <2>2
    <2> QED BY <2>3 DEF DeliveryInv, PageOK
  <1>2. ASSUME NEW r \in Runs, run[r].pc \in Working, run[r].shown
        PROVE  phase = "executing" /\ dbRecordId = run[r].id /\ Len(steps) = Len(run[r].todo)
    BY <1>2 DEF DeliveryInv, OnPage
  <1> QED BY <1>1, <1>2 DEF PageFollowsRun

LEMMA DeliveryHolds == Spec => [](TypeOK /\ DeliveryInv)
  BY InitType, NextType, ExclusiveStep, InitialDelivery, DeliveryStep, PTL, ExclusiveExecution DEF Spec

\* For any plans, any number of coroutines, retries, reloads and failing requests:
\* no step is sent again whose transaction the client knows to be on chain.
THEOREM NoBlindResends == Spec => []NoBlindResend
  BY DeliveryHolds, RowsAreSafe, PTL

\* For any plans and any faults a step is sent only after the client saw all
\* before it done: included, and where their packets are followed, received on
\* the last chain.  It does not say that the tokens of those steps arrived there.
THEOREM OrderedSteps == Spec => []StepsInOrder
  BY DeliveryHolds, RowsAreSafe, PTL

\* The coroutine that works on the mounted page's steps is the one the page
\* shows, and Retry is offered only for a transfer that has a record.
THEOREM PageFollows == Spec => []PageFollowsRun
  BY DeliveryHolds, PageIsFollowed, PTL

----------------------------------------------------------------------------
(* Two more properties that follow from the invariant and the history *)

\* A retried coroutine handles an exception only after a request failed.
CatchingInv == \A r \in Runs : run[r].pc = "catching" => dbErrors > 0

LEMMA CatchingStep ==
    TypeOK /\ CatchingInv /\ [Next]_vars => CatchingInv'
  <1> SUFFICES ASSUME TypeOK, CatchingInv, [Next]_vars PROVE CatchingInv'
    OBVIOUS
  <1> USE DeliveryTypes
  <1>0. dbErrors \in Nat /\ DOMAIN run = Runs
    BY DEF TypeOK
  <1>1. ASSUME UNCHANGED dbErrors, \A r \in Runs : run'[r].pc = "catching" => run[r].pc = "catching"
        PROVE  CatchingInv'
    BY <1>1 DEF CatchingInv
  <1>2. ASSUME dbErrors' = dbErrors + 1 PROVE CatchingInv'
    BY <1>0, <1>2 DEF CatchingInv
  <1>3. ASSUME NEW r \in Runs, NEW rn \in Run, NEW pc, Suspend(r, rn, pc), pc # "catching", UNCHANGED dbErrors
        PROVE  CatchingInv'
    <2>1. [rn EXCEPT !.pc = pc].pc = pc
      BY DEF Run
    <2>2. \A q \in Runs : run'[q].pc = "catching" => run[q].pc = "catching"
      BY <1>0, <1>3, <2>1 DEF Suspend
    <2> QED BY <1>1, <1>3, <2>2
  <1>4. ASSUME NEW r \in Runs, Finish(r), UNCHANGED dbErrors PROVE CatchingInv'
    <2>1. \A q \in Runs : run'[q].pc = "catching" => run[q].pc = "catching"
      BY <1>0, <1>4 DEF Finish, Free
    <2> QED BY <1>1, <1>4, <2>1
  <1>5. CASE Submit \/ Back \/ OpenDb \/ UNCHANGED vars
    BY <1>1, <1>5 DEF Submit, Back, OpenDb, vars, budget
  <1>6. CASE Reload \/ Leave
    <2>1. \A r \in Runs : run'[r].pc = "catching" => run[r].pc = "catching"
      <3>1. ASSUME NEW r \in Runs
            PROVE  run[r] \in Run /\ run'[r] \in {Free, [run[r] EXCEPT !.shown = FALSE]}
        BY <1>0, <1>6 DEF Reload, Leave, TypeOK
      <3>2. \A r \in Runs : [run[r] EXCEPT !.shown = FALSE].pc = run[r].pc
        BY <3>1 DEF Run
      <3>3. Free.pc = "free"
        BY DEF Free
      <3>4. \A r \in Runs : run'[r].pc = "free" \/ run'[r].pc = run[r].pc
        BY <3>1, <3>2, <3>3
      <3> QED BY <3>4
    <2> QED BY <1>1, <1>6, <2>1 DEF Reload, Leave, NewPage
  <1>7. ASSUME NEW r \in Runs, NEW plan \in Plans, ExecuteTransfer(r, plan) PROVE CatchingInv'
    <2>1. CASE UNCHANGED run
      BY <1>1, <1>7, <2>1 DEF ExecuteTransfer, budget
    <2>2. CASE Request(r, [Free EXCEPT !.todo = Fresh(plan)], "adding", queue)
      <3>1. \A q \in Runs : run'[q].pc = "catching" => run[q].pc = "catching"
        BY <1>0, <2>2 DEF Request, Suspend, Free
      <3> QED BY <1>1, <1>7, <3>1 DEF ExecuteTransfer, budget
    <2> QED BY <1>7, <2>1, <2>2 DEF ExecuteTransfer
  <1>8. ASSUME NEW r \in Runs, RetryStep(r) PROVE CatchingInv'
    <2>1. \A q \in Runs : run'[q].pc = "catching" => run[q].pc = "catching"
      BY <1>0, <1>8 DEF RetryStep, Request, Suspend, Free
    <2> QED BY <1>1, <1>8, <2>1 DEF RetryStep
  <1>9. ASSUME NEW r \in Runs, ChainAccepts(r) \/ HopConfirmed(r) PROVE CatchingInv'
    <2>1. \/ run' = [run EXCEPT ![r].landed = TRUE]
          \/ run' = [run EXCEPT ![r].hop = run[r].hop + 1]
      BY <1>9 DEF ChainAccepts, HopConfirmed
    <2>2. \A q \in Runs : run'[q].pc = "catching" => run[q].pc = "catching"
      <3>1. CASE run' = [run EXCEPT ![r].landed = TRUE]
        BY <3>1 DEF TypeOK, Run
      <3>2. CASE run' = [run EXCEPT ![r].hop = run[r].hop + 1]
        BY <3>2 DEF TypeOK, Run
      <3> QED BY <2>1, <3>1, <3>2
    <2>3. UNCHANGED dbErrors
      BY <1>9 DEF ChainAccepts, HopConfirmed, budget
    <2> QED BY <1>1, <2>2, <2>3
  <1>10. ASSUME NEW r \in Runs, NEW rn \in Run, NEW j \in Nat, NEW ss, NEW q,
                EnterLoop(r, rn, j, ss, q), UNCHANGED dbErrors
         PROVE  CatchingInv'
    <2>1. PICK k \in j .. Len(rn.todo) + 1 :
            \/ Suspend(r, [rn EXCEPT !.i = k, !.landed = FALSE], "sending")
            \/ Suspend(r, [rn EXCEPT !.i = k], "succeeding")
      BY <1>10 DEF EnterLoop, Request
    <2>2. k \in Nat
      BY LenProperties DEF Run
    <2>3. [rn EXCEPT !.i = k, !.landed = FALSE] \in Run /\ [rn EXCEPT !.i = k] \in Run
      BY <2>2 DEF Run
    <2> QED BY <1>3, <1>10, <2>1, <2>3
  <1>11. ASSUME NEW r \in Runs, RecordAdded(r) \/ Resumed(r) \/ StepRecorded(r) PROVE CatchingInv'
    <2>1. UNCHANGED dbErrors /\ run[r] \in Run /\ run[r].i \in Nat /\ run[r].i + 1 \in Nat
      BY <1>11 DEF RecordAdded, Resumed, StepRecorded, budget
    <2>2. CASE RecordAdded(r)
      <3>1. [run[r] EXCEPT !.id = added + 1] \in Run
        BY <2>1, <2>2 DEF RecordAdded, Run
      <3> QED BY <1>10, <2>1, <2>2, <3>1 DEF RecordAdded
    <2>3. CASE Resumed(r) \/ StepRecorded(r)
      BY <1>10, <2>1, <2>3 DEF Resumed, StepRecorded
    <2> QED BY <1>11, <2>2, <2>3
  <1>12. ASSUME NEW r \in Runs, SendSucceeds(r) \/ SendFails(r) \/ HopsStarted(r)
                              \/ TrackingSucceeds(r) \/ TrackingFails(r)
         PROVE  CatchingInv'
    <2>1. [run[r] EXCEPT !.hop = 0] \in Run /\ run[r] \in Run
      <3>1. 0 \in Progress /\ run[r] \in Run
        BY ChainsAssumption DEF Progress
      <3> HIDE DeliveryTypes
      <3> QED BY <3>1 DEF Run
    <2>2. UNCHANGED dbErrors
      BY <1>12 DEF SendSucceeds, SendFails, HopsStarted, TrackingSucceeds, TrackingFails, budget
    <2>3. \E pc \in {"tracking", "hopstart", "recording", "failing", "giveup"} :
            Suspend(r, run[r], pc) \/ Suspend(r, [run[r] EXCEPT !.hop = 0], pc)
      BY <1>12 DEF SendSucceeds, SendFails, HopsStarted, TrackingSucceeds, TrackingFails,
                   CompleteStep, Request
    <2> QED BY <1>3, <2>1, <2>2, <2>3
  <1>13. ASSUME NEW r \in Runs, FailureRecorded(r) \/ GiveupRecorded(r) \/ SuccessRecorded(r)
         PROVE  CatchingInv'
    BY <1>4, <1>13 DEF FailureRecorded, GiveupRecorded, SuccessRecorded, budget
  <1>14. ASSUME NEW r \in Runs, HopWriteSettles(r) \/ WriteRejected(r) PROVE CatchingInv'
    BY <1>1, <1>2, <1>14 DEF HopWriteSettles, WriteRejected
  <1> QED
    BY <1>5, <1>6, <1>7, <1>8, <1>9, <1>11, <1>12, <1>13, <1>14 DEF Next, Start, Continue

LEMMA RunsAreApart ==
    ASSUME TypeOK, DeliveryInv, CatchingInv
    PROVE  OneRunPerRecord
  <1> USE DeliveryTypes
  <1> SUFFICES ASSUME dbErrors = 0, NEW r \in Runs, NEW q \in Runs, r # q, run[r].pc # "free",
                      run[q].pc # "free", run[r].id # Null, run[r].id = run[q].id
               PROVE  FALSE
    BY DEF OneRunPerRecord
  <1>1. ASSUME NEW a \in Runs, run[a].pc # "free", run[a].id # Null PROVE run[a].pc \in Holding
    <2>1. run[a].pc # "catching"
      BY <1>1 DEF CatchingInv
    <2>2. run[a].pc # "adding"
      BY <1>1 DEF DeliveryInv, PlanOK
    <2> QED BY <1>1, <2>1, <2>2 DEF Holding, Working, Awaiting
  <1>2. run[r].pc \in Holding /\ run[q].pc \in Holding /\ Apart(r, q)
    BY <1>1 DEF DeliveryInv
  <1> QED BY <1>2 DEF Apart

\* As long as no request of IndexedDB fails, no two coroutines ever work on the
\* same record, however often a transfer is retried, left or reloaded.
THEOREM OneRun == Spec => []OneRunPerRecord
  <1>1. Init => CatchingInv
    BY DEF Init, CatchingInv, Free
  <1>2. Spec => []CatchingInv
    BY <1>1, CatchingStep, InitType, NextType, PTL DEF Spec
  <1> QED BY <1>2, DeliveryHolds, RunsAreApart, PTL

\* A completed transfer's record says success, and nobody writes it any more.
CompletedInv == phase = "completed" => db[dbRecordId].status = "success"

LEMMA CompletedStep ==
    TypeOK /\ DeliveryInv /\ CompletedInv /\ [Next]_vars => CompletedInv'
  <1> SUFFICES ASSUME TypeOK, DeliveryInv, CompletedInv, [Next]_vars PROVE CompletedInv'
    OBVIOUS
  <1> USE DeliveryTypes
  <1>0. /\ phase = "completed" => /\ dbRecordId \in Ids /\ dbRecordId \in 1 .. added
                                  /\ \A r \in Runs : run[r].pc # "free" => run[r].id # dbRecordId
        /\ db \in [Ids -> Record]
    BY DEF DeliveryInv, PageOK, Elsewhere, TypeOK
  \* Nothing the page or its record says changes.
  <1>1. ASSUME phase' = "completed" => UNCHANGED <<phase, dbRecordId>>,
               phase' = "completed" => db'[dbRecordId].status = db[dbRecordId].status
        PROVE  CompletedInv'
    BY <1>1 DEF CompletedInv
  <1>2. ASSUME phase' = "completed" => UNCHANGED <<phase, dbRecordId>>, UNCHANGED db PROVE CompletedInv'
    BY <1>2 DEF CompletedInv
  <1>3. ASSUME NEW r \in Runs, NEW change, Writes(r, change), UNCHANGED dbRecordId,
               phase' = "completed" => UNCHANGED phase
        PROVE  CompletedInv'
    <2>1. run[r].pc # "free" /\ db' = [db EXCEPT ![run[r].id] = change]
      BY <1>3 DEF Writes, Settles, Awaiting
    <2>2. phase = "completed" => run[r].id # dbRecordId /\ dbRecordId \in Ids
      BY <1>0, <2>1
    <2>3. phase = "completed" => db'[dbRecordId] = db[dbRecordId]
      BY <1>0, <2>1, <2>2
    <2> QED BY <1>1, <1>3, <2>3
  <1>4. CASE Submit \/ OpenDb \/ UNCHANGED vars
    BY <1>2, <1>4 DEF Submit, OpenDb, vars, ui, store
  <1>5. CASE Back \/ Reload \/ Leave
    BY <1>5 DEF Back, Reload, Leave, NewPage, FreshPage, CompletedInv
  <1>6. ASSUME NEW r \in Runs, NEW plan \in Plans, ExecuteTransfer(r, plan) PROVE CompletedInv'
    BY <1>2, <1>6 DEF ExecuteTransfer
  <1>7. ASSUME NEW r \in Runs, RetryStep(r) PROVE CompletedInv'
    BY <1>7 DEF RetryStep, CompletedInv
  <1>8. ASSUME NEW r \in Runs, ChainAccepts(r) \/ SendSucceeds(r) \/ SendFails(r) \/ HopConfirmed(r)
                             \/ TrackingSucceeds(r)
        PROVE  CompletedInv'
    BY <1>2, <1>8 DEF ChainAccepts, SendSucceeds, SendFails, HopConfirmed, TrackingSucceeds, ui, store
  <1>9. ASSUME NEW r \in Runs, TrackingFails(r) \/ WriteRejected(r) PROVE CompletedInv'
    <2>1. UNCHANGED <<dbRecordId, db>> /\ (ShowPhase(r, "failed") \/ UNCHANGED phase)
      BY <1>9 DEF TrackingFails, WriteRejected
    <2>2. phase' = "completed" => UNCHANGED phase
      BY <2>1 DEF ShowPhase, Shows
    <2> QED BY <1>2, <2>1, <2>2
  <1>10. ASSUME NEW r \in Runs, HopsStarted(r) \/ GiveupRecorded(r) \/ Resumed(r) PROVE CompletedInv'
    <2>1. \E change : Writes(r, change)
      BY <1>10 DEF HopsStarted, GiveupRecorded, Resumed
    <2>2. UNCHANGED <<phase, dbRecordId>>
      BY <1>10 DEF HopsStarted, GiveupRecorded, Resumed, ui
    <2> QED BY <1>3, <2>1, <2>2
  <1>11. ASSUME NEW r \in Runs, FailureRecorded(r) PROVE CompletedInv'
    <2>1. (\E change : Writes(r, change)) /\ UNCHANGED dbRecordId /\ ShowPhase(r, "failed")
      BY <1>11 DEF FailureRecorded
    <2>2. phase' = "completed" => UNCHANGED phase
      BY <2>1 DEF ShowPhase, Shows
    <2> QED BY <1>3, <2>1, <2>2
  <1>12. ASSUME NEW r \in Runs, StepRecorded(r) PROVE CompletedInv'
    <2>1. (\E change : Writes(r, change)) /\ UNCHANGED dbRecordId
      BY <1>12 DEF StepRecorded
    <2>2. phase' = "completed" => UNCHANGED phase
      BY <1>12 DEF StepRecorded, ShowPhase, Shows
    <2> QED BY <1>3, <2>1, <2>2
  <1>13. ASSUME NEW r \in Runs, SuccessRecorded(r) PROVE CompletedInv'
    <2>1. /\ Writes(r, [db[run[r].id] EXCEPT !.status = "success", !.currentStep = Len(run[r].todo)])
          /\ run[r].pc = "succeeding" /\ ShowPhase(r, "completed") /\ UNCHANGED dbRecordId
      BY <1>13 DEF SuccessRecorded
    <2>2. CASE run[r].shown
      <3>1. dbRecordId = run[r].id /\ run[r].id \in Ids
        BY <2>1, <2>2, WorkingFacts DEF OnPage, Working
      <3>2. db' = [db EXCEPT ![run[r].id] = [db[run[r].id] EXCEPT !.status = "success",
                                                                !.currentStep = Len(run[r].todo)]]
        BY <2>1 DEF Writes
      <3>3. db'[dbRecordId].status = "success"
        BY <1>0, <3>1, <3>2 DEF Record
      <3> QED BY <2>1, <3>3 DEF CompletedInv
    <2>3. CASE ~run[r].shown
      <3>1. UNCHANGED phase
        BY <2>1, <2>3 DEF ShowPhase, Shows
      <3> QED BY <1>3, <2>1, <3>1
    <2> QED BY <2>2, <2>3
  <1>14. ASSUME NEW r \in Runs, HopWriteSettles(r) PROVE CompletedInv'
    <2>1. /\ UNCHANGED <<phase, dbRecordId>>
          /\ db' = db \/ db' = [db EXCEPT ![run[r].id].hops = Head(queue).hop]
      BY <1>14 DEF HopWriteSettles, ui
    <2>2. \A id \in Ids : db'[id].status = db[id].status
      <3>1. CASE db' = [db EXCEPT ![run[r].id].hops = Head(queue).hop]
        <4>1. ASSUME NEW id \in Ids PROVE db'[id] \in {db[id], [db[id] EXCEPT !.hops = Head(queue).hop]}
          BY <1>0, <3>1
        <4>2. \A id \in Ids : [db[id] EXCEPT !.hops = Head(queue).hop].status = db[id].status
          BY <1>0 DEF Record
        <4> QED BY <4>1, <4>2
      <3> QED BY <2>1, <3>1
    <2> QED BY <1>0, <1>1, <2>1, <2>2
  <1>15. ASSUME NEW r \in Runs, RecordAdded(r) PROVE CompletedInv'
    <2>1. /\ UNCHANGED <<phase, dbRecordId>> \/ phase' = "executing"
          /\ \E record : db' = [db EXCEPT ![added + 1] = record]
      BY <1>15 DEF RecordAdded, ShowPhase, Shows
    <2>2. \A id \in 1 .. added : db'[id] = db[id]
      BY <1>0, <2>1
    <2> QED BY <1>0, <1>1, <2>1, <2>2
  <1> QED
    BY <1>4, <1>5, <1>6, <1>7, <1>8, <1>9, <1>10, <1>11, <1>12, <1>13, <1>14, <1>15
    DEF Next, Start, Continue

\* A transfer shown as completed is recorded as a success, all its steps done,
\* whatever other coroutines write meanwhile.
THEOREM CompletedAreRecorded == Spec => []CompletedIsRecorded
  <1>1. Init => CompletedInv
    BY DEF Init, CompletedInv
  <1>2. Spec => []CompletedInv
    BY <1>1, CompletedStep, DeliveryHolds, PTL DEF Spec
  <1>3. ASSUME TypeOK, DeliveryInv, CompletedInv PROVE CompletedIsRecorded
    <2> SUFFICES ASSUME phase = "completed"
                 PROVE  /\ dbRecordId # Null /\ db[dbRecordId].status = "success"
                        /\ \A j \in DOMAIN steps : steps[j].status = "completed"
      BY DEF CompletedIsRecorded
    <2>1. /\ dbRecordId # Null /\ Len(steps) = currentStepIndex + 1 /\ Current = "completed"
          /\ \A j \in 1 .. currentStepIndex : steps[j].status = "completed"
      BY <1>3 DEF DeliveryInv, PageOK
    <2>2. DOMAIN steps = 1 .. Len(steps) /\ currentStepIndex \in Nat
      BY <1>3, LenProperties DEF TypeOK
    <2>3. ASSUME NEW j \in DOMAIN steps PROVE steps[j].status = "completed"
      <3>1. j \in 1 .. currentStepIndex \/ j = currentStepIndex + 1
        BY <2>1, <2>2
      <3> QED BY <2>1, <3>1 DEF Current
    <2> QED BY <1>3, <2>1, <2>3 DEF CompletedInv
  <1> QED BY <1>2, <1>3, DeliveryHolds, PTL

----------------------------------------------------------------------------
(* The refinement mapping *)

\* What History makes of the state: a record's outline, and its settled steps.
Outline(id)  == [status |-> db[id].status, currentStep |-> db[id].currentStep,
                 totalSteps |-> db[id].totalSteps]
Settled(id) == Cardinality(ConfirmedSteps(id))

\* Nothing the history is about changes, but what it says of X.
OutlinesKept(X) == \A id \in Ids \ {X} : Outline(id)' = Outline(id)
SettledKept(X) == \A id \in Ids \ {X} : Settled(id)' = Settled(id)

LEMMA Unmoved ==
    ASSUME UNCHANGED refused, \A id \in Ids : Outline(id)' = Outline(id) /\ Settled(id)' = Settled(id)
    PROVE  UNCHANGED History!hvars
  BY DEF History!hvars, Outline, Settled

LEMMA Opens ==
    ASSUME NEW X \in Ids, NEW n \in Nat \ {0}, db[X].status = "absent",
           Outline(X)' = [status |-> "in-progress", currentStep |-> 0, totalSteps |-> n],
           OutlinesKept(X), UNCHANGED refused, \A id \in Ids : Settled(id)' = Settled(id)
    PROVE  History!Next
  <1> DEFINE Mapped == [id \in Ids |-> Outline(id)]
  <1>1. Mapped' = [Mapped EXCEPT ![X] = Outline(X)']
    BY DEF OutlinesKept
  <1>2. History!Open(X)
    BY <1>1 DEF History!Open, Outline, Settled
  <1> QED BY <1>2 DEF History!Next

LEMMA OneSettled ==
    ASSUME NEW X \in Ids, db[X].status = "in-progress", Settled(X) < db[X].totalSteps,
           Settled(X)' = Settled(X) + 1, SettledKept(X), \A id \in Ids : Outline(id)' = Outline(id),
           UNCHANGED refused \/ refused' = refused \cup {<<X, Settled(X) + 1>>}
    PROVE  History!Next
  <1> DEFINE Mapped == [id \in Ids |-> Settled(id)]
  <1>1. Mapped' = [Mapped EXCEPT ![X] = Settled(X) + 1]
    BY DEF SettledKept
  <1>2. CASE UNCHANGED refused
    <2>1. History!Arrive(X)
      BY <1>1, <1>2 DEF History!Arrive, History!MaySettle, Outline, Settled
    <2> QED BY <2>1 DEF History!Next
  <1>3. CASE refused' = refused \cup {<<X, Settled(X) + 1>>}
    <2>1. History!Refuse(X)
      BY <1>1, <1>3 DEF History!Refuse, History!MaySettle, Outline, Settled
    <2> QED BY <2>1 DEF History!Next
  <1> QED BY <1>2, <1>3

\* The outline of X changes as a whole: it counts a step, fails, is resumed or succeeds.
LEMMA Recorded ==
    ASSUME NEW X \in Ids, NEW s, NEW c, OutlinesKept(X), UNCHANGED refused,
           \A id \in Ids : Settled(id)' = Settled(id),
           Outline(X)' = [status |-> s, currentStep |-> c, totalSteps |-> db[X].totalSteps],
           \/ /\ db[X].status = "in-progress" /\ s = "in-progress"
              /\ db[X].currentStep < Settled(X) /\ c = db[X].currentStep + 1
           \/ /\ db[X].status = "in-progress" /\ s = "failed" /\ c = db[X].currentStep
           \/ /\ db[X].status = "failed" /\ s = "in-progress" /\ c = db[X].currentStep
           \/ /\ db[X].status = "in-progress" /\ s = "success" /\ c = db[X].currentStep
              /\ Settled(X) = db[X].totalSteps /\ c = db[X].totalSteps
    PROVE  History!Next
  <1> DEFINE Mapped == [id \in Ids |-> Outline(id)]
  <1>1. Mapped' = [Mapped EXCEPT ![X] = Outline(X)']
    BY DEF OutlinesKept
  <1>2. Mapped[X] = [status |-> db[X].status, currentStep |-> db[X].currentStep,
                     totalSteps |-> db[X].totalSteps]
    BY DEF Outline
  <1> HIDE DEF Mapped
  <1>3. CASE db[X].status = "in-progress" /\ s = "in-progress"
    <2>1. Mapped' = [Mapped EXCEPT ![X].currentStep = @ + 1]
      <3>1. [Mapped[X] EXCEPT !.currentStep = Mapped[X].currentStep + 1] = [status |-> s, currentStep |-> c, totalSteps |-> db[X].totalSteps]
        BY <1>2, <1>3
      <3> QED BY <1>1, <3>1
    <2>2. History!Advance(X)
      BY <1>3, <2>1 DEF History!Advance, Mapped, Outline, Settled
    <2> QED BY <2>2 DEF History!Next
  <1>4. CASE db[X].status = "in-progress" /\ s = "failed"
    <2>1. Mapped' = [Mapped EXCEPT ![X].status = "failed"]
      <3>1. [Mapped[X] EXCEPT !.status = "failed"] = [status |-> s, currentStep |-> c, totalSteps |-> db[X].totalSteps]
        BY <1>2, <1>4
      <3> QED BY <1>1, <3>1
    <2>2. History!Fail(X)
      BY <1>4, <2>1 DEF History!Fail, Mapped, Outline, Settled
    <2> QED BY <2>2 DEF History!Next
  <1>5. CASE db[X].status = "failed" /\ s = "in-progress"
    <2>1. Mapped' = [Mapped EXCEPT ![X].status = "in-progress"]
      <3>1. [Mapped[X] EXCEPT !.status = "in-progress"] = [status |-> s, currentStep |-> c, totalSteps |-> db[X].totalSteps]
        BY <1>2, <1>5
      <3> QED BY <1>1, <3>1
    <2>2. History!Resume(X)
      BY <1>5, <2>1 DEF History!Resume, Mapped, Outline, Settled
    <2> QED BY <2>2 DEF History!Next
  <1>6. CASE db[X].status = "in-progress" /\ s = "success"
    <2>1. Mapped' = [Mapped EXCEPT ![X].status = "success"]
      <3>1. [Mapped[X] EXCEPT !.status = "success"] = [status |-> s, currentStep |-> c, totalSteps |-> db[X].totalSteps]
        BY <1>2, <1>6
      <3> QED BY <1>1, <3>1
    <2>2. History!Succeed(X)
      BY <1>6, <2>1 DEF History!Succeed, Mapped, Outline, Settled
    <2> QED BY <2>2 DEF History!Next
  <1> QED BY <1>3, <1>4, <1>5, <1>6

----------------------------------------------------------------------------
(* How many steps of a record are settled *)

LEMMA Counted ==
    ASSUME NEW d \in Seq(BOOLEAN), NEW k \in 0 .. Len(d),
           \A j \in 1 .. k : d[j], \A j \in k + 1 .. Len(d) : ~d[j]
    PROVE  Cardinality({j \in DOMAIN d : d[j]}) = k
  <1>1. DOMAIN d = 1 .. Len(d) /\ Len(d) \in Nat
    BY LenProperties
  <1>2. {j \in DOMAIN d : d[j]} = 1 .. k
    BY <1>1
  <1>3. Cardinality(1 .. k) = k
    <2>1. k \in Int /\ 1 \in Int /\ k >= 0
      BY <1>1
    <2>2. Cardinality(1 .. k) = IF 1 > k THEN 0 ELSE k - 1 + 1
      BY <2>1, FS_Interval
    <2> QED BY <2>1, <2>2
  <1> QED BY <1>2, <1>3

----------------------------------------------------------------------------
(* The invariant *)

\* A coroutine's record: while it works on it the record is in progress and
\* counts the steps before its index; nothing from there on is confirmed, but
\* the step it is recording.
RecordOK(r) ==
  LET rn == run[r] IN
  /\ rn.pc \in Holding \cup {"catching"} => db[rn.id].status \in {"in-progress", "failed"}
  /\ rn.pc \in Holding \ {"resuming"} => db[rn.id].status = "in-progress"
  /\ rn.pc \in Working => db[rn.id].currentStep = rn.i - 1
  /\ rn.pc \in Working => \A j \in rn.i .. Len(rn.todo) :
       confirmed[rn.id][j] => j = rn.i /\ rn.pc = "recording"

\* A record has as many steps as its row on the chains, one without a row is absent.
StoreOK ==
  /\ \A id \in 1 .. added : Len(moved[id]) = db[id].totalSteps /\ db[id].totalSteps > 0
  /\ \A id \in Ids : id > added => db[id].status = "absent" /\ confirmed[id] = <<>>

\* A step that may be retried is the one its record stopped at.
RetryOK ==
  dbRecordId # Null /\ Current = "failed" =>
    /\ db[dbRecordId].status \in {"in-progress", "failed"}
    /\ db[dbRecordId].currentStep = currentStepIndex
    /\ \A j \in currentStepIndex + 1 .. Len(steps) : ~confirmed[dbRecordId][j]

HistoryInv == StoreOK /\ RetryOK /\ \A r \in Runs : RecordOK(r)

LEMMA HistoryTypes ==
    ASSUME TypeOK
    PROVE  /\ \A id \in Ids : /\ db[id] \in Record /\ db[id].currentStep \in Nat /\ db[id].totalSteps \in Nat
                              /\ confirmed[id] \in Seq(BOOLEAN) /\ Len(confirmed[id]) \in Nat
  <1>1. ASSUME NEW id \in Ids PROVE db[id] \in Record /\ confirmed[id] \in Seq(BOOLEAN)
    BY DEF TypeOK
  <1>2. ASSUME NEW id \in Ids
        PROVE  db[id].currentStep \in Nat /\ db[id].totalSteps \in Nat /\ Len(confirmed[id]) \in Nat
    BY <1>1, LenProperties DEF Record
  <1> QED BY <1>1, <1>2

LEMMA InitialHistory == Init => HistoryInv /\ History!Init
  <1> SUFFICES ASSUME Init PROVE HistoryInv /\ History!Init
    OBVIOUS
  <1>1. StoreOK /\ RetryOK
    BY DEF Init, StoreOK, RetryOK, NoRecord
  <1>2. \A r \in Runs : RecordOK(r)
    BY DEF Init, RecordOK, Free, Holding, Working
  <1>3. \A id \in Ids : Outline(id) = [status |-> "absent", currentStep |-> 0, totalSteps |-> 0]
    BY DEF Init, Outline, NoRecord
  <1>4. \A id \in Ids : Settled(id) = 0
    <2>1. \A id \in Ids : ConfirmedSteps(id) = {}
      BY DEF Init, ConfirmedSteps
    <2> QED BY <2>1, FS_EmptySet DEF Settled
  <1>5. History!Init
    <2>1. refused = {}
      BY DEF Init
    <2> QED BY <1>3, <1>4, <2>1 DEF History!Init, History!Absent, Outline, Settled
  <1> QED BY <1>1, <1>2, <1>5 DEF HistoryInv

----------------------------------------------------------------------------
(* What a step leaves of the invariant *)

\* Who works on a record is alone with it: who records its failure on behalf of
\* an earlier call is done before a retried one resumes.
LEMMA Owns ==
    ASSUME TypeOK, DeliveryInv, NEW r \in Runs, run[r].pc \in Holding,
           run[r].pc = "resuming" => Settles(r)
    PROVE  \A a \in Runs \ {r} : run[a].pc \in Holding \cup {"catching"} => run[a].id # run[r].id
  <1>1. \A a \in Runs : run[r].pc = "resuming" => ~Before(a, r)
    BY NoneAhead DEF DeliveryInv
  <1>2. \A a \in Runs \ {r} : Apart(a, r)
    BY DEF DeliveryInv
  <1> QED BY <1>1, <1>2 DEF Apart

\* The records of coroutines other than r, when a step writes X only.
LEMMA OthersRecords ==
    ASSUME TypeOK, DeliveryInv, HistoryInv, NEW r \in Runs, Alone(r), NEW X,
           \A a \in Runs \ {r} : run[a].pc \in Holding \cup {"catching"} => run[a].id # X,
           OutlinesKept(X), \A id \in Ids \ {X} : confirmed'[id] = confirmed[id]
    PROVE  \A a \in Runs \ {r} : RecordOK(a)'
  <1> SUFFICES ASSUME NEW a \in Runs \ {r}, NEW Y, Y = run[a].id PROVE RecordOK(a)'
    OBVIOUS
  <1>1. run'[a] = run[a] /\ RecordOK(a) /\ PlanOK(a)
    BY DEF Alone, HistoryInv, DeliveryInv
  <1>2. CASE run[a].pc \in Holding \cup {"catching"}
    <2>1. Y \in Ids \ {X}
      BY <1>1, <1>2, DeliveryTypes DEF PlanOK
    <2>2. /\ db'[Y].status = db[Y].status /\ db'[Y].currentStep = db[Y].currentStep
          /\ confirmed'[Y] = confirmed[Y]
      BY <2>1 DEF OutlinesKept, Outline
    <2> QED BY <1>1, <2>2 DEF RecordOK
  <1>3. CASE run[a].pc \notin Holding \cup {"catching"}
    BY <1>1, <1>3 DEF RecordOK, Holding
  <1> QED BY <1>2, <1>3

\* The records of a coroutine that goes on without a change of its record.
LEMMA RecordPasses ==
    ASSUME TypeOK, DeliveryInv, HistoryInv, NEW a \in Runs, NEW X, X = run[a].id,
           \A id \in Ids : Outline(id)' = Outline(id), UNCHANGED confirmed,
           \/ run'[a].pc \in {"free", "adding"}
           \/ /\ run'[a].id = X /\ run'[a].i = run[a].i /\ run'[a].todo = run[a].todo
              /\ \/ run'[a].pc = run[a].pc
                 \/ /\ run[a].pc \in {"sending", "hopstart", "tracking"}
                    /\ run'[a].pc \in {"hopstart", "tracking", "failing", "giveup"}
                 \/ run[a].pc \in Holding /\ run'[a].pc = "catching"
    PROVE  RecordOK(a)'
  <1>1. CASE run'[a].pc \in {"free", "adding"}
    BY <1>1 DEF RecordOK, Holding, Working
  <1>2. CASE run[a].pc \notin Holding \cup {"catching"} /\ run'[a].pc = run[a].pc
    BY <1>2 DEF RecordOK, Holding
  <1>3. CASE run[a].pc \in Holding \cup {"catching"} /\ run'[a].pc \notin {"free", "adding"}
    <2>1. X \in Ids /\ RecordOK(a)
      BY <1>3, DeliveryTypes DEF DeliveryInv, PlanOK, HistoryInv
    <2>2. db'[X].status = db[X].status /\ db'[X].currentStep = db[X].currentStep
      BY <2>1 DEF Outline
    <2>3. run'[a].id = X /\ run'[a].i = run[a].i /\ run'[a].todo = run[a].todo
      BY <1>3
    <2>4. CASE run'[a].pc = run[a].pc
      BY <2>1, <2>2, <2>3, <2>4 DEF RecordOK
    <2>5. CASE /\ run[a].pc \in {"sending", "hopstart", "tracking"}
               /\ run'[a].pc \in {"hopstart", "tracking", "failing", "giveup"}
      BY <2>1, <2>2, <2>3, <2>5 DEF RecordOK, Holding, Working
    <2>6. CASE run[a].pc \in Holding /\ run'[a].pc = "catching"
      BY <2>1, <2>2, <2>3, <2>6 DEF RecordOK, Holding, Working
    <2> QED BY <1>3, <2>4, <2>5, <2>6
  <1> QED BY <1>1, <1>2, <1>3 DEF Holding, Working

\* The store, when no record is added.
LEMMA StorePasses ==
    ASSUME TypeOK, DeliveryInv, HistoryInv, NEW X, OutlinesKept(X), UNCHANGED added,
           X \in Ids => X \in 1 .. added /\ db'[X].totalSteps = db[X].totalSteps,
           \A id \in Ids \ {X} : confirmed'[id] = confirmed[id],
           \A id \in Ids : Len(moved'[id]) = Len(moved[id])
    PROVE  StoreOK'
  <1>1. added \in Nat /\ 1 .. added \subseteq Ids /\ Ids \subseteq Nat
    BY DeliveryTypes DEF Ids
  <1>2. \A id \in Ids \ {X} : db'[id].status = db[id].status /\ db'[id].totalSteps = db[id].totalSteps
    BY DEF OutlinesKept, Outline
  <1>3. ASSUME NEW id \in 1 .. added' PROVE Len(moved'[id]) = db'[id].totalSteps /\ db'[id].totalSteps > 0
    BY <1>1, <1>2, <1>3 DEF HistoryInv, StoreOK
  <1>4. ASSUME NEW id \in Ids, id > added' PROVE db'[id].status = "absent" /\ confirmed'[id] = <<>>
    <2>1. id # X
      BY <1>1, <1>4
    <2> QED BY <1>2, <1>4, <2>1 DEF HistoryInv, StoreOK
  <1> QED BY <1>3, <1>4 DEF StoreOK

\* A step that no record shows.
LEMMA PlainStep ==
    ASSUME TypeOK, DeliveryInv, HistoryInv, \A id \in Ids : Outline(id)' = Outline(id),
           UNCHANGED <<added, confirmed, refused>>, \A id \in Ids : Len(moved'[id]) = Len(moved[id]),
           RetryOK', \A a \in Runs : RecordOK(a)'
    PROVE  HistoryInv' /\ UNCHANGED History!hvars
  <1>1. \A id \in Ids : Settled(id)' = Settled(id)
    BY DEF Settled, ConfirmedSteps
  <1>2. StoreOK'
    <2>1. \A id \in Ids : db'[id].status = db[id].status /\ db'[id].totalSteps = db[id].totalSteps
      BY DEF Outline
    <2>2. 1 .. added \subseteq Ids
      BY DeliveryTypes
    <2> QED BY <2>1, <2>2 DEF HistoryInv, StoreOK
  <1> QED BY <1>1, <1>2, Unmoved DEF HistoryInv

\* Retry, when the page stays and the record it shows does, too.
LEMMA RetryPasses ==
    ASSUME TypeOK, DeliveryInv, HistoryInv, UNCHANGED <<dbRecordId, steps, currentStepIndex>>,
           NEW X, X # dbRecordId, OutlinesKept(X), \A id \in Ids \ {X} : confirmed'[id] = confirmed[id]
    PROVE  RetryOK'
  <1>1. CASE dbRecordId # Null
    <2>1. dbRecordId \in Ids \ {X}
      BY <1>1 DEF TypeOK
    <2>2. /\ db'[dbRecordId].status = db[dbRecordId].status
          /\ db'[dbRecordId].currentStep = db[dbRecordId].currentStep
          /\ confirmed'[dbRecordId] = confirmed[dbRecordId]
      BY <2>1 DEF OutlinesKept, Outline
    <2> QED BY <2>2 DEF HistoryInv, RetryOK, Current
  <1>2. CASE dbRecordId = Null
    BY <1>2 DEF RetryOK
  <1> QED BY <1>1, <1>2

\* A coroutine of the page that is sending, tracking or recording is at a step that has not failed.
LEMMA NothingToRetry ==
    ASSUME TypeOK, DeliveryInv', NEW r \in Runs, run'[r].shown,
           run'[r].pc \in {"sending", "hopstart", "tracking", "recording", "succeeding"}
    PROVE  RetryOK'
  <1>1. OnPage(r)'
    BY DEF DeliveryInv
  <1>2. Current' # "failed"
    BY <1>1 DEF OnPage, Working
  <1> QED BY <1>2 DEF RetryOK

LEMMA SameOutlines ==
    ASSUME UNCHANGED db
    PROVE  \A id \in Ids : Outline(id)' = Outline(id)
  BY DEF Outline

----------------------------------------------------------------------------
(* The steps that the history does not see *)

\* The page changes, or a coroutine starts or ends without a record of it.
\* A coroutine keeps its record as it was, or has none (any more).
KeepsRecord(a) ==
  \/ run'[a].pc \in {"free", "adding"}
  \/ /\ run'[a].id = run[a].id /\ run'[a].i = run[a].i /\ run'[a].todo = run[a].todo
     /\ run'[a].pc = run[a].pc \/ (run[a].pc \in Holding /\ run'[a].pc = "catching")

LEMMA PageSteps ==
    ASSUME TypeOK, DeliveryInv, HistoryInv,
           UNCHANGED <<db, added, chain>>,
           dbRecordId' = Null \/ UNCHANGED <<dbRecordId, steps, currentStepIndex>>,
           \A a \in Runs : KeepsRecord(a)
    PROVE  HistoryInv' /\ UNCHANGED History!hvars
  <1>1. /\ \A id \in Ids : Outline(id)' = Outline(id)
        /\ UNCHANGED <<confirmed, refused>> /\ \A id \in Ids : Len(moved'[id]) = Len(moved[id])
    BY SameOutlines DEF chain
  <1>2. ASSUME NEW a \in Runs PROVE RecordOK(a)'
    <2> SUFFICES ASSUME NEW X, X = run[a].id PROVE RecordOK(a)'
      OBVIOUS
    <2>1. \/ run'[a].pc \in {"free", "adding"}
          \/ /\ run'[a].id = X /\ run'[a].i = run[a].i /\ run'[a].todo = run[a].todo
             /\ run'[a].pc = run[a].pc \/ (run[a].pc \in Holding /\ run'[a].pc = "catching")
      BY DEF KeepsRecord
    <2> QED BY <1>1, <2>1, RecordPasses
  <1>3. RetryOK'
    <2>1. CASE dbRecordId' = Null
      BY <2>1 DEF RetryOK
    <2>2. CASE UNCHANGED <<dbRecordId, steps, currentStepIndex>>
      BY <1>1, <2>2 DEF HistoryInv, RetryOK, Current
    <2> QED BY <2>1, <2>2
  <1> QED BY <1>1, <1>2, <1>3, PlainStep

LEMMA UserSteps ==
    ASSUME TypeOK, DeliveryInv, HistoryInv, Submit \/ Back \/ OpenDb \/ UNCHANGED vars \/ Reload \/ Leave
    PROVE  HistoryInv' /\ UNCHANGED History!hvars
  <1>1. CASE Submit \/ Back \/ OpenDb \/ UNCHANGED vars
    <2>1. UNCHANGED <<db, added, chain, run>>
      BY <1>1 DEF Submit, Back, OpenDb, vars, store
    <2>2. dbRecordId' = Null \/ UNCHANGED <<dbRecordId, steps, currentStepIndex>>
      BY <1>1 DEF Submit, Back, FreshPage, OpenDb, vars, ui
    <2>3. \A a \in Runs : KeepsRecord(a)
      BY <2>1 DEF KeepsRecord
    <2> QED BY <2>1, <2>2, <2>3, PageSteps
  <1>2. CASE Reload \/ Leave
    <2>1. dbRecordId' = Null /\ UNCHANGED <<db, added, chain>>
      BY <1>2 DEF Reload, Leave, NewPage, FreshPage
    <2>2. ASSUME NEW a \in Runs
          PROVE  KeepsRecord(a)
      <3>1. run[a] \in Run /\ run'[a] \in {Free, [run[a] EXCEPT !.shown = FALSE]}
        BY <1>2, DeliveryTypes DEF Reload, Leave
      <3> QED BY <3>1 DEF Free, Run, KeepsRecord
    <2> QED BY <2>1, <2>2, PageSteps
  <1> QED BY <1>1, <1>2

LEMMA StartSteps ==
    ASSUME TypeOK, DeliveryInv, HistoryInv, NEW r \in Runs, NEW plan \in Plans, ExecuteTransfer(r, plan)
    PROVE  HistoryInv' /\ UNCHANGED History!hvars
  <1>1. UNCHANGED <<db, added, chain, dbRecordId, steps, currentStepIndex>>
    BY DEF ExecuteTransfer
  <1>2. \A a \in Runs : run'[a].pc = "adding" \/ run'[a] = run[a]
    BY DEF ExecuteTransfer, Request, Suspend, Free, TypeOK
  <1>3. \A a \in Runs : KeepsRecord(a)
    BY <1>2 DEF KeepsRecord
  <1> QED BY <1>1, <1>3, PageSteps

\* A coroutine ends, or leaves its loop, because a request failed.
LEMMA RejectedSteps ==
    ASSUME TypeOK, DeliveryInv, HistoryInv, NEW r \in Runs, WriteRejected(r)
    PROVE  HistoryInv' /\ UNCHANGED History!hvars
  <1> USE DeliveryTypes
  <1>1. UNCHANGED <<db, added, chain, dbRecordId, steps, currentStepIndex>>
    BY DEF WriteRejected
  <1>2. \A a \in Runs \ {r} : run'[a] = run[a]
    BY DEF WriteRejected, Request, Suspend, Finish, TypeOK
  <1>3. CASE Finish(r)
    <2>1. run'[r].pc = "free"
      BY <1>3 DEF Finish, Free, TypeOK
    <2>2. \A a \in Runs : KeepsRecord(a)
      BY <1>2, <2>1 DEF KeepsRecord
    <2> QED BY <1>1, <2>2, PageSteps
  <1>4. CASE ~Finish(r)
    <2>1. /\ run[r].retry /\ run[r].pc # "catching" /\ run[r].pc \in Awaiting /\ PlanOK(r)
          /\ run' = [run EXCEPT ![r] = [run[r] EXCEPT !.pc = "catching"]]
      BY <1>4 DEF WriteRejected, Settles, Request, Suspend, DeliveryInv
    <2>2. run[r].pc \in Holding
      BY <2>1 DEF PlanOK, Awaiting, Holding, Working
    <2>3. run'[r] = [run[r] EXCEPT !.pc = "catching"]
      BY <2>1 DEF TypeOK
    <2>4. /\ run'[r].pc = "catching" /\ run'[r].id = run[r].id /\ run'[r].i = run[r].i
          /\ run'[r].todo = run[r].todo
      BY <2>3 DEF Run
    <2>5. \A a \in Runs : KeepsRecord(a)
      BY <1>2, <2>2, <2>4 DEF KeepsRecord
    <2> QED BY <1>1, <2>5, PageSteps
  <1> QED BY <1>3, <1>4

\* Retry: the coroutine takes over the record as the page shows it.
LEMMA RetrySteps ==
    ASSUME TypeOK, DeliveryInv, HistoryInv, NEW r \in Runs, RetryStep(r)
    PROVE  HistoryInv' /\ UNCHANGED History!hvars
  <1> USE DeliveryTypes
  <1>1. /\ UNCHANGED <<db, added, chain, dbRecordId, steps, currentStepIndex>>
        /\ dbRecordId # Null /\ Current = "failed"
    BY DEF RetryStep, CanRetry, Current
  <1>2. /\ Alone(r) /\ run'[r].pc = "resuming" /\ run'[r].id = dbRecordId
        /\ run'[r].todo = steps /\ run'[r].i = currentStepIndex + 1
    BY DEF RetryStep, RetryFrom, Request, Suspend, Alone, Free, TypeOK
  <1>3. UNCHANGED <<moved, confirmed, refused>> /\ \A id \in Ids : Outline(id)' = Outline(id)
    BY <1>1, SameOutlines DEF chain
  <1>4. RetryOK /\ RetryOK'
    BY <1>1, <1>3 DEF HistoryInv, RetryOK, Current
  <1>5. RecordOK(r)'
    <2>1. /\ db[dbRecordId].status \in {"in-progress", "failed"}
          /\ db[dbRecordId].currentStep = currentStepIndex
          /\ \A j \in currentStepIndex + 1 .. Len(steps) : ~confirmed[dbRecordId][j]
      BY <1>1, <1>4 DEF RetryOK
    <2>2. currentStepIndex + 1 - 1 = currentStepIndex
      OBVIOUS
    <2> QED BY <1>1, <1>2, <1>3, <2>1, <2>2 DEF RecordOK, Holding, Working
  <1>6. ASSUME NEW a \in Runs \ {r} PROVE RecordOK(a)'
    <2> SUFFICES ASSUME NEW X, X = run[a].id PROVE RecordOK(a)'
      OBVIOUS
    <2>1. /\ run'[a].id = X /\ run'[a].i = run[a].i /\ run'[a].todo = run[a].todo
          /\ run'[a].pc = run[a].pc
      BY <1>2 DEF Alone
    <2> QED BY <1>3, <2>1, RecordPasses
  <1> QED BY <1>1, <1>3, <1>4, <1>5, <1>6, PlainStep

\* A coroutine goes on, and its record does not change.
LEMMA WorkerSteps ==
    ASSUME TypeOK, DeliveryInv, HistoryInv, NEW r \in Runs, Alone(r),
           \A id \in Ids : Outline(id)' = Outline(id), UNCHANGED <<added, confirmed, refused>>,
           \A id \in Ids : Len(moved'[id]) = Len(moved[id]),
           run'[r].id = run[r].id, run'[r].i = run[r].i, run'[r].todo = run[r].todo,
           \/ run'[r].pc = run[r].pc
           \/ /\ run[r].pc \in {"sending", "hopstart", "tracking"}
              /\ run'[r].pc \in {"hopstart", "tracking", "failing", "giveup"},
           UNCHANGED <<dbRecordId, steps, currentStepIndex>> \/ RetryOK'
    PROVE  HistoryInv' /\ UNCHANGED History!hvars
  <1>1. RecordOK(r)'
    <2> SUFFICES ASSUME NEW X, X = run[r].id PROVE RecordOK(r)'
      OBVIOUS
    <2>1. /\ run'[r].id = X
          /\ \/ run'[r].pc = run[r].pc
             \/ /\ run[r].pc \in {"sending", "hopstart", "tracking"}
                /\ run'[r].pc \in {"hopstart", "tracking", "failing", "giveup"}
      OBVIOUS
    <2> QED BY <2>1, RecordPasses
  <1>2. ASSUME NEW a \in Runs \ {r} PROVE RecordOK(a)'
    <2> SUFFICES ASSUME NEW X, X = run[a].id PROVE RecordOK(a)'
      OBVIOUS
    <2>1. /\ run'[a].id = X /\ run'[a].i = run[a].i /\ run'[a].todo = run[a].todo
          /\ run'[a].pc = run[a].pc
      BY DEF Alone
    <2> QED BY <2>1, RecordPasses
  <1>3. RetryOK'
    <2>1. CASE UNCHANGED <<dbRecordId, steps, currentStepIndex>>
      <3>1. dbRecordId # Null => /\ db'[dbRecordId].status = db[dbRecordId].status
                                 /\ db'[dbRecordId].currentStep = db[dbRecordId].currentStep
        <4>1. dbRecordId # Null => dbRecordId \in Ids
          BY DEF TypeOK
        <4> QED BY <4>1 DEF Outline
      <3> QED BY <2>1, <3>1 DEF HistoryInv, RetryOK, Current
    <2> QED BY <2>1
  <1> QED BY <1>1, <1>2, <1>3, PlainStep

LEMMA ChainSteps ==
    ASSUME TypeOK, DeliveryInv, HistoryInv, NEW r \in Runs, ChainAccepts(r)
    PROVE  HistoryInv' /\ UNCHANGED History!hvars
  <1> SUFFICES ASSUME NEW X, X = run[r].id PROVE HistoryInv' /\ UNCHANGED History!hvars
    OBVIOUS
  <1>1. /\ UNCHANGED <<db, added, confirmed, refused, dbRecordId, steps, currentStepIndex>>
        /\ run' = [run EXCEPT ![r].landed = TRUE] /\ run[r].pc = "sending"
        /\ moved' = [moved EXCEPT ![X][run[r].i] = @ + 1]
    BY DEF ChainAccepts, store, ui
  <1>2. run'[r] = [run[r] EXCEPT !.landed = TRUE] /\ Alone(r) /\ run[r] \in Run
    BY <1>1 DEF TypeOK, Alone
  <1>3. /\ run'[r].id = run[r].id /\ run'[r].i = run[r].i /\ run'[r].todo = run[r].todo
        /\ run'[r].pc = run[r].pc
    BY <1>2 DEF Run
  <1>4. \A id \in Ids : Len(moved'[id]) = Len(moved[id])
    <2>1. X \in Ids
      BY <1>1, WorkingFacts DEF Working
    <2>2. moved \in [Ids -> Seq(Nat)]
      BY DEF TypeOK
    <2>3. Len(moved'[X]) = Len(moved[X]) /\ \A id \in Ids \ {X} : moved'[id] = moved[id]
      BY <1>1, <2>1, <2>2, BumpedFacts
    <2> QED BY <2>3
  <1> QED BY <1>1, <1>2, <1>3, <1>4, SameOutlines, WorkerSteps

LEMMA FailingSteps ==
    ASSUME TypeOK, DeliveryInv, DeliveryInv', HistoryInv, NEW r \in Runs, SendFails(r)
    PROVE  HistoryInv' /\ UNCHANGED History!hvars
  <1> SUFFICES ASSUME NEW X, X = run[r].id PROVE HistoryInv' /\ UNCHANGED History!hvars
    OBVIOUS
  <1>1. /\ UNCHANGED <<db, added, moved, confirmed, refused, dbRecordId, currentStepIndex>>
        /\ run' = [run EXCEPT ![r] = [run[r] EXCEPT !.pc = "failing"]] /\ run[r].pc = "sending"
        /\ ~run[r].shown => UNCHANGED steps
    BY DEF SendFails, Request, Suspend, ShowSteps, Shows
  <1>2. run'[r] = [run[r] EXCEPT !.pc = "failing"] /\ Alone(r) /\ run[r] \in Run
    BY <1>1 DEF TypeOK, Alone
  <1>3. /\ run'[r].id = run[r].id /\ run'[r].i = run[r].i /\ run'[r].todo = run[r].todo
        /\ run'[r].pc = "failing" /\ run'[r].shown = run[r].shown
    BY <1>2 DEF Run
  <1>4. ASSUME run[r].shown PROVE RetryOK'
    <2>1. /\ dbRecordId' = X /\ Len(steps') = Len(run[r].todo) /\ run[r].i = currentStepIndex' + 1
      <3>1. OnPage(r)'
        BY <1>3, <1>4 DEF DeliveryInv
      <3> QED BY <1>3, <3>1 DEF OnPage, Working
    <2>2. /\ db[X].status = "in-progress" /\ db[X].currentStep = run[r].i - 1
          /\ \A j \in run[r].i .. Len(run[r].todo) : ~confirmed[X][j]
      BY <1>1 DEF HistoryInv, RecordOK, Holding, Working
    <2>3. run[r].i - 1 = currentStepIndex'
      <3>1. currentStepIndex' \in Nat
        BY <1>1, DeliveryTypes
      <3>2. run[r].i = currentStepIndex' + 1
        BY <2>1
      <3>3. \A n \in Nat : \A m : m = n + 1 => m - 1 = n
        OBVIOUS
      <3> QED BY <3>1, <3>2, <3>3
    <2>4. /\ db'[X].status = "in-progress" /\ db'[X].currentStep = currentStepIndex'
          /\ \A j \in currentStepIndex' + 1 .. Len(steps') : ~confirmed'[X][j]
      BY <1>1, <2>1, <2>2, <2>3
    <2> QED BY <2>1, <2>4 DEF RetryOK
  <1> QED BY <1>1, <1>2, <1>3, <1>4, SameOutlines, WorkerSteps

\* A coroutine follows its transaction, or gives up following it.
LEMMA FollowingSteps ==
    ASSUME TypeOK, DeliveryInv, DeliveryInv', HistoryInv, NEW r \in Runs,
           \/ SendSucceeds(r) /\ run'[r].pc \in {"hopstart", "tracking"}
           \/ HopsStarted(r) \/ HopConfirmed(r) \/ TrackingFails(r)
    PROVE  HistoryInv' /\ UNCHANGED History!hvars
  <1> USE DeliveryTypes
  <1>1. /\ UNCHANGED <<added, moved, dbRecordId, currentStepIndex>>
        /\ run[r].pc \in {"sending", "hopstart", "tracking"}
        /\ run[r].shown \/ UNCHANGED steps
    BY DEF SendSucceeds, HopsStarted, HopConfirmed, TrackingFails, Writes, ui, chain, ShowSteps, Shows,
           CompleteStep
  <1>2. /\ Alone(r) /\ run'[r].id = run[r].id /\ run'[r].i = run[r].i /\ run'[r].todo = run[r].todo
        /\ run'[r].pc \in {"hopstart", "tracking", "giveup"} /\ run'[r].shown = run[r].shown
        /\ run'[r].pc = "giveup" => UNCHANGED steps
    <2>1. CASE SendSucceeds(r) /\ run'[r].pc \in {"hopstart", "tracking"}
      <3>1. \/ run'[r] = [run[r] EXCEPT !.pc = "recording"]
            \/ run'[r] = [run[r] EXCEPT !.pc = "tracking"]
            \/ run'[r] = [[run[r] EXCEPT !.hop = 0] EXCEPT !.pc = "hopstart"]
        BY <2>1 DEF SendSucceeds, CompleteStep, Request, Suspend, TypeOK
      <3>2. /\ run'[r].id = run[r].id /\ run'[r].i = run[r].i /\ run'[r].todo = run[r].todo
            /\ run'[r].shown = run[r].shown
        BY <3>1 DEF Run
      <3> QED BY <2>1, <3>2 DEF SendSucceeds, CompleteStep, Request, Suspend, TypeOK, Alone
    <2>2. CASE HopsStarted(r)
      <3>1. Alone(r) /\ run'[r] = [run[r] EXCEPT !.pc = "tracking"] /\ UNCHANGED steps
        BY <2>2 DEF HopsStarted, Suspend, TypeOK, Alone, ui
      <3> QED BY <3>1 DEF Run
    <2>3. CASE HopConfirmed(r)
      <3>1. /\ run[r].pc = "tracking" /\ Alone(r) /\ UNCHANGED steps
            /\ run'[r] = [run[r] EXCEPT !.hop = run[r].hop + 1]
        BY <2>3 DEF HopConfirmed, TypeOK, Alone
      <3> QED BY <3>1 DEF Run
    <2>4. CASE TrackingFails(r)
      <3>1. Alone(r) /\ run'[r] = [run[r] EXCEPT !.pc = "giveup"] /\ UNCHANGED steps
        BY <2>4 DEF TrackingFails, Request, Suspend, TypeOK, Alone
      <3> QED BY <3>1 DEF Run
    <2> QED BY <2>1, <2>2, <2>3, <2>4
  <1>3. UNCHANGED <<confirmed, refused>>
    <2>1. ASSUME NEW q, CompleteStep(r, run[r], q) PROVE FALSE
      <3>1. run'[r] = [run[r] EXCEPT !.pc = "recording"]
        BY <2>1 DEF CompleteStep, Request, Suspend, TypeOK
      <3>2. run'[r].pc = "recording"
        BY <3>1 DEF Run
      <3> QED BY <1>2, <3>2
    <2> QED BY <2>1 DEF SendSucceeds, HopsStarted, HopConfirmed, TrackingFails, chain
  <1>4. \A id \in Ids : Outline(id)' = Outline(id)
    <2>1. CASE UNCHANGED db
      BY <2>1, SameOutlines
    <2>2. CASE db' = [db EXCEPT ![run[r].id] = [db[run[r].id] EXCEPT !.hops = 0]]
      <3>1. ASSUME NEW id \in Ids PROVE db'[id] \in {db[id], [db[id] EXCEPT !.hops = 0]} /\ db[id] \in Record
        BY <2>2 DEF TypeOK
      <3> QED BY <3>1 DEF Outline, Record
    <2> QED BY <2>1, <2>2 DEF SendSucceeds, HopsStarted, HopConfirmed, TrackingFails, Writes
  <1>5. UNCHANGED <<dbRecordId, steps, currentStepIndex>> \/ RetryOK'
    BY <1>1, <1>2, NothingToRetry
  <1> QED BY <1>1, <1>2, <1>3, <1>4, <1>5, WorkerSteps

\* A progress write shows in no outline.
LEMMA HopWriteSteps ==
    ASSUME TypeOK, DeliveryInv, HistoryInv, NEW r \in Runs, HopWriteSettles(r)
    PROVE  HistoryInv' /\ UNCHANGED History!hvars
  <1>1. /\ UNCHANGED <<run, added, moved, confirmed, refused, dbRecordId, steps, currentStepIndex>>
        /\ UNCHANGED db \/ db' = [db EXCEPT ![run[r].id].hops = Head(queue).hop]
    BY DEF HopWriteSettles, ui, chain
  <1>2. \A id \in Ids : Outline(id)' = Outline(id)
    <2>1. CASE db' = [db EXCEPT ![run[r].id].hops = Head(queue).hop]
      <3>1. ASSUME NEW id \in Ids
            PROVE  db'[id] \in {db[id], [db[id] EXCEPT !.hops = Head(queue).hop]} /\ db[id] \in Record
        BY <2>1 DEF TypeOK
      <3> QED BY <3>1 DEF Outline, Record
    <2> QED BY <1>1, <2>1, SameOutlines
  <1> QED BY <1>1, <1>2, WorkerSteps DEF Alone

----------------------------------------------------------------------------
(* The steps that the history sees *)

\* Where a coroutine is, and what its record says of it.
LEMMA RecordFacts ==
    ASSUME TypeOK, DeliveryInv, HistoryInv, NEW r \in Runs, run[r].pc \in Working,
           NEW X, X = run[r].id, NEW i, i = run[r].i, NEW n, n = Len(run[r].todo)
    PROVE  /\ X \in Ids /\ X \in 1 .. added /\ X # Null /\ n \in Nat
           /\ Len(moved[X]) = n /\ db[X].totalSteps = n /\ db[X].currentStep = i - 1
           /\ db[X].status \in {"in-progress", "failed"}
           /\ run[r].pc # "resuming" => db[X].status = "in-progress"
           /\ IF run[r].pc = "succeeding" THEN i = n + 1 ELSE i \in 1 .. n
           /\ run[r].pc = "recording" => Settled(X) = i
           /\ run[r].pc # "recording" => Settled(X) = i - 1
           /\ \A j \in i .. n : confirmed[X][j] => j = i /\ run[r].pc = "recording"
           /\ \A j \in 1 .. i - 1 : confirmed[X][j]
           /\ Len(confirmed[X]) = n
           /\ run[r].pc = "recording" => confirmed[X][i]
  <1> USE DeliveryTypes
  <1>1. /\ X \in Ids /\ X \in 1 .. added /\ X # Null /\ n \in Nat
        /\ Len(moved[X]) = n /\ Len(confirmed[X]) = n /\ PlanOK(r)
    BY WorkingFacts
  <1>2. /\ db[X].totalSteps = n /\ db[X].currentStep = i - 1
        /\ db[X].status \in {"in-progress", "failed"}
        /\ run[r].pc # "resuming" => db[X].status = "in-progress"
        /\ \A j \in i .. n : confirmed[X][j] => j = i /\ run[r].pc = "recording"
    BY <1>1 DEF HistoryInv, StoreOK, RecordOK, Holding
  <1>3. /\ IF run[r].pc = "succeeding" THEN i = n + 1 ELSE i \in 1 .. n
        /\ \A j \in 1 .. i - 1 : confirmed[X][j]
        /\ run[r].pc = "recording" => confirmed[X][i]
    BY <1>1 DEF PlanOK
  <1>4. confirmed[X] \in Seq(BOOLEAN)
    BY <1>1 DEF TypeOK
  <1>5. CASE run[r].pc = "recording"
    <2>1. i \in 0 .. Len(confirmed[X]) /\ \A j \in 1 .. i : confirmed[X][j]
      <3>1. ASSUME NEW j \in 1 .. i PROVE j = i \/ j \in 1 .. i - 1
        BY <1>1, <1>3, <1>5
      <3> QED BY <1>1, <1>3, <1>5, <3>1
    <2>2. \A j \in i + 1 .. Len(confirmed[X]) : ~confirmed[X][j]
      <3>1. ASSUME NEW j \in i + 1 .. n PROVE j \in i .. n /\ j # i
        BY <1>1, <1>3, <1>5
      <3> QED BY <1>1, <1>2, <3>1
    <2>3. Settled(X) = i
      BY <1>4, <2>1, <2>2, Counted DEF Settled, ConfirmedSteps
    <2> QED BY <1>1, <1>2, <1>3, <1>5, <2>3
  <1>6. CASE run[r].pc # "recording"
    <2>1. i - 1 \in 0 .. Len(confirmed[X]) /\ i - 1 + 1 = i
      BY <1>1, <1>3
    <2>2. \A j \in i - 1 + 1 .. Len(confirmed[X]) : ~confirmed[X][j]
      BY <1>1, <1>2, <1>6, <2>1
    <2>3. Settled(X) = i - 1
      BY <1>3, <1>4, <2>1, <2>2, Counted DEF Settled, ConfirmedSteps
    <2> QED BY <1>1, <1>2, <1>3, <1>6, <2>3
  <1> QED BY <1>5, <1>6

\* A coroutine writes its record, or delivers a step of it.
LEMMA WriterSteps ==
    ASSUME TypeOK, DeliveryInv, HistoryInv, NEW r \in Runs, run[r].pc \in Holding,
           run[r].pc = "resuming" => Settles(r), Alone(r), UNCHANGED <<added, moved>>,
           NEW X, X = run[r].id, OutlinesKept(X), db'[X].totalSteps = db[X].totalSteps,
           \A id \in Ids \ {X} : confirmed'[id] = confirmed[id],
           RecordOK(r)',
           RetryOK' \/ (~run[r].shown /\ UNCHANGED <<dbRecordId, steps, currentStepIndex>>)
    PROVE  HistoryInv'
  <1>1. \A a \in Runs \ {r} : RecordOK(a)'
    <2>1. \A a \in Runs \ {r} : run[a].pc \in Holding \cup {"catching"} => run[a].id # X
      BY Owns
    <2> QED BY <2>1, OthersRecords
  <1>2. StoreOK'
    <2>1. X \in 1 .. added
      BY DEF DeliveryInv, PlanOK
    <2> QED BY <2>1, StorePasses
  <1>3. RetryOK'
    <2>1. ASSUME ~run[r].shown, UNCHANGED <<dbRecordId, steps, currentStepIndex>> PROVE RetryOK'
      <3>1. X # dbRecordId
        BY <2>1 DEF DeliveryInv, Elsewhere
      <3> QED BY <2>1, <3>1, RetryPasses
    <2> QED BY <2>1
  <1> QED BY <1>1, <1>2, <1>3 DEF HistoryInv

\* A step is settled: its tokens arrived, or were refused.
LEMMA SettlingSteps ==
    ASSUME TypeOK, TypeOK', DeliveryInv, DeliveryInv', HistoryInv, NEW r \in Runs,
           run[r].pc \in {"sending", "tracking"}, NEW q, CompleteStep(r, run[r], q),
           UNCHANGED <<db, added, moved, dbRecordId, currentStepIndex>>
    PROVE  HistoryInv' /\ History!Next
  <1> SUFFICES ASSUME NEW X, X = run[r].id, NEW i, i = run[r].i, NEW n, n = Len(run[r].todo)
               PROVE  HistoryInv' /\ History!Next
    OBVIOUS
  <1>1. /\ run[r].pc \in Working /\ run[r].pc \in Holding
        /\ run[r].pc # "resuming" /\ run[r].pc # "recording" /\ run[r].pc # "succeeding"
    BY DEF Working, Holding
  <1>2. /\ X \in Ids /\ n \in Nat /\ db[X].totalSteps = n /\ db[X].currentStep = i - 1
        /\ db[X].status = "in-progress" /\ i \in 1 .. n /\ Settled(X) = i - 1
        /\ \A j \in i .. n : ~confirmed[X][j]
        /\ \A j \in 1 .. i - 1 : confirmed[X][j]
        /\ Len(confirmed[X]) = n
    <2>1. \A j \in i .. n : confirmed[X][j] => run[r].pc = "recording"
      BY <1>1, RecordFacts
    <2> QED BY <1>1, <2>1, RecordFacts
  <1>3. /\ Alone(r) /\ run'[r] = [run[r] EXCEPT !.pc = "recording"]
        /\ confirmed' = [confirmed EXCEPT ![X][i] = TRUE] /\ confirmed \in [Ids -> Seq(BOOLEAN)]
        /\ ~run[r].shown => UNCHANGED steps
    BY DEF CompleteStep, Request, Suspend, Alone, TypeOK, ShowSteps, Shows
  <1>4. /\ run'[r].pc = "recording" /\ run'[r].id = X /\ run'[r].i = i /\ run'[r].todo = run[r].todo
        /\ run'[r].shown = run[r].shown
    BY <1>3, DeliveryTypes DEF Run
  <1>5. /\ Len(confirmed'[X]) = n /\ \A j \in 1 .. n : confirmed'[X][j] <=> j = i \/ confirmed[X][j]
        /\ \A id \in Ids \ {X} : confirmed'[id] = confirmed[id]
    BY <1>2, <1>3, MarkedFacts
  <1>6. /\ \A j \in 1 .. i : confirmed'[X][j]
        /\ \A j \in i + 1 .. n : ~confirmed'[X][j]
    <2>1. ASSUME NEW j \in 1 .. i PROVE confirmed'[X][j]
      <3>1. j \in 1 .. n /\ (j = i \/ j \in 1 .. i - 1)
        BY <1>2
      <3> QED BY <1>2, <1>5, <3>1
    <2>2. ASSUME NEW j \in i + 1 .. n PROVE ~confirmed'[X][j]
      <3>1. j \in 1 .. n /\ j # i /\ j \in i .. n
        BY <1>2
      <3> QED BY <1>2, <1>5, <3>1
    <2> QED BY <2>1, <2>2
  <1>7. Settled(X)' = i
    <2>1. confirmed'[X] \in Seq(BOOLEAN) /\ i \in 0 .. Len(confirmed'[X])
      <3>1. confirmed' \in [Ids -> Seq(BOOLEAN)]
        BY DEF TypeOK
      <3>2. i \in 0 .. n
        BY <1>2
      <3> QED BY <1>2, <1>5, <3>1, <3>2
    <2> QED BY <1>5, <1>6, <2>1, Counted DEF Settled, ConfirmedSteps
  <1>8. RecordOK(r)'
    <2>1. ASSUME NEW j \in i .. n, confirmed'[X][j] PROVE j = i
      <3>1. j = i \/ j \in i + 1 .. n
        BY <1>2
      <3> QED BY <1>6, <2>1, <3>1
    <2> QED BY <1>2, <1>4, <2>1 DEF RecordOK, Holding
  <1>9. RetryOK' \/ (~run[r].shown /\ UNCHANGED <<dbRecordId, steps, currentStepIndex>>)
    BY <1>3, <1>4, NothingToRetry
  <1>10. (\A id \in Ids : Outline(id)' = Outline(id)) /\ OutlinesKept(X)
    BY SameOutlines DEF OutlinesKept
  <1>11. History!Next
    <2>1. SettledKept(X)
      BY <1>5 DEF SettledKept, Settled, ConfirmedSteps
    <2>2. Settled(X) < db[X].totalSteps /\ Settled(X)' = Settled(X) + 1
      BY <1>2, <1>7
    <2>3. UNCHANGED refused \/ refused' = refused \cup {<<X, Settled(X) + 1>>}
      <3>1. UNCHANGED refused \/ refused' = refused \cup {<<X, i>>}
        BY DEF CompleteStep
      <3>2. Settled(X) + 1 = i
        BY <1>2
      <3> QED BY <3>1, <3>2
    <2> QED BY <1>2, <1>10, <2>1, <2>2, <2>3, OneSettled
  <1>12. HistoryInv'
    BY <1>1, <1>3, <1>5, <1>8, <1>9, <1>10, WriterSteps
  <1> QED BY <1>11, <1>12

\* What a request that commits writes.
LEMMA Written ==
    ASSUME TypeOK, NEW r \in Runs, NEW X, X = run[r].id, X \in Ids, NEW s, NEW c, NEW change, Writes(r, change),
           change.status = s, change.currentStep = c, change.totalSteps = db[X].totalSteps
    PROVE  /\ db'[X].status = s /\ db'[X].currentStep = c /\ db'[X].totalSteps = db[X].totalSteps
           /\ Outline(X)' = [status |-> s, currentStep |-> c, totalSteps |-> db[X].totalSteps]
           /\ OutlinesKept(X) /\ Settles(r)
  <1>1. db' = [db EXCEPT ![X] = change] /\ Settles(r)
    BY DEF Writes
  <1>2. db'[X] = change /\ \A id \in Ids \ {X} : db'[id] = db[id]
    BY <1>1 DEF TypeOK
  <1> QED BY <1>1, <1>2 DEF Outline, OutlinesKept

\* When nothing about X changes that the history knows of, nothing changes.
LEMMA Rewritten ==
    ASSUME TypeOK, NEW X \in Ids, OutlinesKept(X), UNCHANGED <<confirmed, refused>>,
           Outline(X)' = [status |-> db[X].status, currentStep |-> db[X].currentStep,
                          totalSteps |-> db[X].totalSteps]
    PROVE  UNCHANGED History!hvars
  <1>1. \A id \in Ids : Outline(id)' = Outline(id)
    BY DEF OutlinesKept, Outline
  <1>2. \A id \in Ids : Settled(id)' = Settled(id)
    BY DEF Settled, ConfirmedSteps
  <1> QED BY <1>1, <1>2, Unmoved

LEMMA SameSettled ==
    ASSUME UNCHANGED confirmed
    PROVE  \A id \in Ids : Settled(id)' = Settled(id)
  BY DEF Settled, ConfirmedSteps

LEMMA ResumingSteps ==
    ASSUME TypeOK, TypeOK', DeliveryInv, DeliveryInv', HistoryInv, NEW r \in Runs, Resumed(r)
    PROVE  HistoryInv' /\ (History!Next \/ UNCHANGED History!hvars)
  <1> SUFFICES ASSUME NEW X, X = run[r].id, NEW i, i = run[r].i, NEW n, n = Len(run[r].todo)
               PROVE  HistoryInv' /\ (History!Next \/ UNCHANGED History!hvars)
    OBVIOUS
  <1>0. /\ run[r].pc = "resuming" /\ Writes(r, [db[X] EXCEPT !.status = "in-progress", !.error = FALSE])
        /\ UNCHANGED <<added, moved, confirmed, refused, dbRecordId, currentStepIndex>>
    BY DEF Resumed, Writes, chain
  <1>1. run[r].pc \in Working /\ run[r].pc \in Holding /\ run[r].pc # "recording"
    BY <1>0 DEF Working, Holding
  <1>2. /\ X \in Ids /\ db[X].currentStep = i - 1 /\ db[X].status \in {"in-progress", "failed"}
        /\ \A j \in i .. n : ~confirmed[X][j]
    <2>1. \A j \in i .. n : confirmed[X][j] => run[r].pc = "recording"
      BY <1>1, RecordFacts
    <2> QED BY <1>1, <2>1, RecordFacts
  <1>3. /\ db'[X].status = "in-progress" /\ db'[X].currentStep = db[X].currentStep
        /\ db'[X].totalSteps = db[X].totalSteps /\ OutlinesKept(X) /\ Settles(r)
        /\ Outline(X)' = [status |-> "in-progress", currentStep |-> db[X].currentStep,
                           totalSteps |-> db[X].totalSteps]
    <2> DEFINE change == [db[X] EXCEPT !.status = "in-progress", !.error = FALSE]
    <2>1. /\ change.status = "in-progress" /\ change.currentStep = db[X].currentStep
          /\ change.totalSteps = db[X].totalSteps /\ Writes(r, change)
      BY <1>0, <1>2, HistoryTypes DEF Record
    <2> HIDE DEF change
    <2> QED BY <1>2, <2>1, Written
  <1>4. /\ HandsOver(r, run[r], i, steps, Tail(queue)) /\ Alone(r) /\ run'[r].pc = "sending"
        /\ run'[r].id = X /\ run'[r].i = i /\ run'[r].todo = run[r].todo /\ run'[r].shown = run[r].shown
    BY ResumedTurn
  <1>5. RecordOK(r)'
    BY <1>0, <1>2, <1>3, <1>4 DEF RecordOK, Holding, Working
  <1>6. RetryOK' \/ (~run[r].shown /\ UNCHANGED <<dbRecordId, steps, currentStepIndex>>)
    <2>1. ~run[r].shown => UNCHANGED steps
      BY <1>4 DEF HandsOver, ShowSteps, Shows
    <2>2. run[r].shown => RetryOK'
      BY <1>4, NothingToRetry
    <2> QED BY <1>0, <2>1, <2>2
  <1>7. HistoryInv'
    BY <1>0, <1>1, <1>3, <1>4, <1>5, <1>6, WriterSteps
  <1>8. CASE db[X].status = "in-progress"
    BY <1>0, <1>2, <1>3, <1>7, <1>8, Rewritten
  <1>9. CASE db[X].status = "failed"
    <2>1. History!Next
      BY <1>0, <1>2, <1>3, <1>9, SameSettled, Recorded
    <2> QED BY <1>7, <2>1
  <1> QED BY <1>2, <1>8, <1>9

LEMMA CountingSteps ==
    ASSUME TypeOK, TypeOK', DeliveryInv, DeliveryInv', HistoryInv, NEW r \in Runs, StepRecorded(r)
    PROVE  HistoryInv' /\ History!Next
  <1> SUFFICES ASSUME NEW X, X = run[r].id, NEW i, i = run[r].i, NEW n, n = Len(run[r].todo)
               PROVE  HistoryInv' /\ History!Next
    OBVIOUS
  <1>0. /\ run[r].pc = "recording" /\ Writes(r, [db[X] EXCEPT !.currentStep = i])
        /\ UNCHANGED <<added, moved, confirmed, refused, dbRecordId>>
        /\ ~run[r].shown => UNCHANGED currentStepIndex
    BY DEF StepRecorded, Writes, chain, Shows
  <1>1. run[r].pc \in Working /\ run[r].pc \in Holding /\ run[r].pc # "resuming" /\ run[r].pc # "succeeding"
    BY <1>0 DEF Working, Holding
  <1>2. /\ X \in Ids /\ n \in Nat /\ i \in 1 .. n /\ db[X].currentStep = i - 1 /\ db[X].status = "in-progress"
        /\ Settled(X) = i /\ \A j \in i .. n : confirmed[X][j] => j = i
    <2>1. \A j \in i .. n : confirmed[X][j] => j = i
      BY <1>1, RecordFacts
    <2> QED BY <1>0, <1>1, <2>1, RecordFacts
  <1>3. /\ db'[X].status = "in-progress" /\ db'[X].currentStep = i
        /\ db'[X].totalSteps = db[X].totalSteps /\ OutlinesKept(X)
        /\ Outline(X)' = [status |-> "in-progress", currentStep |-> i, totalSteps |-> db[X].totalSteps]
    <2> DEFINE change == [db[X] EXCEPT !.currentStep = i]
    <2>1. /\ change.status = "in-progress" /\ change.currentStep = i
          /\ change.totalSteps = db[X].totalSteps /\ Writes(r, change)
      BY <1>0, <1>2, HistoryTypes DEF Record
    <2> HIDE DEF change
    <2> QED BY <1>2, <2>1, Written
  <1>4. /\ IF i + 1 <= n THEN HandsOver(r, run[r], i + 1, steps, Tail(queue))
           ELSE Ends(r, run[r], i + 1, steps, Tail(queue))
        /\ Alone(r) /\ run'[r].id = X /\ run'[r].i = i + 1 /\ run'[r].todo = run[r].todo
        /\ run'[r].shown = run[r].shown /\ run'[r].pc \in {"sending", "succeeding"}
    BY RecordedTurn
  <1>5. RecordOK(r)'
    <2>1. ASSUME NEW j \in i + 1 .. n PROVE ~confirmed'[X][j]
      <3>1. j \in i .. n /\ j # i
        BY <1>2
      <3> QED BY <1>0, <1>2, <3>1
    <2>2. db'[X].currentStep = i + 1 - 1
      BY <1>2, <1>3
    <2>3. /\ db'[run'[r].id].status = "in-progress" /\ db'[run'[r].id].currentStep = run'[r].i - 1
          /\ \A j \in run'[r].i .. Len(run'[r].todo) : ~confirmed'[run'[r].id][j]
      <3>1. run'[r].id = X /\ run'[r].i = i + 1 /\ Len(run'[r].todo) = n
        BY <1>4
      <3>2. db'[X].status = "in-progress"
        BY <1>3
      <3> QED BY <1>2, <2>1, <2>2, <3>1, <3>2
    <2> QED BY <2>3 DEF RecordOK
  <1>6. RetryOK' \/ (~run[r].shown /\ UNCHANGED <<dbRecordId, steps, currentStepIndex>>)
    <2>1. ~run[r].shown => UNCHANGED steps
      BY <1>4 DEF HandsOver, Ends, ShowSteps, Shows
    <2>2. run[r].shown => RetryOK'
      BY <1>4, NothingToRetry
    <2> QED BY <1>0, <2>1, <2>2
  <1>7. HistoryInv'
    BY <1>0, <1>1, <1>3, <1>4, <1>5, <1>6, WriterSteps
  <1>8. History!Next
    <2>1. db[X].currentStep < Settled(X) /\ i = db[X].currentStep + 1
      BY <1>2
    <2> QED BY <1>0, <1>2, <1>3, <2>1, SameSettled, Recorded
  <1> QED BY <1>7, <1>8

\* A coroutine that worked on its record records the outcome and returns.
LEMMA OutcomeSteps ==
    ASSUME TypeOK, DeliveryInv, HistoryInv, NEW r \in Runs, NEW X, X = run[r].id, X \in Ids,
           run[r].pc \in {"failing", "giveup", "succeeding"}, NEW s, NEW change, Writes(r, change),
           Finish(r), queue' = Tail(queue),
           UNCHANGED <<chain, dbRecordId, steps, currentStepIndex>>,
           change.status = s, change.currentStep = db[X].currentStep, change.totalSteps = db[X].totalSteps,
           \/ run[r].pc # "succeeding" /\ s = "failed"
           \/ /\ run[r].pc = "succeeding" /\ s = "success"
              /\ Settled(X) = db[X].totalSteps /\ db[X].currentStep = db[X].totalSteps
    PROVE  HistoryInv' /\ History!Next
  <1>1. /\ db'[X].status = s /\ db'[X].currentStep = db[X].currentStep
        /\ db'[X].totalSteps = db[X].totalSteps /\ OutlinesKept(X) /\ Settles(r)
        /\ Outline(X)' = [status |-> s, currentStep |-> db[X].currentStep,
                          totalSteps |-> db[X].totalSteps]
    BY Written
  <1>2. /\ UNCHANGED <<added, moved, confirmed, refused>> /\ Alone(r) /\ run'[r].pc = "free"
        /\ run[r].pc \in Holding /\ run[r].pc # "resuming"
    BY <1>1, ReturnFacts DEF Writes, chain, Holding, Working
  <1>3. db[X].status = "in-progress"
    BY <1>2 DEF HistoryInv, RecordOK
  <1>4. History!Next
    BY <1>1, <1>2, <1>3, SameSettled, Recorded
  <1>5. RecordOK(r)'
    BY <1>2 DEF RecordOK, Holding, Working
  <1>6. ASSUME run[r].shown PROVE RetryOK'
    <2>1. OnPage(r) /\ currentStepIndex \in Nat
      BY <1>6, DeliveryTypes DEF DeliveryInv
    <2>2. CASE run[r].pc \in {"giveup", "succeeding"}
      BY <2>1, <2>2 DEF OnPage, Working, RetryOK, Current
    <2>3. CASE run[r].pc = "failing"
      <3>1. dbRecordId = X /\ Len(steps) = Len(run[r].todo) /\ run[r].i = currentStepIndex + 1
        BY <2>1, <2>3 DEF OnPage, Working
      <3>2. /\ db[X].currentStep = run[r].i - 1
            /\ \A j \in run[r].i .. Len(run[r].todo) : ~confirmed[X][j]
        BY <2>3 DEF HistoryInv, RecordOK, Working
      <3>3. run[r].i - 1 = currentStepIndex
        BY <2>1, <3>1
      <3>4. s = "failed"
        BY <2>3
      <3>5. /\ db'[X].status = "failed" /\ db'[X].currentStep = currentStepIndex
            /\ \A j \in currentStepIndex + 1 .. Len(steps) : ~confirmed'[X][j]
        BY <1>1, <1>2, <3>1, <3>2, <3>3, <3>4
      <3> QED BY <3>1, <3>5 DEF RetryOK
    <2> QED BY <2>2, <2>3
  <1>7. HistoryInv'
    BY <1>1, <1>2, <1>5, <1>6, WriterSteps
  <1> QED BY <1>4, <1>7

\* retryStep's handler records what failed; another retry of the same record
\* may already wait behind it.
LEMMA CatchingSteps ==
    ASSUME TypeOK, DeliveryInv, HistoryInv, NEW r \in Runs, NEW X, X = run[r].id,
           run[r].pc = "catching", NEW change, Writes(r, change), Finish(r), queue' = Tail(queue),
           UNCHANGED <<chain, dbRecordId, steps, currentStepIndex>>, change.status = "failed",
           X \in Ids => change.currentStep = db[X].currentStep /\ change.totalSteps = db[X].totalSteps
    PROVE  HistoryInv' /\ (History!Next \/ UNCHANGED History!hvars)
  <1>1. X \in 1 .. added /\ X \in Ids /\ db[X].status \in {"in-progress", "failed"}
    BY DeliveryTypes DEF DeliveryInv, PlanOK, HistoryInv, RecordOK
  <1>2. /\ db'[X].status = "failed" /\ db'[X].currentStep = db[X].currentStep
        /\ db'[X].totalSteps = db[X].totalSteps /\ OutlinesKept(X) /\ Settles(r)
        /\ Outline(X)' = [status |-> "failed", currentStep |-> db[X].currentStep,
                          totalSteps |-> db[X].totalSteps]
    BY <1>1, Written
  <1>3. UNCHANGED <<added, moved, confirmed, refused>> /\ Alone(r) /\ run'[r].pc = "free"
    BY <1>2, ReturnFacts DEF Writes, chain
  <1>4. ASSUME NEW a \in Runs PROVE RecordOK(a)'
    <2>1. CASE a = r
      BY <1>3, <2>1 DEF RecordOK, Holding, Working
    <2>2. CASE a # r
      <3>1. run'[a] = run[a] /\ RecordOK(a) /\ PlanOK(a) /\ Apart(r, a)
        BY <1>3, <2>2 DEF Alone, HistoryInv, DeliveryInv
      <3>2. CASE run[a].id = X
        <4>1. run[a].pc \in Holding => run[a].pc = "resuming"
          BY <3>1, <3>2 DEF Apart
        <4> QED BY <1>2, <1>3, <3>1, <3>2, <4>1 DEF RecordOK, Holding, Working
      <3>3. CASE run[a].id # X
        <4>1. run[a].pc \in Holding \cup {"catching"} => run[a].id \in Ids \ {X}
          BY <3>1, <3>3, DeliveryTypes DEF PlanOK
        <4>2. run[a].pc \in Holding \cup {"catching"} =>
                 /\ db'[run[a].id].status = db[run[a].id].status
                 /\ db'[run[a].id].currentStep = db[run[a].id].currentStep
          BY <1>2, <4>1 DEF OutlinesKept, Outline
        <4> QED BY <1>3, <3>1, <4>2 DEF RecordOK, Holding
      <3> QED BY <3>2, <3>3
    <2> QED BY <2>1, <2>2
  <1>5. StoreOK'
    BY <1>1, <1>2, <1>3, StorePasses
  <1>6. RetryOK'
    <2>1. CASE X = dbRecordId
      BY <1>2, <1>3, <2>1 DEF HistoryInv, RetryOK, Current
    <2>2. CASE X # dbRecordId
      BY <1>2, <1>3, <2>2, RetryPasses
    <2> QED BY <2>1, <2>2
  <1>7. HistoryInv'
    BY <1>4, <1>5, <1>6 DEF HistoryInv
  <1>8. CASE db[X].status = "in-progress"
    <2>1. History!Next
      BY <1>1, <1>2, <1>3, <1>8, SameSettled, Recorded
    <2> QED BY <1>7, <2>1
  <1>9. CASE db[X].status = "failed"
    BY <1>1, <1>2, <1>3, <1>7, <1>9, Rewritten
  <1> QED BY <1>1, <1>8, <1>9

LEMMA EndingSteps ==
    ASSUME TypeOK, DeliveryInv, HistoryInv, NEW r \in Runs,
           FailureRecorded(r) \/ SuccessRecorded(r) \/ GiveupRecorded(r)
    PROVE  HistoryInv' /\ (History!Next \/ UNCHANGED History!hvars)
  <1> SUFFICES ASSUME NEW X, X = run[r].id PROVE HistoryInv' /\ (History!Next \/ UNCHANGED History!hvars)
    OBVIOUS
  <1> DEFINE failed == [db[X] EXCEPT !.status = "failed", !.error = TRUE]
             passed == [db[X] EXCEPT !.status = "success", !.currentStep = Len(run[r].todo)]
  <1>1. UNCHANGED <<chain, dbRecordId, steps, currentStepIndex>> /\ Finish(r) /\ queue' = Tail(queue)
    BY DEF FailureRecorded, SuccessRecorded, GiveupRecorded, ui
  <1>2. \/ run[r].pc \in {"failing", "giveup", "catching"} /\ Writes(r, failed)
        \/ run[r].pc = "succeeding" /\ Writes(r, passed)
    BY DEF FailureRecorded, SuccessRecorded, GiveupRecorded
  <1>3. X \in Ids
    <2>1. run[r].pc \in Holding \cup {"catching"}
      BY <1>2 DEF Holding, Working
    <2> QED BY <2>1, DeliveryTypes DEF DeliveryInv, PlanOK
  <1>4. CASE run[r].pc \in {"failing", "giveup", "catching"}
    <2>1. Writes(r, failed)
      BY <1>2, <1>4
    <2>2. /\ failed.status = "failed" /\ failed.currentStep = db[X].currentStep
          /\ failed.totalSteps = db[X].totalSteps
      BY <1>3, HistoryTypes DEF Record
    <2> HIDE DEF failed
    <2>3. CASE run[r].pc = "catching"
      BY <1>1, <2>1, <2>2, <2>3, CatchingSteps
    <2>4. CASE run[r].pc \in {"failing", "giveup"}
      BY <1>1, <1>3, <2>1, <2>2, <2>4, OutcomeSteps
    <2> QED BY <1>4, <2>3, <2>4
  <1>5. CASE run[r].pc = "succeeding"
    <2>1. Writes(r, passed)
      BY <1>2, <1>5
    <2>2. /\ db[X].totalSteps = Len(run[r].todo) /\ db[X].currentStep = Len(run[r].todo)
          /\ Settled(X) = Len(run[r].todo)
      <3>1. run[r].pc \in Working /\ run[r].pc # "recording" /\ Len(run[r].todo) \in Nat
        BY <1>5, DeliveryTypes DEF Working
      <3>2. /\ db[X].totalSteps = Len(run[r].todo) /\ db[X].currentStep = run[r].i - 1
            /\ Settled(X) = run[r].i - 1 /\ run[r].i = Len(run[r].todo) + 1
        BY <1>5, <3>1, RecordFacts
      <3>3. run[r].i - 1 = Len(run[r].todo)
        BY <3>1, <3>2
      <3> QED BY <3>2, <3>3
    <2>3. /\ passed.status = "success" /\ passed.currentStep = db[X].currentStep
          /\ passed.totalSteps = db[X].totalSteps
      BY <1>3, <2>2, HistoryTypes DEF Record
    <2> HIDE DEF passed
    <2> QED BY <1>1, <1>3, <1>5, <2>1, <2>2, <2>3, OutcomeSteps
  <1> QED BY <1>2, <1>4, <1>5

\* A record is added: nothing of it is settled.
LEMMA AddingSteps ==
    ASSUME TypeOK, DeliveryInv, DeliveryInv', HistoryInv, NEW r \in Runs, RecordAdded(r)
    PROVE  HistoryInv' /\ History!Next
  <1> SUFFICES ASSUME NEW X, X = added + 1, NEW todo, todo = run[r].todo
               PROVE  HistoryInv' /\ History!Next
    OBVIOUS
  <1>1. /\ X \in Ids /\ added' = X /\ Alone(r) /\ Len(todo) \in Nat \ {0}
        /\ run'[r] = [run[r] EXCEPT !.id = X, !.i = 1, !.landed = FALSE, !.pc = "sending"]
        /\ OtherRows(X) /\ Len(moved'[X]) = Len(todo)
        /\ ~run[r].shown => UNCHANGED <<currentStepIndex, dbRecordId, steps>>
    <2>1. Opened(r, X)
      BY AddedFacts
    <2> QED BY <2>1 DEF Opened
  <1>2. /\ run'[r].pc = "sending" /\ run'[r].id = X /\ run'[r].i = 1 /\ run'[r].todo = todo
        /\ run'[r].shown = run[r].shown
    BY <1>1, DeliveryTypes DEF Run
  <1>3. /\ db[X].status = "absent" /\ confirmed[X] = <<>> /\ added \in Nat /\ X > added
        /\ 1 .. added \subseteq Ids \ {X}
    BY <1>1, DeliveryTypes DEF HistoryInv, StoreOK
  <1>4. /\ db'[X] = [NoRecord EXCEPT !.status = "in-progress", !.totalSteps = Len(todo)]
        /\ confirmed'[X] = [j \in DOMAIN todo |-> FALSE]
        /\ \A id \in Ids \ {X} : db'[id] = db[id] /\ confirmed'[id] = confirmed[id]
    <2>1. /\ db' = [db EXCEPT ![X] = [NoRecord EXCEPT !.status = "in-progress", !.totalSteps = Len(todo)]]
          /\ confirmed' = [confirmed EXCEPT ![X] = [j \in DOMAIN todo |-> FALSE]]
      <3>1. [run[r] EXCEPT !.id = X].todo = todo
        BY DeliveryTypes DEF Run
      <3> QED BY <3>1 DEF RecordAdded
    <2> QED BY <1>1, <2>1 DEF TypeOK
  <1>5. /\ db'[X].status = "in-progress" /\ db'[X].currentStep = 0 /\ db'[X].totalSteps = Len(todo)
        /\ Outline(X)' = [status |-> "in-progress", currentStep |-> 0, totalSteps |-> Len(todo)]
        /\ OutlinesKept(X)
    BY <1>4 DEF NoRecord, Outline, OutlinesKept
  <1>6. UNCHANGED refused /\ \A id \in Ids : Settled(id)' = Settled(id)
    <2>1. ConfirmedSteps(X)' = {} /\ ConfirmedSteps(X) = {}
      BY <1>3, <1>4 DEF ConfirmedSteps
    <2>2. \A id \in Ids \ {X} : ConfirmedSteps(id)' = ConfirmedSteps(id)
      BY <1>4 DEF ConfirmedSteps
    <2>3. UNCHANGED refused
      BY DEF RecordAdded
    <2> QED BY <2>1, <2>2, <2>3 DEF Settled
  <1>7. History!Next
    BY <1>1, <1>3, <1>5, <1>6, Opens
  <1>8. RecordOK(r)'
    <2>1. DOMAIN todo = 1 .. Len(todo)
      BY DeliveryTypes, LenProperties
    <2>2. \A j \in 1 .. Len(todo) : ~confirmed'[X][j]
      BY <1>4, <2>1
    <2> QED BY <1>2, <1>5, <2>2 DEF RecordOK, Holding, Working
  <1>9. \A a \in Runs \ {r} : RecordOK(a)'
    <2>1. \A a \in Runs \ {r} : run[a].pc \in Holding \cup {"catching"} => run[a].id # X
      BY <1>3 DEF DeliveryInv, PlanOK
    <2> QED BY <1>1, <1>4, <1>5, <2>1, OthersRecords
  <1>10. StoreOK'
    <2>1. ASSUME NEW id \in 1 .. added' PROVE Len(moved'[id]) = db'[id].totalSteps /\ db'[id].totalSteps > 0
      <3>1. CASE id = X
        BY <1>1, <1>5, <3>1
      <3>2. CASE id # X
        <4>1. id \in 1 .. added /\ id \in Ids \ {X}
          BY <1>1, <1>3, <3>2
        <4>2. moved'[id] = moved[id] /\ db'[id] = db[id]
          BY <1>1, <1>4, <4>1 DEF OtherRows
        <4> QED BY <4>1, <4>2 DEF HistoryInv, StoreOK
      <3> QED BY <3>1, <3>2
    <2>2. ASSUME NEW id \in Ids, id > added' PROVE db'[id].status = "absent" /\ confirmed'[id] = <<>>
      <3>1. id # X /\ id > added
        BY <1>1, <1>3, <2>2 DEF Ids
      <3> QED BY <1>4, <3>1 DEF HistoryInv, StoreOK
    <2> QED BY <2>1, <2>2 DEF StoreOK
  <1>11. RetryOK'
    <2>1. CASE run[r].shown
      BY <1>2, <2>1, NothingToRetry
    <2>2. CASE ~run[r].shown
      <3>1. X # dbRecordId
        <4>1. dbRecordId \in Ids => dbRecordId \in 1 .. added
          BY DeliveryTypes DEF DeliveryInv, PageOK
        <4> QED BY <1>1, <1>3, <4>1
      <3> QED BY <1>1, <1>4, <1>5, <2>2, <3>1, RetryPasses
    <2> QED BY <2>1, <2>2
  <1> QED BY <1>7, <1>8, <1>9, <1>10, <1>11 DEF HistoryInv

----------------------------------------------------------------------------
(* The refinement *)

LEMMA HistoryStep ==
    ASSUME TypeOK, TypeOK', DeliveryInv, DeliveryInv', HistoryInv, [Next]_vars
    PROVE  HistoryInv' /\ [History!Next]_(History!hvars)
  <1>1. CASE Submit \/ Back \/ OpenDb \/ Reload \/ Leave \/ UNCHANGED vars
    BY <1>1, UserSteps
  <1>2. ASSUME NEW r \in Runs, Start(r) PROVE HistoryInv' /\ [History!Next]_(History!hvars)
    BY <1>2, StartSteps DEF Start
  <1>3. ASSUME NEW r \in Runs, RetryStep(r) \/ ChainAccepts(r) PROVE HistoryInv' /\ [History!Next]_(History!hvars)
    BY <1>3, RetrySteps, ChainSteps
  <1>4. ASSUME NEW r \in Runs, Continue(r) PROVE HistoryInv' /\ [History!Next]_(History!hvars)
    <2>1. CASE RecordAdded(r) \/ Resumed(r) \/ StepRecorded(r)
      BY <2>1, AddingSteps, ResumingSteps, CountingSteps
    <2>2. CASE SendFails(r) \/ HopsStarted(r) \/ HopConfirmed(r) \/ TrackingFails(r)
      BY <2>2, FailingSteps, FollowingSteps
    <2>3. CASE SendSucceeds(r)
      <3>1. CASE run'[r].pc \in {"hopstart", "tracking"}
        BY <2>3, <3>1, FollowingSteps
      <3>2. CASE run'[r].pc \notin {"hopstart", "tracking"}
        <4>1. /\ run[r].pc = "sending" /\ UNCHANGED <<db, added, moved, dbRecordId, currentStepIndex>>
          BY <2>3 DEF SendSucceeds
        <4>2. ASSUME NEW pc \in {"hopstart", "tracking"}, NEW rn \in Run, Suspend(r, rn, pc) PROVE FALSE
          <5>1. run'[r] = [rn EXCEPT !.pc = pc]
            BY <4>2 DEF Suspend, TypeOK
          <5>2. run'[r].pc = pc
            BY <4>2, <5>1 DEF Run
          <5> QED BY <3>2, <5>2
        <4>3. run[r] \in Run /\ [run[r] EXCEPT !.hop = 0] \in Run
          <5>1. run[r] \in Run
            BY DeliveryTypes
          <5>2. 0 \in Progress
            BY ChainsAssumption DEF Progress
          <5> QED BY <5>1, <5>2 DEF Run
        <4>4. CompleteStep(r, run[r], queue)
          BY <2>3, <4>2, <4>3 DEF SendSucceeds, Request
        <4> QED BY <4>1, <4>4, SettlingSteps
      <3> QED BY <3>1, <3>2
    <2>4. CASE TrackingSucceeds(r)
      <3>1. /\ run[r].pc = "tracking" /\ UNCHANGED <<db, added, moved, dbRecordId, currentStepIndex>>
            /\ \E q : CompleteStep(r, run[r], q)
        BY <2>4 DEF TrackingSucceeds
      <3> QED BY <3>1, SettlingSteps
    <2>5. CASE FailureRecorded(r) \/ SuccessRecorded(r) \/ GiveupRecorded(r)
      BY <2>5, EndingSteps
    <2>6. CASE HopWriteSettles(r) \/ WriteRejected(r)
      BY <2>6, HopWriteSteps, RejectedSteps
    <2> QED BY <1>4, <2>1, <2>2, <2>3, <2>4, <2>5, <2>6 DEF Continue
  <1> QED BY <1>1, <1>2, <1>3, <1>4 DEF Next

\* What the coroutines of taskProvider.tsx write to IndexedDB is the history a
\* user is promised, for any number of coroutines, records, retries, reloads
\* and failing requests: a record is opened once, counts steps one at a time
\* and never ahead of those that are settled, fails and is resumed, and is a
\* success only when all are settled, after which nothing changes it.  A settled
\* step's tokens arrived, or the step is one of the refused.
THEOREM HistoryImplemented == Spec => ImplementsHistory
  <1>1. Spec => [](TypeOK /\ DeliveryInv)
    BY DeliveryHolds
  <1>2. Init => HistoryInv /\ History!Init
    BY InitialHistory
  <1>3. TypeOK /\ TypeOK' /\ DeliveryInv /\ DeliveryInv' /\ HistoryInv /\ [Next]_vars
          => HistoryInv' /\ [History!Next]_(History!hvars)
    BY HistoryStep
  <1> QED BY <1>1, <1>2, <1>3, PTL DEF Spec, ImplementsHistory, History!Spec

===============================================================================
