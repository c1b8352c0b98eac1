---------------------------- MODULE TransactionDb ----------------------------
(***************************************************************************)
(* The history of transfers as several tabs share it: the connections,     *)
(* the cleanup and the requests of client_app/src/lib/indexDb/dbManager.ts,*)
(* the transfers that write to it and the history panel that shows it      *)
(* (hooks/useTransactionHistory.ts, components/ui/history).                *)
(*                                                                         *)
(* IndexedDB runs the transactions of all tabs on the one object store in  *)
(* the order they were created.  A record is stamped and added at once, so *)
(* ids order records as their timestamps do.  TransferExecution has the    *)
(* coroutines that write; here a tab's transfer is a record, its steps and *)
(* its outcome.                                                            *)
(***************************************************************************)
EXTENDS Naturals, Sequences, FiniteSets

CONSTANTS
    Tabs,              \* the browser's tabs
    MAX_TRANSACTIONS,  \* the cleanup keeps this many
    Limit,             \* the panel shows this many
    TotalSteps,        \* totalSteps of a transfer
    Null,              \* no record
    MaxRecords,        \* bound: records added
    MaxReloads         \* bound: tabs loaded anew, panels refreshed and remounted

ASSUME SizesAssumption  == {MAX_TRANSACTIONS, Limit, TotalSteps} \subseteq Nat \ {0}
ASSUME LimitAssumption  == Limit <= MAX_TRANSACTIONS
ASSUME NullAssumption   == Null \notin Nat
ASSUME BoundsAssumption == {MaxRecords, MaxReloads} \subseteq Nat

VARIABLES
    store,   \* the object store: the stored ids and their records
    lastId,  \* the key generator
    queue,   \* transactions created and not run, of all tabs
    writer,  \* per tab: the task provider and its transfer
    panel,   \* per tab: useTransactionHistory
    reloads  \* consumed bound

vars == <<store, lastId, queue, writer, panel, reloads>>

----------------------------------------------------------------------------
(* Data *)

Stored  == DOMAIN store
Started == [status |-> "in-progress", currentStep |-> 0]

\* The task provider has no connection, is "idle", awaits a request ("writing"),
\* is between two ("running") or had an update "refused".
NoWriter == [pc |-> "closed", id |-> Null, record |-> Started]
\* upTo: lastId when what the panel shows was loaded (history).
NoPanel  == [open |-> FALSE, loading |-> TRUE, shown |-> <<>>, upTo |-> 0]

\* A transaction of the store: "cleanup", "load", "add" or "update".
Ask(t, kind)          == [by |-> t, kind |-> kind, id |-> Null, record |-> Started]
Update(t, id, record) == [by |-> t, kind |-> "update", id |-> id, record |-> record]

\* The n largest of some ids, the newest records.
Newest(n, ids) == {i \in ids : Cardinality({j \in ids : j > i}) < n}

\* Mutant: the newest records are deleted.
Kept_Oldest(ids) == {i \in ids : Cardinality({j \in ids : j < i}) < MAX_TRANSACTIONS}
\* cleanupOldTransactions sorts by timestamp and deletes from the front.
Kept(ids) == Newest(MAX_TRANSACTIONS, ids)

\* Mutant: the panel cuts before it sorts.
Loaded_Unsorted == {i \in Stored : Cardinality({j \in Stored : j < i}) < Limit}
\* LoadAllTransactions sorts newest first, the panel takes the first ones.
Loaded == Newest(Limit, Stored)

\* Some ids, the largest first.
Descending(ids) ==
    [j \in 1 .. Cardinality(ids) |-> CHOOSE i \in ids : Cardinality({k \in ids : k > i}) = j - 1]

Init ==
    /\ store = <<>> /\ lastId = 0 /\ queue = <<>>
    /\ writer = [t \in Tabs |-> NoWriter]
    /\ panel = [t \in Tabs |-> NoPanel]
    /\ reloads = 0

----------------------------------------------------------------------------
(* The task provider *)

\* ConnectToDb: a new connection starts the cleanup and does not wait for it.
OpenWriter(t) ==
    /\ writer[t].pc = "closed"
    /\ writer' = [writer EXCEPT ![t].pc = "idle"]
    /\ queue' = Append(queue, Ask(t, "cleanup"))
    /\ UNCHANGED <<store, lastId, panel, reloads>>

\* executeTransfer: AddTransactionToDb.
Begin(t) ==
    /\ writer[t].pc \in {"idle", "refused"}
    /\ lastId + Cardinality({i \in DOMAIN queue : queue[i].kind = "add"}) < MaxRecords
    /\ writer' = [writer EXCEPT ![t] = [pc |-> "writing", id |-> Null, record |-> Started]]
    /\ queue' = Append(queue, Ask(t, "add"))
    /\ UNCHANGED <<store, lastId, panel, reloads>>

\* A step is recorded, or the transfer's outcome: UpdateTransactionStatus.
Report(t) ==
    LET r == writer[t].record IN
    /\ writer[t].pc = "running"
    /\ \E new \in {[r EXCEPT !.currentStep = @ + 1], [r EXCEPT !.status = "failed"],
                   [r EXCEPT !.status = "success"]} :
        /\ new.currentStep <= TotalSteps
        /\ new.status = "success" => new.currentStep = TotalSteps
        /\ writer' = [writer EXCEPT ![t].pc = "writing", ![t].record = new]
        /\ queue' = Append(queue, Update(t, writer[t].id, new))
    /\ UNCHANGED <<store, lastId, panel, reloads>>

----------------------------------------------------------------------------
(* The history panel *)

\* useTransactionHistory connects, which cleans up again, and loads.
OpenPanel(t) ==
    /\ ~panel[t].open
    /\ panel' = [panel EXCEPT ![t].open = TRUE]
    /\ queue' = queue \o <<Ask(t, "cleanup"), Ask(t, "load")>>
    /\ UNCHANGED <<store, lastId, writer, reloads>>

\* The button is not there while the panel loads.
Refresh(t) ==
    /\ panel[t].open /\ ~panel[t].loading /\ panel[t].shown # <<>>
    /\ reloads < MaxReloads /\ reloads' = reloads + 1
    /\ panel' = [panel EXCEPT ![t].loading = TRUE]
    /\ queue' = Append(queue, Ask(t, "load"))
    /\ UNCHANGED <<store, lastId, writer>>

----------------------------------------------------------------------------
(* IndexedDB *)

Settled(t, r) == IF r.status = "in-progress" THEN "running" ELSE "idle"

Runs(request) == queue # <<>> /\ request = Head(queue) /\ queue' = Tail(queue)

Cleanup(request) ==
    /\ Runs(request) /\ request.kind = "cleanup"
    /\ store' = [i \in Kept(Stored) |-> store[i]]
    /\ UNCHANGED <<lastId, writer, panel, reloads>>

Add(request) ==
    /\ Runs(request) /\ request.kind = "add"
    /\ lastId' = lastId + 1
    /\ store' = [i \in Stored \cup {lastId'} |-> IF i = lastId' THEN Started ELSE store[i]]
    /\ writer' = [writer EXCEPT ![request.by].pc = "running", ![request.by].id = lastId']
    /\ UNCHANGED <<panel, reloads>>

\* The record is read and written in one transaction.
Put(request) ==
    /\ Runs(request) /\ request.kind = "update" /\ request.id \in Stored
    /\ store' = [store EXCEPT ![request.id] = request.record]
    /\ writer' = [writer EXCEPT ![request.by].pc = Settled(request.by, request.record)]
    /\ UNCHANGED <<lastId, panel, reloads>>

\* Mutant: an update of a record that is gone is neither resolved nor rejected.
AfterNotFound_Silent(pc) == pc
AfterNotFound(pc) == "refused"

\* "Transaction with id ... not found".
NotFound(request) ==
    /\ Runs(request) /\ request.kind = "update" /\ request.id \notin Stored
    /\ writer' = [writer EXCEPT ![request.by].pc = AfterNotFound(@)]
    /\ UNCHANGED <<store, lastId, panel, reloads>>

Load(request) ==
    /\ Runs(request) /\ request.kind = "load"
    /\ panel' = [panel EXCEPT ![request.by] =
           [open |-> TRUE, loading |-> FALSE, shown |-> Descending(Loaded), upTo |-> lastId]]
    /\ UNCHANGED <<store, lastId, writer, reloads>>

----------------------------------------------------------------------------
(* The world *)

\* The transactions of a tab that goes away are aborted.
Remaining(t) == SelectSeq(queue, LAMBDA request : request.by # t)

Reload(t) ==
    /\ reloads < MaxReloads /\ reloads' = reloads + 1
    /\ queue' = Remaining(t)
    /\ writer' = [writer EXCEPT ![t] = NoWriter]
    /\ panel' = [panel EXCEPT ![t] = NoPanel]
    /\ UNCHANGED <<store, lastId>>

----------------------------------------------------------------------------
(* Specification *)

RunHead == \E request \in {queue[i] : i \in DOMAIN queue} :
    Cleanup(request) \/ Add(request) \/ Put(request) \/ NotFound(request) \/ Load(request)

Next ==
    \/ \E t \in Tabs : OpenWriter(t) \/ Begin(t) \/ Report(t) \/ OpenPanel(t) \/ Refresh(t) \/ Reload(t)
    \/ RunHead

Spec == Init /\ [][Next]_vars

\* IndexedDB runs what it is asked to.
FairSpec == Spec /\ WF_vars(RunHead)

----------------------------------------------------------------------------
(* Properties *)

\* However many tabs open, clean up and write at once, the last fifty records
\* are in the store.
NewestKept == \A i \in 1 .. lastId : i + MAX_TRANSACTIONS > lastId => i \in Stored

\* What the panel shows are the latest transfers of the moment it loaded, the
\* newest first and none left out, whatever was being cleaned up.
PanelShowsLatest == \A t \in Tabs :
    LET first == IF panel[t].upTo > Limit THEN panel[t].upTo - Limit ELSE 0 IN
    panel[t].shown = [j \in 1 .. panel[t].upTo - first |-> panel[t].upTo + 1 - j]

\* Every record that is asked for is answered: a transfer never waits for the
\* store for ever.
WritesSettle == \A t \in Tabs : writer[t].pc = "writing" ~> writer[t].pc # "writing"

==============================================================================
