--------------------------- MODULE TransferHistory ---------------------------
(***************************************************************************)
(* What the transfer history of the client promises its user, whatever     *)
(* coroutines, retries, reloads and failing requests produce it: a record  *)
(* is opened in progress, counts steps one at a time and never ahead of    *)
(* what the chains settled, may fail and be resumed, succeeds only when    *)
(* every step is settled, and never changes after that.                    *)
(*                                                                         *)
(* A step is settled when the chains included its transaction and received *)
(* those of its packets that are followed.  Its tokens then arrived, or    *)
(* were refused: the chain that received a packet answered it with an      *)
(* error, or nobody followed it.  The records do not tell the two apart: a *)
(* success promises the tokens of the steps that are not refused.          *)
(***************************************************************************)
EXTENDS Naturals

CONSTANTS Ids

VARIABLES record, settled, refused

hvars == <<record, settled, refused>>

Absent == [status |-> "absent", currentStep |-> 0, totalSteps |-> 0]

Init ==
    /\ record = [id \in Ids |-> Absent]
    /\ settled = [id \in Ids |-> 0]
    /\ refused = {}

\* A transfer of n steps is recorded, whatever n is.
Open(id) ==
    LET n == record'[id].totalSteps IN
    /\ record[id].status = "absent"
    /\ n \in Nat \ {0}
    /\ record' = [record EXCEPT ![id] = [status |-> "in-progress", currentStep |-> 0,
                                         totalSteps |-> n]]
    /\ UNCHANGED <<settled, refused>>

MaySettle(id) ==
    /\ record[id].status = "in-progress"
    /\ settled[id] < record[id].totalSteps

\* The tokens of the next step are where that step takes them.
Arrive(id) ==
    /\ MaySettle(id)
    /\ settled' = [settled EXCEPT ![id] = @ + 1]
    /\ UNCHANGED <<record, refused>>

\* A chain answers the packet of the next step with an error.
Refuse(id) ==
    /\ MaySettle(id)
    /\ settled' = [settled EXCEPT ![id] = @ + 1]
    /\ refused' = refused \cup {<<id, settled[id] + 1>>}
    /\ UNCHANGED record

\* A settled step is counted.
Advance(id) ==
    /\ record[id].status = "in-progress"
    /\ record[id].currentStep < settled[id]
    /\ record' = [record EXCEPT ![id].currentStep = @ + 1]
    /\ UNCHANGED <<settled, refused>>

Fail(id) ==
    /\ record[id].status = "in-progress"
    /\ record' = [record EXCEPT ![id].status = "failed"]
    /\ UNCHANGED <<settled, refused>>

Resume(id) ==
    /\ record[id].status = "failed"
    /\ record' = [record EXCEPT ![id].status = "in-progress"]
    /\ UNCHANGED <<settled, refused>>

Succeed(id) ==
    /\ record[id].status = "in-progress"
    /\ settled[id] = record[id].totalSteps
    /\ record[id].currentStep = record[id].totalSteps
    /\ record' = [record EXCEPT ![id].status = "success"]
    /\ UNCHANGED <<settled, refused>>

Next == \E id \in Ids :
    \/ Open(id) \/ Arrive(id) \/ Refuse(id) \/ Advance(id)
    \/ Fail(id) \/ Resume(id) \/ Succeed(id)

Spec == Init /\ [][Next]_hvars

==============================================================================
