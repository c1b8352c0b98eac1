------------------------------ MODULE SqsClient ------------------------------
(***************************************************************************)
(* The pathfinder's client of the Osmosis quote service                    *)
(* (pathfinder/sqs_query/client.go) under the broker query that uses it    *)
(* (queryBrokerWithRetry): requests draw an endpoint at random from the    *)
(* list of healthy ones, while the health checker removes the primary      *)
(* endpoint from that list and puts it back.                               *)
(*                                                                         *)
(* Both sides use the list without the client's mutex.  It is a slice: the *)
(* removal first moves the later elements down in the array that readers   *)
(* share, then clears the last one, and only then writes the new length; a *)
(* reader takes the length for its draw and looks again for the element.   *)
(***************************************************************************)
EXTENDS Integers, Sequences, FiniteSets, SequencesExt

CONSTANTS Urls,          \* the configured endpoints, the primary one first
          Requests,      \* handlers that may query the broker at one time
          Blank,         \* the empty string, or any other that is no endpoint
          MaxRetries,    \* FailoverConfig.MaxRetries
          QueryRetries,  \* Pathfinder.maxRetries
          MaxChanges     \* bound: times an endpoint goes down or comes back

Endpoints == ToSet(Urls)
Primary   == Head(Urls)
Backups   == Endpoints \ {Primary}

\* With one endpoint there is no health checker.
ASSUME UrlsAssumption   == /\ Urls \in Seq(Endpoints) /\ Len(Urls) > 1 /\ IsInjective(Urls)
                           /\ Blank \notin Endpoints
ASSUME BoundsAssumption == {MaxRetries, QueryRetries, MaxChanges} \subseteq Nat

VARIABLES up,       \* the endpoints that answer quotes and health checks
          changes,  \* how often that has changed
          slots,    \* the array of healthyURLs
          len,      \* its length
          checker,  \* the health checker's goroutine
          closing,  \* whether Close waits for it
          request   \* the handlers

vars == <<up, changes, slots, len, checker, closing, request>>

list == <<slots, len>>

Listed == {slots[i] : i \in 1..len}

\* The attempts of doRequestWithFailover: the retries, the look whether there is
\* an endpoint to fail over to, and the last request.
LookForBackup == MaxRetries + 1
LastAttempt   == MaxRetries + 2

Fresh == [pc |-> "idle", query |-> 0, attempt |-> 0, index |-> 0, url |-> Blank]

Init ==
  /\ up \in SUBSET Endpoints
  /\ changes = 0
  /\ slots = Urls
  /\ len = Len(Urls)
  /\ checker = [pc |-> "waiting", at |-> 0]
  /\ closing = FALSE
  /\ request = [r \in Requests |-> Fresh]

(***************************************************************************)
(* The health checker.                                                     *)
(***************************************************************************)

\* The loop of checkAndRestore returns after the first endpoint, whichever way
\* its check turns out.
CheckHealth ==
  /\ checker.pc = "waiting"
  /\ checker' = [pc |-> IF Primary \in up THEN "restoring" ELSE "removing", at |-> 0]
  /\ UNCHANGED <<up, changes, list, closing, request>>

Restored_Not == list

\* The list after the primary is appended, unless it is there.
Restored ==
  IF Primary \in Listed THEN list ELSE <<[slots EXCEPT ![len + 1] = Primary], len + 1>>

Restore ==
  /\ checker.pc = "restoring"
  /\ slots' = Restored[1]
  /\ len' = Restored[2]
  /\ checker' = [pc |-> "waiting", at |-> 0]
  /\ UNCHANGED <<up, changes, closing, request>>

\* slices.DeleteFunc finds the element to delete: the list has no other.
FindPrimary ==
  /\ checker.pc = "removing"
  /\ checker' = IF Primary \in Listed
                THEN [pc |-> "moving", at |-> CHOOSE i \in 1..len : slots[i] = Primary]
                ELSE [pc |-> "waiting", at |-> 0]
  /\ UNCHANGED <<up, changes, list, closing, request>>

MovedDown_Lost(i) == [slots EXCEPT ![i] = Blank]
MovedDown(i) == [slots EXCEPT ![i] = slots[i + 1]]

MoveDown ==
  /\ checker.pc = "moving"
  /\ checker.at < len
  /\ slots' = MovedDown(checker.at)
  /\ checker' = [checker EXCEPT !.at = @ + 1]
  /\ UNCHANGED <<up, changes, len, closing, request>>

ClearLast ==
  /\ checker.pc = "moving"
  /\ checker.at = len
  /\ slots' = [slots EXCEPT ![len] = Blank]
  /\ checker' = [checker EXCEPT !.pc = "cleared"]
  /\ UNCHANGED <<up, changes, len, closing, request>>

Shorten ==
  /\ checker.pc = "cleared"
  /\ len' = len - 1
  /\ checker' = [pc |-> "waiting", at |-> 0]
  /\ UNCHANGED <<up, changes, slots, closing, request>>

\* Close, at the end of the server's shutdown: it waits for the goroutine, which
\* looks for the signal between two checks.
Close ==
  /\ ~closing
  /\ checker.pc # "stopped"
  /\ closing' = TRUE
  /\ UNCHANGED <<up, changes, list, checker, request>>

StoppedAs_Silent == "gone"
StoppedAs == "stopped"

Stop ==
  /\ closing
  /\ checker.pc = "waiting"
  /\ checker' = [pc |-> StoppedAs, at |-> 0]
  /\ UNCHANGED <<up, changes, list, closing, request>>

Closed ==
  /\ closing
  /\ checker.pc = "stopped"
  /\ closing' = FALSE
  /\ UNCHANGED <<up, changes, list, checker, request>>

(***************************************************************************)
(* Requests.                                                               *)
(***************************************************************************)
Over == {"answered", "failed", "panicked"}

Begin(r) ==
  /\ request[r].pc \in {"idle"} \cup Over
  /\ request' = [request EXCEPT ![r] = [Fresh EXCEPT !.pc = "drawing"]]
  /\ UNCHANGED <<up, changes, list, checker, closing>>

\* getRandomHealthyURL takes the length of the list and draws an index,
Draw(r) ==
  /\ request[r].pc = "drawing"
  /\ IF len = 0
     THEN request' = [request EXCEPT ![r].pc = "drawn", ![r].url = Blank, ![r].index = 0]
     ELSE \E i \in 1..len : request' = [request EXCEPT ![r].pc = "picking", ![r].index = i]
  /\ UNCHANGED <<up, changes, list, checker, closing>>

Picked_Configured(i) == Urls[i]
Picked(i) == slots[i]

\* and takes the element at that index, if the list still has it.  A string is two
\* words: one that is read while it is moved can be half the one and half the
\* other, which no endpoint answers, or crash the handler.
Pick(r) ==
  LET i == request[r].index
      Takes(u) == request' = [request EXCEPT ![r].pc = "drawn", ![r].url = u, ![r].index = 0]
      Panics == request' = [request EXCEPT ![r] = [Fresh EXCEPT !.pc = "panicked"]]
  IN /\ request[r].pc = "picking"
     /\ \/ i <= len /\ Takes(Picked(i))
        \/ i > len /\ Panics
        \/ checker.pc = "moving" /\ checker.at = i /\ (Takes(Blank) \/ Panics)
     /\ UNCHANGED <<up, changes, list, checker, closing>>

\* queryBrokerWithRetry starts a query again until its retries are used up.
QueryFails(r) ==
  IF request[r].query < QueryRetries
  THEN [Fresh EXCEPT !.pc = "drawing", !.query = request[r].query + 1]
  ELSE [Fresh EXCEPT !.pc = "failed"]

\* Before it fails over the client only looks whether it draws an endpoint.
Look(r) ==
  /\ request[r].pc = "drawn"
  /\ request[r].attempt = LookForBackup
  /\ request' = [request EXCEPT ![r] = IF @.url = Blank THEN QueryFails(r)
                                       ELSE [@ EXCEPT !.pc = "drawing", !.attempt = LastAttempt, !.url = Blank]]
  /\ UNCHANGED <<up, changes, list, checker, closing>>

AfterFailure_Again(r) ==
  IF request[r].attempt = LastAttempt THEN QueryFails(r)
  ELSE [request[r] EXCEPT !.pc = "drawing", !.url = Blank]

AfterFailure(r) ==
  IF request[r].attempt = LastAttempt THEN QueryFails(r)
  ELSE [request[r] EXCEPT !.pc = "drawing", !.attempt = @ + 1, !.url = Blank]

\* The endpoint answers, or the request fails: at once without an endpoint, with
\* another status than 200, or by the timeout of the HTTP client.
Get(r) ==
  /\ request[r].pc = "drawn"
  /\ request[r].attempt # LookForBackup
  /\ request' = [request EXCEPT ![r] = IF @.url \in up THEN [Fresh EXCEPT !.pc = "answered"]
                                       ELSE AfterFailure(r)]
  /\ UNCHANGED <<up, changes, list, checker, closing>>

(***************************************************************************)
(* The endpoints.                                                          *)
(***************************************************************************)
Change ==
  /\ changes < MaxChanges
  /\ changes' = changes + 1
  /\ \E u \in Endpoints : up' = IF u \in up THEN up \ {u} ELSE up \cup {u}
  /\ UNCHANGED <<list, checker, closing, request>>

RemovePrimary == FindPrimary \/ MoveDown \/ ClearLast \/ Shorten

Check == CheckHealth \/ Restore \/ RemovePrimary

Handle(r) == Draw(r) \/ Pick(r) \/ Look(r) \/ Get(r)

Next ==
  \/ Check \/ Close \/ Stop \/ Closed
  \/ \E r \in Requests : Begin(r) \/ Handle(r)
  \/ Change

Spec == Init /\ [][Next]_vars

\* The ticker fires again and again; a select with two ready cases takes either,
\* so that the stop signal is not passed over for ever.
FairSpec ==
  /\ Spec
  /\ WF_vars(Check) /\ SF_vars(Stop) /\ WF_vars(Closed)
  /\ \A r \in Requests : WF_vars(Handle(r))

-----------------------------------------------------------------------------
(***************************************************************************)
(* Properties.                                                             *)
(***************************************************************************)
\* Between two checks the list holds every backup once and the primary at most
\* once, however often the primary was removed in place and appended again
\* (checkAndRestore): a backup is never lost and there is always an endpoint to
\* draw.
ListIsSound ==
  checker.pc \in {"waiting", "stopped"} =>
    /\ \A i, j \in 1..len : slots[i] = slots[j] => i = j
    /\ Listed \ {Primary} = Backups

\* Until the client is closed the list follows the primary: it is on the list in
\* the end when it stays up, and off the list when it stays down.
ListFollowsPrimary ==
  /\ <>[](Primary \in up /\ checker.pc # "stopped") => <>[](Primary \in Listed)
  /\ <>[](Primary \notin up /\ checker.pc # "stopped") => <>[](Primary \notin Listed)

NewlyFails(r) == request[r].pc \notin {"failed", "panicked"} /\ request'[r].pc \in {"failed", "panicked"}

\* When the primary stays down and the backups stay up, requests stop failing:
\* the client has switched to the backups (doRequestWithFailover).
SwitchesToBackups ==
  <>[](up = Backups /\ checker.pc # "stopped") => <>[][\A r \in Requests : ~NewlyFails(r)]_vars

\* Every request ends: the retries of both loops are used up some time.
RequestsEnd == \A r \in Requests : request[r].pc = "drawing" ~> request[r].pc \in Over

\* Close returns.
CloseReturns == closing ~> ~closing
=============================================================================
