----------------------------- MODULE QuoteSubmit -----------------------------
(***************************************************************************)
(* From the send form to a transfer: the quote hook of                     *)
(* client_app/src/hooks/usePathfinderQuery.ts, of which senderUi.tsx keeps *)
(* one instance per mode, the effects by which the form copies itself and  *)
(* the quote into the transfer context, the submit handler and the effect  *)
(* of the tracker view that starts what was submitted.                     *)
(*                                                                         *)
(* Of the form's fields the amount and the mode are kept; an amount worth  *)
(* nothing stands for every form that is not ready to be quoted.  An       *)
(* action is one event with the effects of the renders it causes.          *)
(***************************************************************************)
EXTENDS Naturals

CONSTANTS
    Texts,       \* what may be typed as the amount
    Units,       \* humanToBaseUnits: the base units of a text, 0 for none
    Null,        \* JavaScript's null
    MaxRequests, \* bound: requests a hook sends to the pathfinder
    MaxEdits     \* bound: changes of the form

ASSUME UnitsAssumption  == Units \in [Texts -> Nat] /\ \E text \in Texts : Units[text] = 0
ASSUME NullAssumption   == Null \notin Nat
ASSUME BoundsAssumption == MaxRequests \in Nat /\ MaxEdits \in Nat

Modes == {"manual", "smart"}

VARIABLES
    text, mode,       \* the form: useTransferFormState
    hook,             \* the two instances of usePathfinderQuery
    requests,         \* findPath calls that have not been answered
    response,         \* pathfinderResponse of the transfer context
    handedAmount, handedMode, \* amount and mode of the transfer context
    phase,            \* "idle" is the form, "preparing" the tracker view
    refreshing,       \* handleSubmit awaits refetchFresh
    executed,         \* what executeTransfer was called with
    edits             \* consumed bound

form    == <<text, mode>>
context == <<response, handedAmount, handedMode>>
vars    == <<form, hook, requests, context, phase, refreshing, executed, edits>>

----------------------------------------------------------------------------
(* Data *)

Amounts == {Units[t] : t \in Texts}
units == Units[text]

Init ==
    /\ text = CHOOSE t \in Texts : Units[t] = 0
    /\ mode = "manual"
    /\ hook = [m \in Modes |-> [data |-> Null, stale |-> FALSE, loading |-> FALSE,
                                debounced |-> 0, requestId |-> 0]]
    /\ requests = {}
    /\ response = Null /\ handedAmount = text /\ handedMode = mode
    /\ phase = "idle" /\ refreshing = FALSE /\ executed = Null
    /\ edits = 0

----------------------------------------------------------------------------
(* The hook *)

\* fetchRouteInternal of the instance m, for a form worth u in mode md, with
\* the amount it asks for: a disabled query or an amount of 0 empties the hook
\* and leaves the request in flight current.
Fetches(m, md, u, amount) == md = m /\ u > 0 /\ amount > 0

\* Mutant: a query that is not ready invalidates the request in flight.
AfterFetch_Invalidates(h, fetches) ==
    IF fetches THEN [h EXCEPT !.requestId = @ + 1, !.loading = TRUE]
               ELSE [h EXCEPT !.requestId = @ + 1, !.data = Null]

AfterFetch(h, fetches) ==
    IF fetches THEN [h EXCEPT !.requestId = @ + 1, !.loading = TRUE]
               ELSE [h EXCEPT !.data = Null]

Sent(m, amount, submit) ==
    [mode |-> m, id |-> hook[m].requestId + 1, units |-> amount, submit |-> submit]

CanSend == \A m \in Modes : hook[m].requestId < MaxRequests

\* Both instances run their effect for the form (md, u); the debounced amount
\* of an instance is what it asks for.
FetchBoth(md, u) ==
    /\ CanSend
    /\ hook' = [m \in Modes |->
                   AfterFetch(hook[m], Fetches(m, md, u, hook[m].debounced))]
    /\ requests' = requests \cup
           {Sent(m, hook[m].debounced, FALSE) :
               m \in {n \in Modes : Fetches(n, md, u, hook[n].debounced)}}

\* The amount changes: the effect that syncs the form empties the quote of the
\* context (SET_FROM_CHAIN and its like), the hooks fetch only if the amount is
\* worth something else.
EditAmount(t) ==
    /\ phase = "idle" /\ edits < MaxEdits /\ t # text
    /\ text' = t /\ handedAmount' = t
    /\ response' = Null
    /\ IF Units[t] # units THEN FetchBoth(mode, Units[t])
                           ELSE UNCHANGED <<hook, requests>>
    /\ edits' = edits + 1
    /\ UNCHANGED <<mode, handedMode, phase, refreshing, executed>>

\* The mode toggle: the instance of the other mode takes over.
EditMode ==
    /\ phase = "idle" /\ edits < MaxEdits /\ hook[mode].data # Null
    /\ \E m \in Modes \ {mode} :
        /\ mode' = m /\ handedMode' = m
        /\ FetchBoth(m, units)
    /\ response' = Null
    /\ edits' = edits + 1
    /\ UNCHANGED <<text, handedAmount, phase, refreshing, executed>>

\* The debounce timer of an instance fires; if its query is enabled it asks for
\* the amount it now has.
Debounce(m) ==
    LET fetches == Fetches(m, mode, units, units)
        h == AfterFetch(hook[m], fetches)
    IN  /\ phase = "idle" /\ hook[m].debounced # units
        /\ CanSend
        /\ hook' = [hook EXCEPT ![m] = [h EXCEPT !.debounced = units]]
        /\ requests' = IF fetches THEN requests \cup {Sent(m, units, FALSE)} ELSE requests
        /\ response' = IF m = mode /\ h.data = Null THEN Null ELSE response
        /\ UNCHANGED <<form, handedAmount, handedMode, phase, refreshing, executed, edits>>

\* Fifteen seconds pass since the quote arrived.
Age(m) ==
    /\ phase = "idle" /\ hook[m].data # Null /\ ~hook[m].stale
    /\ hook' = [hook EXCEPT ![m].stale = TRUE]
    /\ UNCHANGED <<form, requests, context, phase, refreshing, executed, edits>>

\* Twenty seconds pass: the enabled instance asks again.
AutoRefresh ==
    LET h == hook[mode] IN
    /\ phase = "idle" /\ h.data # Null /\ h.stale /\ units > 0 /\ h.debounced > 0
    /\ CanSend
    /\ hook' = [hook EXCEPT ![mode] = AfterFetch(h, TRUE)]
    /\ requests' = requests \cup {Sent(mode, h.debounced, FALSE)}
    /\ UNCHANGED <<form, context, phase, refreshing, executed, edits>>

IsLatest(q) == q.id = hook[q.mode].requestId

IsShown_Any(q) == TRUE  \* mutant: both instances write the context
IsShown(q) == q.mode = mode

EndsRefresh(q, success) == q.submit

\* The pathfinder answers.  Only the latest request of an instance changes it;
\* the form copies the instance it shows into the context; the submit handler
\* that asked goes on with a quote, or gives up without one.
Answer(q, success) ==
    LET quote == IF success THEN [units |-> q.units, mode |-> q.mode] ELSE Null
        latest == IsLatest(q)
        submits == q.submit /\ latest /\ success
    IN  /\ phase = "idle"
        /\ requests' = requests \ {q}
        /\ hook' = IF latest
                   THEN [hook EXCEPT ![q.mode].data = quote, ![q.mode].loading = FALSE,
                                     ![q.mode].stale = IF success THEN FALSE ELSE @]
                   ELSE hook
        /\ response' = IF submits \/ (latest /\ IsShown(q)) THEN quote ELSE response
        /\ refreshing' = IF EndsRefresh(q, success) THEN FALSE ELSE refreshing
        /\ phase' = IF submits THEN "preparing" ELSE phase
        /\ UNCHANGED <<form, handedAmount, handedMode, executed, edits>>

----------------------------------------------------------------------------
(* The submit handler and the tracker view *)

\* Mutant: the button does not wait for the debounced amount.
CanSubmit_WhilePending ==
    /\ hook[mode].data # Null
    /\ ~hook[mode].loading /\ units > 0

CanSubmit ==
    /\ hook[mode].data # Null /\ ~hook[mode].loading
    /\ hook[mode].debounced = units /\ units > 0

\* handleSubmit with a quote less than fifteen seconds old: START_PREPARING.
SubmitFresh ==
    /\ phase = "idle" /\ CanSubmit /\ ~refreshing /\ ~hook[mode].stale
    /\ phase' = "preparing"
    /\ UNCHANGED <<form, hook, requests, context, refreshing, executed, edits>>

\* handleSubmit with an older one: it awaits refetchFresh.  The form stays as
\* editable as ever.
SubmitStale ==
    /\ phase = "idle" /\ CanSubmit /\ ~refreshing /\ hook[mode].stale
    /\ CanSend
    /\ refreshing' = TRUE
    /\ hook' = [hook EXCEPT ![mode] = AfterFetch(@, TRUE)]
    /\ requests' = requests \cup {Sent(mode, units, TRUE)}
    /\ UNCHANGED <<form, context, phase, executed, edits>>

\* The effect of the tracker view calls executeTransfer, if there is a quote.
Start ==
    /\ phase = "preparing" /\ response # Null
    /\ phase' = "executing"
    /\ executed' = [quote |-> response, amount |-> handedAmount, mode |-> handedMode]
    /\ UNCHANGED <<form, hook, requests, context, refreshing, edits>>

----------------------------------------------------------------------------
(* Specification *)

Next ==
    \/ \E t \in Texts : EditAmount(t)
    \/ EditMode \/ AutoRefresh \/ SubmitFresh \/ SubmitStale \/ Start
    \/ \E m \in Modes : Debounce(m) \/ Age(m)
    \/ \E q \in requests, success \in BOOLEAN : Answer(q, success)

Spec == Init /\ [][Next]_vars

Answered == \E q \in requests, success \in BOOLEAN : Answer(q, success)

\* The transport answers or rejects every call, the debounce timers fire and
\* the effect of the tracker view runs.  Users owe nothing.
FairSpec ==
    /\ Spec
    /\ WF_vars(Answered) /\ WF_vars(Start)
    /\ \A m \in Modes : WF_vars(Debounce(m))

----------------------------------------------------------------------------
(* Properties *)

\* A form that may be submitted shows a quote for its own amount and mode,
\* whatever requests for earlier forms are answered when.
QuoteIsCurrent ==
    phase = "idle" /\ CanSubmit => hook[mode].data = [units |-> units, mode |-> mode]

\* What the context would execute is what the form shows, or nothing.
ContextIsShown ==
    phase = "idle" => response \in {Null, hook[mode].data}

\* The spinner of the route ends.
LoadingEnds == \A m \in Modes : hook[m].loading ~> (~hook[m].loading \/ phase # "idle")

\* What is executed was quoted for the amount and in the mode that the transfer
\* context hands on, to be recorded and to plan the steps.
ExecutesWhatWasQuoted ==
    executed # Null =>
        executed.quote = [units |-> Units[executed.amount], mode |-> executed.mode]

==============================================================================
