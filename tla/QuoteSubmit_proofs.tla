-------------------------- MODULE QuoteSubmit_proofs --------------------------
(***************************************************************************)
(* What the form shows when it may be submitted, for any amounts, edits    *)
(* and answers.                                                            *)
(***************************************************************************)
EXTENDS QuoteSubmit, TLAPS

USE DEF form, context, vars

----------------------------------------------------------------------------
(* The inductive invariant *)

Quotes   == [units : Nat, mode : Modes]
Hooks    == [data : Quotes \cup {Null}, stale : BOOLEAN, loading : BOOLEAN,
             debounced : Nat, requestId : Nat]
Requests == [mode : Modes, id : Nat, units : Nat, submit : BOOLEAN]

TypeOK ==
    /\ text \in Texts /\ mode \in Modes
    /\ hook \in [Modes -> Hooks]
    /\ requests \subseteq Requests

\* No request is ahead of the instance that sent it.
RequestsAreOld == \A q \in requests : q.id <= hook[q.mode].requestId

\* The latest request of an instance is for its debounced amount, and what it
\* holds once that is answered is so, too.
LatestFits(m) ==
    /\ \A q \in requests :
        q.mode = m /\ q.id = hook[m].requestId => q.units = hook[m].debounced
    /\ ~hook[m].loading =>
        hook[m].data \in {Null, [units |-> hook[m].debounced, mode |-> m]}

\* That is so of the instance the form shows, as long as its query is enabled:
\* the latest request of a disabled one may be for an amount that is gone.
HookFits == units > 0 /\ hook[mode].debounced > 0 => LatestFits(mode)

Inv == TypeOK /\ RequestsAreOld /\ HookFits

----------------------------------------------------------------------------
(* The hook *)

LEMMA UnitsOfTexts ==
    ASSUME NEW t \in Texts
    PROVE  Units[t] \in Nat
BY UnitsAssumption

\* A fetch gives the instance a request of its own and leaves its quote; a query
\* that is not ready empties it and leaves the request.
LEMMA AfterFetchIs ==
    ASSUME NEW h \in Hooks, NEW fetches \in BOOLEAN
    PROVE  /\ AfterFetch(h, fetches) \in Hooks
           /\ AfterFetch(h, fetches).debounced = h.debounced
           /\ AfterFetch(h, fetches).requestId >= h.requestId
           /\ fetches => /\ AfterFetch(h, fetches).requestId = h.requestId + 1
                         /\ AfterFetch(h, fetches).loading
                         /\ AfterFetch(h, fetches).data = h.data
           /\ ~fetches => AfterFetch(h, fetches).data = Null
<1>1. CASE fetches
  <2>1. AfterFetch(h, fetches) = [h EXCEPT !.requestId = h.requestId + 1, !.loading = TRUE]
    BY <1>1 DEF AfterFetch
  <2>2. h.requestId \in Nat /\ h.requestId + 1 \in Nat /\ h.requestId + 1 >= h.requestId
    BY DEF Hooks
  <2> DEFINE next == h.requestId + 1
  <2> HIDE DEF next
  <2>3. AfterFetch(h, fetches) = [h EXCEPT !.requestId = next, !.loading = TRUE] /\ next \in Nat
    BY <2>1, <2>2 DEF next
  <2>4. /\ AfterFetch(h, fetches) \in Hooks
        /\ AfterFetch(h, fetches).debounced = h.debounced
        /\ AfterFetch(h, fetches).requestId = next
        /\ AfterFetch(h, fetches).loading
        /\ AfterFetch(h, fetches).data = h.data
    BY <2>3 DEF Hooks
  <2> QED
    BY <1>1, <2>2, <2>4 DEF next
<1>2. CASE ~fetches
  <2>1. AfterFetch(h, fetches) = [h EXCEPT !.data = Null]
    BY <1>2 DEF AfterFetch
  <2> QED
    BY <1>2, <2>1 DEF Hooks
<1> QED
  BY <1>1, <1>2

\* A request that is sent is typed and bears the next number.
LEMMA SentIs ==
    ASSUME TypeOK, NEW m \in Modes, NEW amount \in Nat, NEW submit \in BOOLEAN
    PROVE  /\ Sent(m, amount, submit) \in Requests
           /\ Sent(m, amount, submit).mode = m
           /\ Sent(m, amount, submit).id = hook[m].requestId + 1
           /\ Sent(m, amount, submit).units = amount
BY DEF TypeOK, Hooks, Requests, Sent

\* An instance that has just sent a request for its debounced amount waits for
\* it, whatever requests it sent before.
LEMMA FetchFits ==
    ASSUME TypeOK, RequestsAreOld, NEW m \in Modes,
           hook'[m].requestId = hook[m].requestId + 1, hook'[m].loading,
           \A q \in requests' : q \in requests \/ q.mode # m
                                \/ q.units = hook'[m].debounced
    PROVE  LatestFits(m)'
<1> SUFFICES ASSUME NEW q \in requests', q.mode = m, q.id = hook'[m].requestId
             PROVE  q.units = hook'[m].debounced
  BY DEF LatestFits
<1>1. hook[m].requestId \in Nat
  BY DEF TypeOK, Hooks
<1>2. q \in requests => q.id <= hook[m].requestId /\ q.id \in Nat
  BY DEF TypeOK, Requests, RequestsAreOld
<1> QED
  BY <1>1, <1>2

\* Requests stay behind the instances as these go on and send the next ones.
LEMMA RequestsStayOld ==
    ASSUME TypeOK, RequestsAreOld, hook' \in [Modes -> Hooks], requests' \subseteq Requests,
           \A m \in Modes : hook'[m].requestId >= hook[m].requestId,
           \A q \in requests' : q \in requests \/ q.id <= hook'[q.mode].requestId
    PROVE  RequestsAreOld'
<1> SUFFICES ASSUME NEW q \in requests', q \in requests
             PROVE  q.id <= hook'[q.mode].requestId
  BY DEF RequestsAreOld
<1>1. q.mode \in Modes /\ q.id \in Nat
  BY DEF TypeOK, Requests
<1>2. hook[q.mode].requestId \in Nat /\ hook'[q.mode].requestId \in Nat
  BY <1>1 DEF TypeOK, Hooks
<1>3. q.id <= hook[q.mode].requestId /\ hook'[q.mode].requestId >= hook[q.mode].requestId
  BY <1>1 DEF RequestsAreOld
<1> QED
  BY <1>1, <1>2, <1>3

\* What both instances do when the form changes to an amount worth u in mode md.
LEMMA FetchBothFits ==
    ASSUME TypeOK, RequestsAreOld, NEW md \in Modes, NEW u \in Nat, FetchBoth(md, u)
    PROVE  /\ hook' \in [Modes -> Hooks] /\ requests' \subseteq Requests
           /\ RequestsAreOld'
           /\ u > 0 /\ hook'[md].debounced > 0 => LatestFits(md)'
<1> DEFINE F(m) == Fetches(m, md, u, hook[m].debounced)
<1>1. \A m \in Modes : hook[m] \in Hooks /\ hook[m].debounced \in Nat /\ F(m) \in BOOLEAN
  BY DEF TypeOK, Hooks, Fetches
<1>2. /\ hook' = [m \in Modes |-> AfterFetch(hook[m], F(m))]
      /\ requests' = requests \cup
             {Sent(m, hook[m].debounced, FALSE) : m \in {n \in Modes : F(n)}}
  BY DEF FetchBoth
<1>3. hook' \in [Modes -> Hooks]
  BY <1>1, <1>2, AfterFetchIs
<1>4. \A q \in requests' : \/ q \in requests
                           \/ \E m \in Modes : F(m) /\ q = Sent(m, hook[m].debounced, FALSE)
  BY <1>2
<1>5. requests' \subseteq Requests
  <2>1. \A m \in Modes : Sent(m, hook[m].debounced, FALSE) \in Requests
    BY <1>1, SentIs
  <2> QED
    BY <1>4, <2>1 DEF TypeOK
<1>6. \A m \in Modes : hook'[m].requestId >= hook[m].requestId
  BY <1>1, <1>2, AfterFetchIs
<1>7. ASSUME NEW q \in requests', q \notin requests
      PROVE  /\ q.id <= hook'[q.mode].requestId
             /\ q.units = hook'[q.mode].debounced
  <2>1. PICK m \in Modes : F(m) /\ q = Sent(m, hook[m].debounced, FALSE)
    BY <1>4, <1>7
  <2>2. q.mode = m /\ q.id = hook[m].requestId + 1 /\ q.units = hook[m].debounced
    BY <1>1, <2>1, SentIs
  <2>3. hook'[m].requestId = hook[m].requestId + 1 /\ hook'[m].debounced = hook[m].debounced
    BY <1>1, <1>2, <2>1, AfterFetchIs
  <2>4. hook[m].requestId \in Nat
    BY <1>1 DEF Hooks
  <2> QED
    BY <2>2, <2>3, <2>4
<1>8. RequestsAreOld'
  BY <1>3, <1>5, <1>6, <1>7, RequestsStayOld
<1>9. ASSUME u > 0, hook'[md].debounced > 0
      PROVE  LatestFits(md)'
  <2>1. hook'[md].debounced = hook[md].debounced
    BY <1>1, <1>2, AfterFetchIs
  <2>2. F(md)
    BY <1>9, <2>1 DEF Fetches
  <2>3. hook'[md].requestId = hook[md].requestId + 1 /\ hook'[md].loading
    BY <1>1, <1>2, <2>2, AfterFetchIs
  <2> HIDE DEF F
  <2> QED
    BY <1>7, <2>3, FetchFits
<1> QED
  BY <1>3, <1>5, <1>8, <1>9

----------------------------------------------------------------------------
(* The steps *)

\* The form that a step leaves has the same amount and mode.
LEMMA SameForm ==
    ASSUME UNCHANGED form
    PROVE  units' = units /\ mode' = mode
BY DEF units

LEMMA EditAmountFits ==
    ASSUME Inv, NEW t \in Texts, EditAmount(t)
    PROVE  Inv'
<1>1. text' = t /\ mode' = mode /\ units' = Units[t] /\ units \in Nat /\ Units[t] \in Nat
  BY UnitsOfTexts DEF Inv, TypeOK, EditAmount, units
<1>2. CASE Units[t] # units
  <2>1. FetchBoth(mode, Units[t])
    BY <1>2 DEF EditAmount
  <2>2. mode \in Modes /\ TypeOK /\ RequestsAreOld
    BY DEF Inv, TypeOK
  <2>3. /\ hook' \in [Modes -> Hooks] /\ requests' \subseteq Requests /\ RequestsAreOld'
        /\ Units[t] > 0 /\ hook'[mode].debounced > 0 => LatestFits(mode)'
    BY <1>1, <2>1, <2>2, FetchBothFits
  <2>4. HookFits'
    BY <1>1, <2>3 DEF HookFits, LatestFits
  <2> QED
    BY <1>1, <2>2, <2>3, <2>4 DEF Inv, TypeOK
<1>3. CASE Units[t] = units
  <2>1. UNCHANGED <<hook, requests, mode>> /\ units' = units
    BY <1>1, <1>3 DEF EditAmount
  <2> QED
    BY <1>1, <2>1 DEF Inv, TypeOK, RequestsAreOld, HookFits, LatestFits
<1> QED
  BY <1>2, <1>3

LEMMA EditModeFits ==
    ASSUME Inv, EditMode
    PROVE  Inv'
<1>1. PICK m \in Modes \ {mode} : mode' = m /\ FetchBoth(m, units)
  BY DEF EditMode
<1>2. text' = text /\ units' = units /\ units \in Nat /\ TypeOK /\ RequestsAreOld
  BY UnitsOfTexts DEF Inv, TypeOK, EditMode, units
<1>3. /\ hook' \in [Modes -> Hooks] /\ requests' \subseteq Requests /\ RequestsAreOld'
      /\ units > 0 /\ hook'[m].debounced > 0 => LatestFits(m)'
  BY <1>1, <1>2, FetchBothFits
<1>4. HookFits'
  BY <1>1, <1>2, <1>3 DEF HookFits, LatestFits
<1> QED
  BY <1>1, <1>2, <1>3, <1>4 DEF Inv, TypeOK

\* A step that sends one request for the amount that the instance m then has as
\* its debounced one.
LEMMA OneFetchFits ==
    ASSUME Inv, UNCHANGED form, NEW m \in Modes, NEW h \in Hooks, NEW s \in BOOLEAN,
           h.debounced > 0, h.requestId = hook[m].requestId + 1, h.loading,
           hook' = [hook EXCEPT ![m] = h],
           requests' = requests \cup {Sent(m, h.debounced, s)},
           mode = m
    PROVE  Inv'
<1>1. TypeOK /\ RequestsAreOld /\ h.debounced \in Nat
  BY DEF Inv, Hooks
<1>2. hook' \in [Modes -> Hooks] /\ hook'[m] = h
  BY <1>1 DEF TypeOK
<1> DEFINE q0 == Sent(m, h.debounced, s)
<1>3. q0 \in Requests /\ q0.mode = m /\ q0.id = hook[m].requestId + 1 /\ q0.units = h.debounced
  BY <1>1, SentIs
<1>4. requests' \subseteq Requests /\ \A q \in requests' : q \in requests \/ q = q0
  BY <1>1, <1>3 DEF TypeOK
<1> HIDE DEF q0
<1>5. \A n \in Modes : hook'[n].requestId >= hook[n].requestId
  <2> SUFFICES ASSUME NEW n \in Modes PROVE hook'[n].requestId >= hook[n].requestId
    OBVIOUS
  <2>1. hook[n].requestId \in Nat
    BY <1>1 DEF TypeOK, Hooks
  <2>2. hook'[n].requestId \in {hook[n].requestId, hook[n].requestId + 1}
    BY <1>1 DEF TypeOK
  <2> QED
    BY <2>1, <2>2
<1>6. q0.id <= hook'[q0.mode].requestId
  <2>1. hook[m].requestId \in Nat
    BY <1>1 DEF TypeOK, Hooks
  <2> QED
    BY <1>2, <1>3, <2>1
<1>7. RequestsAreOld'
  BY <1>1, <1>2, <1>4, <1>5, <1>6, RequestsStayOld
<1>8. LatestFits(m)'
  BY <1>1, <1>2, <1>3, <1>4, FetchFits
<1>9. mode' = m
  OBVIOUS
<1>10. HookFits'
  BY <1>8, <1>9 DEF HookFits, LatestFits
<1> QED
  BY <1>1, <1>2, <1>4, <1>7, <1>10 DEF Inv, TypeOK

LEMMA DebounceFits ==
    ASSUME Inv, NEW m \in Modes, Debounce(m)
    PROVE  Inv'
<1> DEFINE fetches == Fetches(m, mode, units, units)
           h == AfterFetch(hook[m], fetches)
           g == [h EXCEPT !.debounced = units]
<1>1. TypeOK /\ RequestsAreOld /\ hook[m] \in Hooks /\ units \in Nat /\ fetches \in BOOLEAN
  BY UnitsOfTexts DEF Inv, TypeOK, units, Fetches
<1>2. /\ hook' = [hook EXCEPT ![m] = g]
      /\ requests' = IF fetches THEN requests \cup {Sent(m, units, FALSE)} ELSE requests
      /\ UNCHANGED form
  BY DEF Debounce
<1>3. /\ h \in Hooks /\ h.requestId >= hook[m].requestId
      /\ fetches => h.requestId = hook[m].requestId + 1 /\ h.loading
  BY <1>1, AfterFetchIs
<1>4. g \in Hooks /\ g.debounced = units /\ g.requestId = h.requestId /\ g.loading = h.loading
  BY <1>1, <1>3 DEF Hooks
<1>5. CASE fetches
  <2>1. units > 0 /\ mode = m
    BY <1>5 DEF Fetches
  <2> HIDE DEF fetches, h, g
  <2> QED
    BY <1>2, <1>3, <1>4, <1>5, <2>1, OneFetchFits
<1>6. CASE ~fetches
  <2>1. m = mode => ~(units > 0)
    BY <1>6 DEF Fetches
  <2>2. requests' = requests /\ units' = units /\ mode' = mode /\ text' = text
    BY <1>2, <1>6 DEF units
  <2> HIDE DEF fetches, h, g
  <2>3. hook' \in [Modes -> Hooks]
    BY <1>1, <1>2, <1>4 DEF TypeOK
  <2>4. \A n \in Modes : hook'[n].requestId >= hook[n].requestId
    <3> SUFFICES ASSUME NEW n \in Modes PROVE hook'[n].requestId >= hook[n].requestId
      OBVIOUS
    <3>1. hook[n].requestId \in Nat /\ hook'[n] = IF n = m THEN g ELSE hook[n]
      BY <1>1, <1>2 DEF TypeOK, Hooks
    <3> QED
      BY <1>3, <1>4, <3>1
  <2>5. requests' \subseteq Requests
    BY <1>1, <2>2 DEF TypeOK
  <2>6. RequestsAreOld'
    BY <1>1, <2>2, <2>3, <2>4, <2>5, RequestsStayOld
  <2>7. HookFits'
    <3>1. CASE m = mode
      BY <2>1, <2>2, <3>1 DEF HookFits
    <3>2. CASE m # mode
      <4>1. hook'[mode] = hook[mode] /\ mode \in Modes
        BY <1>1, <1>2, <3>2 DEF TypeOK
      <4> QED
        BY <2>2, <4>1 DEF Inv, HookFits, LatestFits
    <3> QED
      BY <3>1, <3>2
  <2> QED
    BY <1>1, <2>2, <2>3, <2>5, <2>6, <2>7 DEF Inv, TypeOK
<1> QED
  BY <1>5, <1>6

LEMMA AgeFits ==
    ASSUME Inv, NEW m \in Modes, Age(m)
    PROVE  Inv'
<1>1. hook' = [hook EXCEPT ![m].stale = TRUE] /\ UNCHANGED <<form, requests>>
  BY DEF Age
<1>2. TypeOK /\ mode \in Modes
  BY DEF Inv, TypeOK
<1>3. /\ hook' \in [Modes -> Hooks]
      /\ \A n \in Modes : /\ hook'[n].requestId = hook[n].requestId
                          /\ hook'[n].debounced = hook[n].debounced
                          /\ hook'[n].loading = hook[n].loading
                          /\ hook'[n].data = hook[n].data
  BY <1>1, <1>2 DEF TypeOK, Hooks
<1>4. RequestsAreOld'
  BY <1>1, <1>2, <1>3 DEF Inv, TypeOK, Requests, RequestsAreOld
<1>5. HookFits'
  BY <1>1, <1>2, <1>3, SameForm DEF Inv, HookFits, LatestFits
<1> QED
  BY <1>1, <1>2, <1>3, <1>4, <1>5 DEF Inv, TypeOK

\* The instance shown asks again for its debounced amount.
LEMMA RefetchFits ==
    ASSUME Inv, UNCHANGED form, NEW s \in BOOLEAN, hook[mode].debounced > 0,
           hook' = [hook EXCEPT ![mode] = AfterFetch(hook[mode], TRUE)],
           requests' = requests \cup {Sent(mode, hook[mode].debounced, s)}
    PROVE  Inv'
<1>1. mode \in Modes /\ hook[mode] \in Hooks
  BY DEF Inv, TypeOK
<1> DEFINE h == AfterFetch(hook[mode], TRUE)
<1>2. /\ h \in Hooks /\ h.debounced = hook[mode].debounced
      /\ h.requestId = hook[mode].requestId + 1 /\ h.loading
  BY <1>1, AfterFetchIs
<1> HIDE DEF h
<1>3. hook' = [hook EXCEPT ![mode] = h] /\ requests' = requests \cup {Sent(mode, h.debounced, s)}
  BY <1>2 DEF h
<1> QED
  BY <1>1, <1>2, <1>3, OneFetchFits

LEMMA AutoRefreshFits ==
    ASSUME Inv, AutoRefresh
    PROVE  Inv'
BY RefetchFits DEF AutoRefresh

LEMMA SubmitStaleFits ==
    ASSUME Inv, SubmitStale
    PROVE  Inv'
<1>1. /\ hook[mode].debounced = units /\ units > 0
      /\ hook' = [hook EXCEPT ![mode] = AfterFetch(hook[mode], TRUE)]
      /\ requests' = requests \cup {Sent(mode, units, TRUE)}
      /\ UNCHANGED form
  BY DEF SubmitStale, CanSubmit
<1> QED
  BY <1>1, RefetchFits

\* The answer to the latest request is for the debounced amount; any other is
\* dropped.
LEMMA AnswerFits ==
    ASSUME Inv, NEW q \in requests, NEW success \in BOOLEAN, Answer(q, success)
    PROVE  Inv'
<1> DEFINE quote == IF success THEN [units |-> q.units, mode |-> q.mode] ELSE Null
<1>1. TypeOK /\ RequestsAreOld /\ q \in Requests /\ q.mode \in Modes /\ mode \in Modes
  BY DEF Inv, TypeOK, Requests
<1>2. requests' = requests \ {q} /\ UNCHANGED form
  BY DEF Answer
<1>3. quote \in Quotes \cup {Null}
  BY <1>1 DEF Quotes, Requests
<1>4. /\ hook' \in [Modes -> Hooks]
      /\ \A n \in Modes : /\ hook'[n].requestId = hook[n].requestId
                          /\ hook'[n].debounced = hook[n].debounced
                          /\ \/ hook'[n].loading = hook[n].loading /\ hook'[n].data = hook[n].data
                             \/ IsLatest(q) /\ n = q.mode /\ hook'[n].data = quote
  <2>1. CASE IsLatest(q)
    <3> DEFINE h == hook[q.mode]
               g == [h EXCEPT !.data = quote, !.loading = FALSE,
                              !.stale = IF success THEN FALSE ELSE @]
    <3>1. hook' = [hook EXCEPT ![q.mode] = g]
      BY <2>1 DEF Answer
    <3>2. g \in Hooks /\ g.requestId = h.requestId /\ g.debounced = h.debounced /\ g.data = quote
      BY <1>1, <1>3 DEF TypeOK, Hooks
    <3> HIDE DEF g, quote
    <3> QED
      BY <1>1, <2>1, <3>1, <3>2 DEF TypeOK
  <2>2. CASE ~IsLatest(q)
    BY <1>1, <2>2 DEF Answer, TypeOK
  <2> QED
    BY <2>1, <2>2
<1>5. requests' \subseteq Requests
  BY <1>1, <1>2 DEF TypeOK
<1>6. RequestsAreOld'
  BY <1>1, <1>2, <1>4 DEF TypeOK, Requests, RequestsAreOld
<1>7. HookFits'
  <2> SUFFICES ASSUME units > 0, hook[mode].debounced > 0 PROVE LatestFits(mode)'
    BY <1>1, <1>2, <1>4, SameForm DEF HookFits, LatestFits
  <2>1. LatestFits(mode)
    BY DEF Inv, HookFits
  <2>2. IsLatest(q) /\ mode = q.mode => q.units = hook[mode].debounced
    BY <2>1 DEF LatestFits, IsLatest
  <2>3. IsLatest(q) /\ mode = q.mode =>
            quote \in {Null, [units |-> hook[mode].debounced, mode |-> mode]}
    BY <2>2
  <2> HIDE DEF quote
  <2> QED
    BY <1>1, <1>2, <1>4, <2>1, <2>3 DEF LatestFits
<1> QED
  BY <1>1, <1>2, <1>4, <1>5, <1>6, <1>7 DEF Inv, TypeOK

----------------------------------------------------------------------------
(* The theorems *)

LEMMA InitFits ==
    ASSUME Init
    PROVE  Inv
<1>1. text \in Texts /\ mode \in Modes
  BY UnitsAssumption DEF Init, Modes
<1>2. hook \in [Modes -> Hooks] /\ requests = {} /\ \A m \in Modes : hook[m].debounced = 0
  BY DEF Init, Hooks
<1> QED
  BY <1>1, <1>2 DEF Inv, TypeOK, RequestsAreOld, HookFits

LEMMA StepKeepsInv ==
    ASSUME Inv, [Next]_vars
    PROVE  Inv'
<1>1. CASE UNCHANGED <<form, hook, requests>>
  BY <1>1, SameForm DEF Inv, TypeOK, RequestsAreOld, HookFits, LatestFits
<1>2. CASE SubmitFresh \/ Start
  BY <1>1, <1>2 DEF SubmitFresh, Start
<1> QED
  BY <1>1, <1>2, EditAmountFits, EditModeFits, DebounceFits, AgeFits, AutoRefreshFits,
     SubmitStaleFits, AnswerFits DEF Next

\* Whatever requests for earlier forms are answered when, a form that may be
\* submitted shows a quote for its own amount and mode.
THEOREM QuotesAreCurrent == Spec => []QuoteIsCurrent
<1>1. Inv => QuoteIsCurrent
  <2> SUFFICES ASSUME Inv, CanSubmit
               PROVE  hook[mode].data = [units |-> units, mode |-> mode]
    BY DEF QuoteIsCurrent
  <2>1. LatestFits(mode)
    BY DEF Inv, HookFits, CanSubmit
  <2> QED
    BY <2>1 DEF LatestFits, CanSubmit
<1> QED
  BY <1>1, InitFits, StepKeepsInv, PTL DEF Spec

\* What the transfer context holds while the form is shown is nothing or the
\* quote of the instance shown, though effects, answers and the submit handler
\* all write it.
THEOREM ContextFollows == Spec => []ContextIsShown
<1>1. Init => ContextIsShown
  BY DEF Init, ContextIsShown
<1>2. ASSUME Inv, ContextIsShown, [Next]_vars
      PROVE  ContextIsShown'
  <2> SUFFICES ASSUME phase' = "idle", response' # Null PROVE response' = hook'[mode'].data
    BY DEF ContextIsShown
  <2>1. mode \in Modes /\ hook \in [Modes -> Hooks]
    BY <1>2 DEF Inv, TypeOK
  <2>2. phase = "idle" => response \in {Null, hook[mode].data}
    BY <1>2 DEF ContextIsShown
  <2>3. CASE \E t \in Texts : EditAmount(t)
    BY <2>3 DEF EditAmount
  <2>4. CASE EditMode
    BY <2>4 DEF EditMode
  <2>5. CASE AutoRefresh \/ SubmitStale
    <3>1. /\ hook' = [hook EXCEPT ![mode] = AfterFetch(hook[mode], TRUE)]
          /\ UNCHANGED <<mode, response>> /\ phase = "idle"
      BY <2>5 DEF AutoRefresh, SubmitStale
    <3>2. hook'[mode].data = hook[mode].data
      BY <2>1, <3>1, AfterFetchIs
    <3> QED
      BY <2>2, <3>1, <3>2
  <2>6. CASE SubmitFresh \/ Start
    BY <2>6 DEF SubmitFresh, Start
  <2>7. ASSUME NEW m \in Modes, Debounce(m)
        PROVE  response' = hook'[mode'].data
    <3> DEFINE fetches == Fetches(m, mode, units, units)
               h == AfterFetch(hook[m], fetches)
    <3>1. /\ phase = "idle" /\ mode' = mode
          /\ hook' = [hook EXCEPT ![m] = [h EXCEPT !.debounced = units]]
          /\ response' = IF m = mode /\ h.data = Null THEN Null ELSE response
      BY <2>7 DEF Debounce
    <3>2. fetches \in BOOLEAN /\ hook[m] \in Hooks
      BY <2>1 DEF Fetches
    <3>3. h.data \in {hook[m].data, Null} /\ [h EXCEPT !.debounced = units].data = h.data
      BY <3>2, AfterFetchIs DEF Hooks
    <3> HIDE DEF h
    <3>4. response = hook[mode].data /\ (m = mode => h.data # Null)
      BY <2>2, <3>1
    <3> QED
      BY <2>1, <3>1, <3>3, <3>4
  <2>8. ASSUME NEW m \in Modes, Age(m)
        PROVE  response' = hook'[mode'].data
    <3>1. hook' = [hook EXCEPT ![m].stale = TRUE] /\ UNCHANGED <<mode, response>> /\ phase = "idle"
      BY <2>8 DEF Age
    <3>2. hook'[mode].data = hook[mode].data
      BY <2>1, <3>1 DEF Hooks
    <3> QED
      BY <2>2, <3>1, <3>2
  <2>9. ASSUME NEW q \in requests, NEW success \in BOOLEAN, Answer(q, success)
        PROVE  response' = hook'[mode'].data
    <3> DEFINE quote == IF success THEN [units |-> q.units, mode |-> q.mode] ELSE Null
    <3>1. phase = "idle" /\ mode' = mode /\ ~(q.submit /\ IsLatest(q) /\ success)
      BY <2>9 DEF Answer
    <3>2. response' = IF IsLatest(q) /\ q.mode = mode THEN quote ELSE response
      BY <2>9, <3>1 DEF Answer, IsShown
    <3>3. /\ IsLatest(q) /\ q.mode = mode => hook'[mode].data = quote
          /\ ~(IsLatest(q) /\ q.mode = mode) => hook'[mode].data = hook[mode].data
      BY <2>1, <2>9 DEF Answer, Hooks
    <3> HIDE DEF quote
    <3> QED
      BY <2>2, <3>1, <3>2, <3>3
  <2>10. CASE UNCHANGED vars
    BY <2>2, <2>10
  <2> QED
    BY <2>3, <2>4, <2>5, <2>6, <2>7, <2>8, <2>9, <2>10, <1>2 DEF Next
<1> QED
  BY <1>1, <1>2, InitFits, StepKeepsInv, PTL DEF Spec

==============================================================================
