-------------------------- MODULE HealthCache_proofs --------------------------
(***************************************************************************)
(* How old an answer of the health route can be, for any number of         *)
(* endpoints and of overlapping requests.                                  *)
(***************************************************************************)
EXTENDS HealthCache, TLAPS

Report == [healthy : BOOLEAN, lastBlockHeight : Nat]

Request == [pc : {"new", "checking", "answered"}, since : Nat, pending : SUBSET Endpoints,
            bodies : SUBSET Endpoints, results : [Endpoints -> Report], stalled : BOOLEAN,
            seen : Nat, age : Int]

TypeOK == now \in Nat /\ request \in [Requests -> Request]

\* A check that no body stalled is no older than its timer allows: time does not
\* pass a request that has waited that long, nor one that has nothing to wait for.
CheckIsTimed(r) ==
  /\ request[r].pc # "checking" => request[r].pending = {} /\ request[r].bodies = {}
  /\ request[r].pc = "checking" /\ ~request[r].stalled =>
       request[r].bodies = {} /\ now <= request[r].since + HEALTH_CHECK_TIMEOUT

\* Nothing was seen after it was written, and what was written had been seen
\* within the timer.
CacheIsTimed ==
  cache # Null =>
    /\ cache.seen \in Nat /\ cache.timestamp \in Nat /\ cache.stalled \in BOOLEAN
    /\ cache.seen <= now /\ cache.timestamp <= now
    /\ ~cache.stalled => cache.timestamp <= cache.seen + HEALTH_CHECK_TIMEOUT

TimeInv ==
  /\ TypeOK
  /\ \A r \in Requests : CheckIsTimed(r) /\ request[r].since <= now /\ request[r].seen <= now
  /\ CacheIsTimed
  /\ AnswersAreRecent
  /\ CacheKeepsUp

LEMMA ReportsAreReports == \A e \in Endpoints : Reports(e) \subseteq Report
<1>. SUFFICES ASSUME NEW e \in Endpoints, NEW x \in Reports(e) PROVE x \in Report
  OBVIOUS
<1>1. Failed \in Report
  BY DEF Failed, Report
<1>2. [healthy : BOOLEAN, lastBlockHeight : Heights] \subseteq Report
  BY NumbersAssumption DEF Report
<1>3. [healthy |-> TRUE, lastBlockHeight |-> 0] \in Report
  BY DEF Report
<1>. QED
  BY <1>1, <1>2, <1>3 DEF Reports

LEMMA InitialTimes == Init => TimeInv
<1>. SUFFICES ASSUME Init PROVE TimeInv
  OBVIOUS
<1>1. NewRequest \in Request
  BY DEF NewRequest, Request, Failed, Report
<1>2. /\ NewRequest.pc = "new" /\ NewRequest.since = 0 /\ NewRequest.seen = 0
      /\ NewRequest.pending = {} /\ NewRequest.bodies = {}
  BY DEF NewRequest
<1>3. now = 0 /\ cache = Null /\ request = [r \in Requests |-> NewRequest]
  BY DEF Init
<1>. QED
  BY <1>1, <1>2, <1>3 DEF TimeInv, TypeOK, CheckIsTimed, CacheIsTimed, AnswersAreRecent, CacheKeepsUp

\* A request that is answered from an entry knows what the entry knows.
LEMMA AnsweredFacts ==
  ASSUME now \in Nat, NEW entry, entry.seen \in Nat, entry.stalled \in BOOLEAN
  PROVE  /\ Answered(entry) \in Request
         /\ Answered(entry).pc = "answered" /\ Answered(entry).since = 0
         /\ Answered(entry).seen = entry.seen /\ Answered(entry).stalled = entry.stalled
         /\ Answered(entry).age = now - entry.seen
         /\ Answered(entry).pending = {} /\ Answered(entry).bodies = {}
<1>1. NewRequest \in Request /\ NewRequest.since = 0 /\ NewRequest.pending = {} /\ NewRequest.bodies = {}
  BY DEF NewRequest, Request, Failed, Report
<1>2. now - entry.seen \in Int
  OBVIOUS
<1>. QED
  BY <1>1, <1>2 DEF Answered, Request

\* A step in which one request changes, and neither the clock nor the cache.
LEMMA RequestChanges ==
  ASSUME TimeInv, NEW r \in Requests, NEW q \in Request,
         UNCHANGED <<now, cache>>, request' = [request EXCEPT ![r] = q],
         q.since <= now, q.seen <= now, q.pc # "checking" => q.pending = {} /\ q.bodies = {},
         q.pc = "checking" /\ ~q.stalled => q.bodies = {} /\ now <= q.since + HEALTH_CHECK_TIMEOUT,
         q.pc = "answered" /\ ~q.stalled => q.age < CACHE_TTL + HEALTH_CHECK_TIMEOUT,
         q.pc = "answered" /\ cache # Null /\ ~cache.stalled => cache.seen + HEALTH_CHECK_TIMEOUT >= q.seen
  PROVE  TimeInv'
<1>1. TypeOK'
  BY DEF TimeInv, TypeOK
<1>2. request'[r] = q /\ \A p \in Requests \ {r} : request'[p] = request[p]
  BY DEF TimeInv, TypeOK
<1>3. \A p \in Requests : CheckIsTimed(p)' /\ request'[p].since <= now' /\ request'[p].seen <= now'
  BY <1>2 DEF TimeInv, CheckIsTimed
<1>4. CacheIsTimed'
  BY DEF TimeInv, CacheIsTimed
<1>5. AnswersAreRecent'
  BY <1>2 DEF TimeInv, AnswersAreRecent
<1>6. CacheKeepsUp'
  BY <1>2 DEF TimeInv, CacheKeepsUp
<1>. QED
  BY <1>1, <1>3, <1>4, <1>5, <1>6 DEF TimeInv

LEMMA TimesStay == TimeInv /\ [Next]_vars => TimeInv'
<1>. SUFFICES ASSUME TimeInv, [Next]_vars PROVE TimeInv'
  OBVIOUS
<1>0. /\ now \in Nat /\ HEALTH_CHECK_TIMEOUT \in Nat /\ CACHE_TTL \in Nat \ {0}
      /\ \A r \in Requests : request[r] \in Request /\ request[r].since \in Nat /\ request[r].seen \in Nat
                             /\ request[r].stalled \in BOOLEAN
  BY TimesAssumption DEF TimeInv, TypeOK, Request
<1>1. CASE Tick
  <2>1. now' = now + 1 /\ UNCHANGED <<cache, request>> /\ \A r \in Requests : ~Urgent(r)
    BY <1>1 DEF Tick
  <2>2. TypeOK' /\ CacheIsTimed' /\ AnswersAreRecent' /\ CacheKeepsUp'
    BY <1>0, <2>1 DEF TimeInv, TypeOK, CacheIsTimed, AnswersAreRecent, CacheKeepsUp
  <2>3. ASSUME NEW r \in Requests
        PROVE  CheckIsTimed(r)' /\ request'[r].since <= now' /\ request'[r].seen <= now'
    <3>1. request[r].since <= now' /\ request[r].seen <= now'
      BY <1>0, <2>1 DEF TimeInv
    <3>2. ASSUME request[r].pc = "checking", ~request[r].stalled
          PROVE  request[r].bodies = {} /\ now + 1 <= request[r].since + HEALTH_CHECK_TIMEOUT
      <4>1. request[r].bodies = {}
        BY <3>2 DEF TimeInv, CheckIsTimed
      <4>2. request[r].pending # {} /\ ~(now - request[r].since >= HEALTH_CHECK_TIMEOUT)
        BY <2>1, <3>2, <4>1 DEF Urgent
      <4>. QED
        BY <1>0, <4>1, <4>2
    <3>3. request[r].pc # "checking" => request[r].pending = {} /\ request[r].bodies = {}
      BY DEF TimeInv, CheckIsTimed
    <3>. QED
      BY <2>1, <3>1, <3>2, <3>3 DEF CheckIsTimed
  <2>. QED
    BY <2>2, <2>3 DEF TimeInv
<1>2. ASSUME NEW r \in Requests, Hit(r) PROVE TimeInv'
  <2>1. /\ cache # Null /\ now - cache.timestamp < CACHE_TTL
        /\ request' = [request EXCEPT ![r] = Answered(cache)] /\ UNCHANGED <<now, cache>>
    BY <1>2 DEF Hit, Valid
  <2>2. /\ cache.seen \in Nat /\ cache.timestamp \in Nat /\ cache.stalled \in BOOLEAN
        /\ cache.seen <= now
        /\ ~cache.stalled => cache.timestamp <= cache.seen + HEALTH_CHECK_TIMEOUT
    BY <2>1 DEF TimeInv, CacheIsTimed
  <2>3. /\ Answered(cache) \in Request
        /\ Answered(cache).pc = "answered" /\ Answered(cache).since = 0
        /\ Answered(cache).seen = cache.seen /\ Answered(cache).stalled = cache.stalled
        /\ Answered(cache).age = now - cache.seen
        /\ Answered(cache).pending = {} /\ Answered(cache).bodies = {}
    BY <1>0, <2>2, AnsweredFacts
  <2>4. ~cache.stalled => now - cache.seen < CACHE_TTL + HEALTH_CHECK_TIMEOUT
    BY <1>0, <2>1, <2>2
  <2> DEFINE q == Answered(cache)
  <2>5. /\ q \in Request /\ request' = [request EXCEPT ![r] = q] /\ UNCHANGED <<now, cache>>
        /\ q.since <= now /\ q.seen <= now /\ q.pc = "answered"
        /\ ~q.stalled => q.age < CACHE_TTL + HEALTH_CHECK_TIMEOUT
        /\ cache.seen + HEALTH_CHECK_TIMEOUT >= q.seen
    BY <1>0, <2>1, <2>2, <2>3, <2>4
  <2>6. q.pending = {} /\ q.bodies = {}
    BY <2>3
  <2>. HIDE DEF q
  <2>. QED
    BY <2>5, <2>6, RequestChanges
<1>3. ASSUME NEW r \in Requests, Miss(r) PROVE TimeInv'
  <2> DEFINE q == [request[r] EXCEPT !.pc = "checking", !.since = now, !.pending = Endpoints]
  <2>1. request' = [request EXCEPT ![r] = q] /\ UNCHANGED <<now, cache>>
    BY <1>3 DEF Miss
  <2>2. q \in Request /\ q.pc = "checking" /\ q.since = now /\ q.seen = request[r].seen
        /\ q.bodies = request[r].bodies
    BY <1>0 DEF Request
  <2>3. request[r].bodies = {} /\ request[r].seen <= now
    BY <1>3 DEF Miss, Comes, TimeInv, CheckIsTimed
  <2>. HIDE DEF q
  <2>4. now <= q.since + HEALTH_CHECK_TIMEOUT /\ q.since <= now /\ q.seen <= now
    BY <1>0, <2>2, <2>3
  <2>. QED
    BY <2>1, <2>2, <2>3, <2>4, RequestChanges
<1>4. ASSUME NEW r \in Requests, NEW e \in Endpoints, Stall(r, e) PROVE TimeInv'
  <2> DEFINE q == [request[r] EXCEPT !.bodies = @ \cup {e}, !.stalled = TRUE]
  <2>1. request' = [request EXCEPT ![r] = q] /\ UNCHANGED <<now, cache>> /\ e \in request[r].pending
    BY <1>4 DEF Stall
  <2>2. q \in Request /\ q.stalled /\ q.since = request[r].since /\ q.seen = request[r].seen /\ q.pc = request[r].pc
    BY <1>0 DEF Request
  <2>3. q.pc = "checking" /\ q.since <= now /\ q.seen <= now
    BY <2>1, <2>2 DEF TimeInv, CheckIsTimed
  <2>. HIDE DEF q
  <2>. QED
    BY <2>1, <2>2, <2>3, RequestChanges
<1>5. ASSUME NEW r \in Requests, NEW e \in Endpoints, NEW report \in Reports(e), Check(r, e, report) PROVE TimeInv'
  <2> DEFINE q == [request[r] EXCEPT !.pending = @ \ {e}, !.bodies = @ \ {e}, !.results[e] = report]
  <2>1. request' = [request EXCEPT ![r] = q] /\ UNCHANGED <<now, cache>> /\ e \in request[r].pending
    BY <1>5 DEF Check
  <2>2. report \in Report
    BY ReportsAreReports
  <2>3. /\ q \in Request /\ q.stalled = request[r].stalled /\ q.since = request[r].since
        /\ q.seen = request[r].seen /\ q.age = request[r].age /\ q.pc = request[r].pc
        /\ q.pending = request[r].pending \ {e} /\ q.bodies = request[r].bodies \ {e}
    BY <1>0, <2>2 DEF Request
  <2>4. CheckIsTimed(r) /\ AnswersAreRecent /\ CacheKeepsUp /\ request[r].since <= now /\ request[r].seen <= now
    BY DEF TimeInv
  <2>. HIDE DEF q
  <2>. QED
    BY <1>0, <2>1, <2>3, <2>4, RequestChanges DEF CheckIsTimed, AnswersAreRecent, CacheKeepsUp
<1>6. ASSUME NEW r \in Requests, Answer(r) PROVE TimeInv'
  <2> DEFINE entry == [apis |-> HealthyApis(request[r].results), rpcs |-> HealthyRpcs(request[r].results),
                       timestamp |-> now, seen |-> request[r].since, stalled |-> request[r].stalled]
  <2>1. /\ cache' = entry /\ now' = now /\ request' = [request EXCEPT ![r] = Answered(entry)]
        /\ request[r].pc = "checking"
    BY <1>6 DEF Answer, AfterAnswer
  <2>2. /\ entry.seen = request[r].since /\ entry.timestamp = now /\ entry.stalled = request[r].stalled
    OBVIOUS
  <2>. HIDE DEF entry
  <2>3. /\ Answered(entry) \in Request
        /\ Answered(entry).pc = "answered" /\ Answered(entry).since = 0
        /\ Answered(entry).seen = entry.seen /\ Answered(entry).stalled = entry.stalled
        /\ Answered(entry).age = now - entry.seen
        /\ Answered(entry).pending = {} /\ Answered(entry).bodies = {}
    BY <1>0, <2>2, AnsweredFacts
  <2>4. /\ entry.seen <= now
        /\ ~entry.stalled => now <= entry.seen + HEALTH_CHECK_TIMEOUT
    BY <2>1, <2>2 DEF TimeInv, CheckIsTimed
  <2>5. TypeOK'
    BY <2>1, <2>3 DEF TimeInv, TypeOK
  <2>6. request'[r] = Answered(entry) /\ \A p \in Requests \ {r} : request'[p] = request[p]
    BY <2>1 DEF TimeInv, TypeOK
  <2>7. \A p \in Requests : CheckIsTimed(p)' /\ request'[p].since <= now' /\ request'[p].seen <= now'
    BY <1>0, <2>1, <2>3, <2>4, <2>6 DEF TimeInv, CheckIsTimed
  <2>8. CacheIsTimed'
    BY <1>0, <2>1, <2>2, <2>4 DEF CacheIsTimed
  <2>9. AnswersAreRecent'
    <3>1. ~entry.stalled => now - entry.seen < CACHE_TTL + HEALTH_CHECK_TIMEOUT
      BY <1>0, <2>2, <2>4
    <3>. QED
      BY <2>3, <2>6, <3>1 DEF TimeInv, AnswersAreRecent
  <2>10. CacheKeepsUp'
    <3>1. ~entry.stalled => \A p \in Requests : entry.seen + HEALTH_CHECK_TIMEOUT >= request'[p].seen
      <4>1. \A p \in Requests : request'[p].seen \in Nat /\ request'[p].seen <= now
        BY <2>1, <2>5, <2>7 DEF TypeOK, Request
      <4>. QED
        BY <1>0, <2>2, <2>4, <4>1
    <3>. QED
      BY <2>1, <3>1 DEF CacheKeepsUp
  <2>. QED
    BY <2>5, <2>7, <2>8, <2>9, <2>10 DEF TimeInv
<1>7. CASE UNCHANGED vars
  BY <1>7 DEF vars, TimeInv, TypeOK, CheckIsTimed, CacheIsTimed, AnswersAreRecent, CacheKeepsUp
<1>. QED
  BY <1>1, <1>2, <1>3, <1>4, <1>5, <1>6, <1>7 DEF Next

LEMMA TimesHold == Spec => []TimeInv
BY InitialTimes, TimesStay, PTL DEF Spec

\* However many requests overlap, no answer is older than the cache keeps an
\* entry and a check may take, unless a body stalled a check behind it.
THEOREM RecentAnswers == Spec => []AnswersAreRecent
<1>1. TimeInv => AnswersAreRecent
  BY DEF TimeInv
<1>. QED
  BY <1>1, TimesHold, PTL

\* The cache never falls behind an answer by more than a check may take, in
\* whatever order overlapping requests overwrite it.
THEOREM CacheStaysCurrent == Spec => []CacheKeepsUp
<1>1. TimeInv => CacheKeepsUp
  BY DEF TimeInv
<1>. QED
  BY <1>1, TimesHold, PTL
=============================================================================
