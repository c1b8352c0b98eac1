----------------------------- MODULE HealthCache -----------------------------
(***************************************************************************)
(* The route that tells the browser which endpoints of a chain to use,     *)
(* client_app/src/app/api/health/route.ts: one chain, several requests at  *)
(* once.                                                                   *)
(*                                                                         *)
(* Every check of an endpoint sends a preflight and its requests at the    *)
(* same time; what comes of it is a report.  The timer of a check is       *)
(* cleared when the headers have arrived, before the body is read: such a  *)
(* check is stalled until the body arrives.                                *)
(***************************************************************************)
EXTENDS Naturals, FiniteSets, FiniteSetsExt

CONSTANTS
    Rpcs, Apis,           \* the chain's configured endpoints
    Heights,              \* heights an RPC may report
    acceptableHeightDiff, \* how far an RPC may be behind
    CACHE_TTL,            \* how long an answer is cached
    HEALTH_CHECK_TIMEOUT, \* how long a check waits for headers
    Null,                 \* nothing
    MaxRequests,          \* bound: GET requests, numbered as they come
    MaxTime               \* bound: ticks of the clock

ASSUME EndpointsAssumption == Rpcs \cap Apis = {}
ASSUME NumbersAssumption   == Heights \subseteq Nat /\ acceptableHeightDiff \in Nat
ASSUME TimesAssumption     == {HEALTH_CHECK_TIMEOUT, MaxTime, MaxRequests} \subseteq Nat /\ CACHE_TTL \in Nat \ {0}

Requests == 1 .. MaxRequests

VARIABLES
    now,      \* Date.now()
    cache,    \* healthCache of the chain, or Null
    request   \* per request: what it is doing, has learnt and was answered

vars == <<now, cache, request>>

----------------------------------------------------------------------------
(* Data *)

Endpoints == Rpcs \cup Apis
\* HealthCheckResult: a syncing API is not healthy; an RPC may report a height
\* and not be healthy.
Failed   == [healthy |-> FALSE, lastBlockHeight |-> 0]
Reports(e) == IF e \in Rpcs THEN {Failed} \cup [healthy : BOOLEAN, lastBlockHeight : Heights]
              ELSE {Failed, [healthy |-> TRUE, lastBlockHeight |-> 0]}

\* seen: when the checks behind the answer were started (history).
\* stalled: one of the checks behind it waited for a body (history).
NewRequest == [pc |-> "new", since |-> 0, pending |-> {}, bodies |-> {},
               results |-> [e \in Endpoints |-> Failed], stalled |-> FALSE,
               seen |-> 0, age |-> 0]
\* A request that was answered from an entry.
Answered(entry) == [NewRequest EXCEPT !.pc = "answered", !.seen = entry.seen,
                                      !.stalled = entry.stalled, !.age = now - entry.seen]

\* checkEndpointsHealth for the RPCs: not far behind the highest one.
HealthyRpcs(results) ==
    LET highest == Max({0} \cup {results[e].lastBlockHeight : e \in Rpcs})
    IN  {e \in Rpcs : results[e].healthy /\ results[e].lastBlockHeight > 0
                      /\ highest - results[e].lastBlockHeight <= acceptableHeightDiff}

HealthyApis(results) == {e \in Apis : results[e].healthy}

Init == now = 0 /\ cache = Null /\ request = [r \in Requests |-> NewRequest]

----------------------------------------------------------------------------
(* GET *)

\* Mutant: an entry does not expire.
Valid_Always == cache # Null
Valid == cache # Null /\ now - cache.timestamp < CACHE_TTL

Comes(r) == request[r].pc = "new" /\ \A p \in 1 .. r - 1 : request[p].pc # "new"

\* The cached lists are returned.
Hit(r) ==
    /\ Comes(r) /\ Valid
    /\ request' = [request EXCEPT ![r] = Answered(cache)]
    /\ UNCHANGED <<now, cache>>

\* All checks of both lists start at once.  Other requests that come before
\* they end do the same.
Miss(r) ==
    /\ Comes(r) /\ ~Valid
    /\ request' = [request EXCEPT ![r].pc = "checking", ![r].since = now,
                                  ![r].pending = Endpoints]
    /\ UNCHANGED <<now, cache>>

\* The headers of an endpoint arrive and the timer is cleared; its body, that
\* takes its time.
Stall(r, e) ==
    /\ e \in request[r].pending \ request[r].bodies
    /\ request' = [request EXCEPT ![r].bodies = @ \cup {e}, ![r].stalled = TRUE]
    /\ UNCHANGED <<now, cache>>

\* checkRpcHealth or checkApiHealth returns: what the endpoint said, or that
\* its preflight, its request or its timer failed.
Check(r, e, report) ==
    /\ e \in request[r].pending
    /\ request' = [request EXCEPT ![r].pending = @ \ {e},
                                  ![r].bodies = @ \ {e}, ![r].results[e] = report]
    /\ UNCHANGED <<now, cache>>

\* Mutant: an entry is only set once.
AfterAnswer_Once(entry) == IF cache = Null THEN entry ELSE cache
\* healthCache.set: the last request to finish wins.
AfterAnswer(entry) == entry

\* Both lists are there: they are cached, empty ones too, and returned.
Answer(r) ==
    LET q == request[r]
        entry == [apis |-> HealthyApis(q.results), rpcs |-> HealthyRpcs(q.results),
                  timestamp |-> now, seen |-> q.since, stalled |-> q.stalled]
    IN  /\ q.pc = "checking" /\ q.pending = {}
        /\ cache' = AfterAnswer(entry)
        /\ request' = [request EXCEPT ![r] = Answered(entry)]
        /\ UNCHANGED now

----------------------------------------------------------------------------
(* Time *)

\* No check waits for headers longer than its timer allows, and a request whose
\* checks are over answers at once.
Urgent(r) ==
    /\ request[r].pc = "checking"
    /\ \/ request[r].pending = {}
       \/ /\ now - request[r].since >= HEALTH_CHECK_TIMEOUT
          /\ request[r].pending \ request[r].bodies # {}

Tick ==
    /\ now < MaxTime /\ \A r \in Requests : ~Urgent(r)
    /\ now' = now + 1
    /\ UNCHANGED <<cache, request>>

----------------------------------------------------------------------------
(* Specification *)

Checks(r) == \E e \in Endpoints : \E report \in Reports(e) : Check(r, e, report)
Serve(r)  == Hit(r) \/ Miss(r) \/ Checks(r) \/ Answer(r)

Next ==
    \/ Tick
    \/ \E r \in Requests : Hit(r) \/ Miss(r) \/ Answer(r)
    \/ \E r \in Requests, e \in Endpoints :
           Stall(r, e) \/ \E report \in Reports(e) : Check(r, e, report)

Spec == Init /\ [][Next]_vars

----------------------------------------------------------------------------
(* Properties *)

\* No browser is told to use what was last seen healthy longer ago than the
\* cache keeps it and a check lasts, however requests overlap, unless a body
\* stalled one of the checks.
AnswersAreRecent == \A r \in Requests :
    request[r].pc = "answered" /\ ~request[r].stalled =>
        request[r].age < CACHE_TTL + HEALTH_CHECK_TIMEOUT

\* What the cache holds is never older than an answer that was given before,
\* by more than the checks of two overlapping requests take.
CacheKeepsUp == \A r \in Requests :
    cache # Null /\ ~cache.stalled /\ request[r].pc = "answered" =>
        cache.seen + HEALTH_CHECK_TIMEOUT >= request[r].seen

==============================================================================
