--------------------------- MODULE SqsClient_proofs ---------------------------
(***************************************************************************)
(* The list of healthy endpoints, for any number of endpoints, requests    *)
(* and retries.                                                            *)
(***************************************************************************)
EXTENDS SqsClient, TLAPS

N == Len(Urls)

\* The slots of I hold the endpoints of S, each one once.
Holds(I, S) ==
  /\ \A i, j \in I : slots[i] = slots[j] => i = j
  /\ {slots[i] : i \in I} = S

\* What the array holds at each point of a removal: at rest everything, or all
\* but the primary; while the later elements move down the backups are in the
\* slots other than the one that is written next.
ListInv ==
  /\ slots \in [1..N -> Endpoints \cup {Blank}]
  /\ checker \in [pc : {"waiting", "restoring", "removing", "moving", "cleared", "stopped"}, at : 0..N]
  /\ checker.pc \in {"waiting", "restoring", "removing", "stopped"} =>
       \/ len = N /\ Holds(1..N, Endpoints)
       \/ len = N - 1 /\ Holds(1..(N - 1), Backups)
  /\ checker.pc = "moving" =>
       len = N /\ checker.at \in 1..N /\ Holds(1..N \ {checker.at}, Backups)
  /\ checker.pc = "cleared" =>
       len = N /\ Holds(1..(N - 1), Backups)

LEMMA UrlsFacts ==
  /\ N \in Nat /\ N > 1
  /\ Urls \in [1..N -> Endpoints]
  /\ \A i, j \in 1..N : Urls[i] = Urls[j] => i = j
  /\ {Urls[i] : i \in 1..N} = Endpoints
  /\ Primary \in Endpoints
  /\ Backups = Endpoints \ {Primary}
<1>1. Urls \in Seq(Endpoints) /\ Len(Urls) > 1
  BY UrlsAssumption
<1>2. N \in Nat /\ N > 1 /\ Urls \in [1..N -> Endpoints] /\ DOMAIN Urls = 1..N
  BY <1>1 DEF N
<1>3. \A i, j \in 1..N : Urls[i] = Urls[j] => i = j
  BY <1>2, UrlsAssumption DEF IsInjective
<1>4. {Urls[i] : i \in 1..N} = Endpoints
  BY <1>2 DEF Endpoints, ToSet
<1>5. Primary \in Endpoints
  BY <1>1, <1>2 DEF Primary, N
<1>. QED
  BY <1>2, <1>3, <1>4, <1>5 DEF Backups

LEMMA InitList == Init => ListInv
<1>. SUFFICES ASSUME Init PROVE ListInv
  OBVIOUS
<1>. QED
  BY UrlsFacts DEF Init, ListInv, Holds, N

\* The primary is appended to a list that does not hold it: there is a slot left.
LEMMA RestoreKeeps == ListInv /\ Restore => ListInv'
<1>. SUFFICES ASSUME ListInv, Restore PROVE ListInv'
  OBVIOUS
<1>0. slots' = Restored[1] /\ len' = Restored[2] /\ checker.pc = "restoring" /\ checker' = [pc |-> "waiting", at |-> 0]
  BY DEF Restore
<1>1. CASE len = N /\ Holds(1..N, Endpoints)
  <2>1. Primary \in Listed
    BY <1>1, UrlsFacts DEF Holds, Listed
  <2>. QED
    BY <1>0, <1>1, <2>1, UrlsFacts DEF Restored, list, ListInv, Holds
<1>2. CASE len = N - 1 /\ Holds(1..(N - 1), Backups)
  <2>1. Primary \notin Listed /\ N - 1 + 1 = N
    BY <1>2, UrlsFacts DEF Holds, Listed
  <2>2. slots' = [slots EXCEPT ![N] = Primary] /\ len' = N
    BY <1>0, <1>2, <2>1 DEF Restored
  <2>3. slots \in [1..N -> Endpoints \cup {Blank}]
    BY DEF ListInv
  <2>4. /\ slots'[N] = Primary
        /\ \A i \in 1..(N - 1) : i \in 1..N /\ i # N /\ slots'[i] = slots[i]
        /\ \A i \in 1..N : i \in 1..(N - 1) \/ i = N
    BY <2>2, <2>3, UrlsFacts
  <2>5. \A i \in 1..(N - 1) : slots[i] \in Backups /\ slots[i] # Primary
    BY <1>2, UrlsFacts DEF Holds
  <2>6. {slots'[i] : i \in 1..N} = Endpoints
    <3>1. \A i \in 1..N : slots'[i] \in Endpoints
      BY <2>4, <2>5, UrlsFacts
    <3>2. ASSUME NEW u \in Endpoints PROVE \E i \in 1..N : slots'[i] = u
      <4>1. CASE u = Primary
        BY <4>1, <2>4, UrlsFacts
      <4>2. CASE u # Primary
        <5>1. PICK i \in 1..(N - 1) : slots[i] = u
          BY <4>2, <1>2, UrlsFacts DEF Holds
        <5>. QED
          BY <5>1, <2>4
      <4>. QED
        BY <4>1, <4>2
    <3>. QED
      BY <3>1, <3>2
  <2>7. \A i, j \in 1..N : slots'[i] = slots'[j] => i = j
    BY <2>4, <2>5, <1>2 DEF Holds
  <2>8. Holds(1..N, Endpoints)'
    BY <2>6, <2>7 DEF Holds
  <2>9. slots' \in [1..N -> Endpoints \cup {Blank}]
    BY <2>2, <2>3, UrlsFacts
  <2>. QED
    BY <1>0, <2>2, <2>8, <2>9, UrlsFacts DEF ListInv
<1>. QED
  BY <1>0, <1>1, <1>2 DEF ListInv

LEMMA FindPrimaryKeeps == ListInv /\ FindPrimary => ListInv'
<1>. SUFFICES ASSUME ListInv, FindPrimary PROVE ListInv'
  OBVIOUS
<1>0. /\ checker.pc = "removing"
      /\ UNCHANGED <<slots, len>>
      /\ \/ len = N /\ Holds(1..N, Endpoints)
         \/ len = N - 1 /\ Holds(1..(N - 1), Backups)
  BY DEF FindPrimary, list, ListInv
<1>1. CASE Primary \notin Listed
  BY <1>0, <1>1, UrlsFacts DEF FindPrimary, ListInv, Holds
<1>2. CASE Primary \in Listed
  <2> DEFINE at == CHOOSE i \in 1..len : slots[i] = Primary
  <2>1. len = N /\ Holds(1..N, Endpoints)
    BY <1>0, <1>2, UrlsFacts DEF Holds, Listed
  <2>2. at \in 1..N /\ slots[at] = Primary
    BY <2>1, <1>2 DEF Listed
  <2>3. checker' = [pc |-> "moving", at |-> at]
    BY <1>2 DEF FindPrimary
  <2>. HIDE DEF at
  <2>4. \A i \in 1..N \ {at} : slots[i] \in Backups
    BY <2>1, <2>2, UrlsFacts DEF Holds
  <2>5. \A u \in Backups : \E i \in 1..N \ {at} : slots[i] = u
    BY <2>1, <2>2, UrlsFacts DEF Holds
  <2>6. {slots[i] : i \in 1..N \ {at}} = Backups
    BY <2>4, <2>5
  <2>7. Holds(1..N \ {checker.at}, Backups)'
    BY <1>0, <2>1, <2>3, <2>6 DEF Holds
  <2>. QED
    BY <1>0, <2>1, <2>2, <2>3, <2>7, UrlsFacts DEF ListInv
<1>. QED
  BY <1>1, <1>2

\* The slot that is written next moves up by one; what was there has moved down.
LEMMA MoveDownKeeps == ListInv /\ MoveDown => ListInv'
<1>. SUFFICES ASSUME ListInv, MoveDown PROVE ListInv'
  OBVIOUS
<1> DEFINE at == checker.at
<1>0. /\ checker.pc = "moving" /\ len = N /\ len' = len
      /\ at \in 1..N /\ at < N /\ at + 1 \in 1..N /\ at # at + 1
      /\ slots \in [1..N -> Endpoints \cup {Blank}]
      /\ slots' = [slots EXCEPT ![at] = slots[at + 1]]
      /\ Holds(1..N \ {at}, Backups)
  BY UrlsFacts DEF MoveDown, MovedDown, ListInv
<1>1. checker' = [pc |-> "moving", at |-> at + 1]
  BY <1>0 DEF MoveDown, ListInv
<1>. HIDE DEF at
<1>2. /\ slots'[at] = slots[at + 1]
      /\ \A i \in 1..N \ {at} : slots'[i] = slots[i]
      /\ slots' \in [1..N -> Endpoints \cup {Blank}]
  BY <1>0
<1>3. /\ \A i, j \in 1..N \ {at} : slots[i] = slots[j] => i = j
      /\ \A i \in 1..N \ {at} : slots[i] \in Backups
      /\ \A u \in Backups : \E i \in 1..N \ {at} : slots[i] = u
  BY <1>0 DEF Holds
<1>4. \A i, j \in 1..N \ {at + 1} : slots'[i] = slots'[j] => i = j
  BY <1>0, <1>2, <1>3
<1>5. \A i \in 1..N \ {at + 1} : slots'[i] \in Backups
  BY <1>0, <1>2, <1>3
<1>6. ASSUME NEW u \in Backups PROVE \E i \in 1..N \ {at + 1} : slots'[i] = u
  <2>1. PICK i \in 1..N \ {at} : slots[i] = u
    BY <1>3
  <2>2. CASE i = at + 1
    BY <2>1, <2>2, <1>0, <1>2
  <2>3. CASE i # at + 1
    BY <2>1, <2>3, <1>2
  <2>. QED
    BY <2>2, <2>3
<1>7. Holds(1..N \ {checker.at}, Backups)'
  BY <1>1, <1>4, <1>5, <1>6 DEF Holds
<1>. QED
  BY <1>0, <1>1, <1>2, <1>7, UrlsFacts DEF ListInv

LEMMA ClearLastKeeps == ListInv /\ ClearLast => ListInv'
<1>. SUFFICES ASSUME ListInv, ClearLast PROVE ListInv'
  OBVIOUS
<1>0. /\ checker.pc = "moving" /\ len = N /\ len' = len /\ checker.at = N
      /\ slots \in [1..N -> Endpoints \cup {Blank}]
      /\ slots' = [slots EXCEPT ![N] = Blank]
      /\ Holds(1..N \ {N}, Backups)
      /\ 1..N \ {N} = 1..(N - 1)
  BY UrlsFacts DEF ClearLast, ListInv
<1>1. checker' = [pc |-> "cleared", at |-> N]
  BY <1>0 DEF ClearLast, ListInv
<1>2. (\A i \in 1..(N - 1) : slots'[i] = slots[i]) /\ slots' \in [1..N -> Endpoints \cup {Blank}]
  BY <1>0, UrlsFacts
<1>3. Holds(1..(N - 1), Backups)'
  BY <1>0, <1>2 DEF Holds
<1>. QED
  BY <1>0, <1>1, <1>2, <1>3, UrlsFacts DEF ListInv

LEMMA ShortenKeeps == ListInv /\ Shorten => ListInv'
  BY UrlsFacts DEF ListInv, Shorten, Holds

LEMMA ListStep == ListInv /\ [Next]_vars => ListInv'
<1>. SUFFICES ASSUME ListInv, [Next]_vars PROVE ListInv'
  OBVIOUS
<1>1. CASE CheckHealth
  BY <1>1, UrlsFacts DEF CheckHealth, ListInv, Holds, list
<1>2. CASE Restore
  BY <1>2, RestoreKeeps
<1>3. CASE RemovePrimary
  BY <1>3, FindPrimaryKeeps, MoveDownKeeps, ClearLastKeeps, ShortenKeeps DEF RemovePrimary
<1>4. CASE Stop
  BY <1>4, UrlsFacts DEF Stop, StoppedAs, ListInv, Holds, list
<1>5. CASE UNCHANGED <<list, checker>>
  BY <1>5 DEF ListInv, Holds, list
<1>6. CASE Close \/ Closed \/ Change
  BY <1>5, <1>6 DEF Close, Closed, Change
<1>7. ASSUME NEW r \in Requests, Begin(r) \/ Handle(r) PROVE ListInv'
  BY <1>5, <1>7 DEF Begin, Handle, Draw, Pick, Look, Get
<1>8. CASE UNCHANGED vars
  BY <1>5, <1>8 DEF vars, list
<1>. QED
  BY <1>1, <1>2, <1>3, <1>4, <1>6, <1>7, <1>8 DEF Next, Check

\* For any number of endpoints, between two checks no backup is missing from the
\* list or on it twice, although it is edited in place (checkAndRestore).
THEOREM ListStaysSound == Spec => []ListIsSound
<1>1. ListInv => ListIsSound
  BY UrlsFacts DEF ListInv, ListIsSound, Listed, Holds
<1>. QED
  BY <1>1, InitList, ListStep, PTL DEF Spec
===============================================================================
