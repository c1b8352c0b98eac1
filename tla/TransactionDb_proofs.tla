------------------------- MODULE TransactionDb_proofs -------------------------
(***************************************************************************)
(* What the store keeps and the panels show, for any number of tabs,       *)
(* records and reloads, and for any limits of the store and the panel.     *)
(***************************************************************************)
EXTENDS TransactionDb, FiniteSetTheorems, TLAPS

USE DEF vars

----------------------------------------------------------------------------
(* The newest of some ids *)

\* How many ids lie above one: as many as the distance to the last.
LEMMA IdsAbove ==
    ASSUME NEW i \in Nat, NEW n \in Nat, i <= n
    PROVE  IsFiniteSet(i + 1 .. n) /\ Cardinality(i + 1 .. n) = n - i
<1>1. CASE i = n
  <2>1. i + 1 .. n = {}
    BY <1>1
  <2> QED
    BY <1>1, <2>1, FS_EmptySet
<1>2. CASE i < n
  <2>1. i + 1 \in Int /\ n \in Int /\ i + 1 <= n /\ n - (i + 1) + 1 = n - i
    BY <1>2
  <2> QED
    BY <2>1, FS_Interval
<1> QED
  BY <1>1, <1>2

\* Of ids up to n that hold the last k and maybe more, the newest k are the last
\* k; of more than those, they are still among the newest.
LEMMA LastAreNewest ==
    ASSUME NEW n \in Nat, NEW k \in Nat \ {0}, NEW ids \in SUBSET (1 .. n),
           NEW i \in 1 .. n, i + k > n, i \in ids
    PROVE  i \in Newest(k, ids)
<1>1. {j \in ids : j > i} \subseteq i + 1 .. n
  <2> SUFFICES ASSUME NEW j \in ids, j > i PROVE j \in i + 1 .. n
    OBVIOUS
  <2>1. j \in 1 .. n
    OBVIOUS
  <2> QED
    BY <2>1
<1>2. IsFiniteSet(i + 1 .. n) /\ Cardinality(i + 1 .. n) = n - i
  BY IdsAbove
<1>3. Cardinality({j \in ids : j > i}) <= n - i /\ Cardinality({j \in ids : j > i}) \in Nat
  BY <1>1, <1>2, FS_Subset, FS_CardinalityType
<1>4. n - i < k
  OBVIOUS
<1>5. Cardinality({j \in ids : j > i}) < k
  BY <1>3, <1>4
<1> QED
  BY <1>5 DEF Newest

\* The first id of the last k up to n, less one.
Before(k, n) == IF n > k THEN n - k ELSE 0

LEMMA NewestAreLast ==
    ASSUME NEW n \in Nat, NEW k \in Nat \ {0}, NEW ids \in SUBSET (1 .. n),
           \A i \in 1 .. n : i + k > n => i \in ids
    PROVE  Newest(k, ids) = Before(k, n) + 1 .. n
<1>1. Before(k, n) \in Nat /\ Before(k, n) <= n
  BY DEF Before
<1>2. ASSUME NEW i \in Before(k, n) + 1 .. n
      PROVE  i \in Newest(k, ids)
  <2>1. i \in 1 .. n /\ i + k > n
    BY <1>1 DEF Before
  <2> QED
    BY <2>1, LastAreNewest
<1>3. ASSUME NEW i \in Newest(k, ids)
      PROVE  i \in Before(k, n) + 1 .. n
  <2>1. i \in 1 .. n /\ Cardinality({j \in ids : j > i}) < k
    BY DEF Newest
  <2> SUFFICES ASSUME i <= Before(k, n) PROVE FALSE
    BY <1>1, <2>1
  <2>2. n > k /\ Before(k, n) = n - k /\ i + k <= n
    BY <2>1 DEF Before
  <2>3. (n - k) + 1 .. n \subseteq {j \in ids : j > i}
    BY <2>1, <2>2
  <2>4. n - k \in Nat /\ n - k <= n /\ n - (n - k) = k
    BY <2>2
  <2>5. Cardinality((n - k) + 1 .. n) = k
    BY <2>4, IdsAbove
  <2>6. IsFiniteSet({j \in ids : j > i})
    <3>1. IsFiniteSet(1 .. n)
      BY FS_Interval
    <3>2. {j \in ids : j > i} \subseteq 1 .. n
      OBVIOUS
    <3> QED
      BY <3>1, <3>2, FS_Subset
  <2>7. k <= Cardinality({j \in ids : j > i}) /\ Cardinality({j \in ids : j > i}) \in Nat
    BY <2>3, <2>5, <2>6, FS_Subset, FS_CardinalityType
  <2> QED
    BY <2>1, <2>7
<1> QED
  BY <1>2, <1>3

\* The ids of an interval, the largest first.
LEMMA DescendingInterval ==
    ASSUME NEW a \in Nat, NEW n \in Nat, a <= n
    PROVE  Descending(a + 1 .. n) = [j \in 1 .. n - a |-> n + 1 - j]
<1> DEFINE ids == a + 1 .. n
<1>1. Cardinality(ids) = n - a
  BY IdsAbove
<1>2. ASSUME NEW i \in ids
      PROVE  Cardinality({k \in ids : k > i}) = n - i
  <2>1. {k \in ids : k > i} = i + 1 .. n /\ i \in Nat /\ i <= n
    OBVIOUS
  <2> QED
    BY <2>1, IdsAbove
<1>3. ASSUME NEW j \in 1 .. n - a
      PROVE  (CHOOSE i \in ids : Cardinality({k \in ids : k > i}) = j - 1) = n + 1 - j
  <2>1. n + 1 - j \in ids /\ n - (n + 1 - j) = j - 1
    OBVIOUS
  <2>2. Cardinality({k \in ids : k > n + 1 - j}) = j - 1
    BY <1>2, <2>1
  <2>3. ASSUME NEW i \in ids, Cardinality({k \in ids : k > i}) = j - 1
        PROVE  i = n + 1 - j
    <3>1. n - i = j - 1
      BY <1>2, <2>3
    <3> QED
      BY <3>1
  <2> HIDE DEF ids
  <2> QED
    BY <2>1, <2>2, <2>3
<1> HIDE DEF ids
<1>4. Descending(ids) = [j \in 1 .. n - a |-> n + 1 - j]
  BY <1>1, <1>3 DEF Descending
<1> QED
  BY <1>4 DEF ids

----------------------------------------------------------------------------
(* The store *)

StoreInv == lastId \in Nat /\ Stored \subseteq 1 .. lastId /\ NewestKept

LEMMA Sizes == MAX_TRANSACTIONS \in Nat \ {0} /\ Limit \in Nat \ {0} /\ Limit <= MAX_TRANSACTIONS
  BY SizesAssumption, LimitAssumption

\* A cleanup deletes none of the records that are to be kept.
LEMMA CleanupKeeps ==
    ASSUME StoreInv, NEW request, Cleanup(request)
    PROVE  StoreInv'
<1>1. Stored' = Kept(Stored) /\ lastId' = lastId
  BY DEF Cleanup, Stored
<1>2. \A i \in 1 .. lastId : i + MAX_TRANSACTIONS > lastId => i \in Kept(Stored)
  BY Sizes, LastAreNewest DEF StoreInv, NewestKept, Kept
<1>3. Kept(Stored) \subseteq Stored
  BY DEF Kept, Newest
<1> QED
  BY <1>1, <1>2, <1>3 DEF StoreInv, NewestKept

LEMMA AddKeeps ==
    ASSUME StoreInv, NEW request, Add(request)
    PROVE  StoreInv'
<1>1. Stored' = Stored \cup {lastId'} /\ lastId' = lastId + 1
  BY DEF Add, Stored
<1>2. lastId \in Nat /\ MAX_TRANSACTIONS \in Nat
  BY Sizes DEF StoreInv
<1>3. lastId' \in Nat /\ Stored' \subseteq 1 .. lastId'
  BY <1>1, <1>2 DEF StoreInv
<1>4. ASSUME NEW i \in 1 .. lastId', i + MAX_TRANSACTIONS > lastId'
      PROVE  i \in Stored'
  <2>1. i = lastId' \/ (i \in 1 .. lastId /\ i + MAX_TRANSACTIONS > lastId)
    BY <1>1, <1>2, <1>4
  <2> QED
    BY <1>1, <2>1 DEF StoreInv, NewestKept
<1> QED
  BY <1>3, <1>4 DEF StoreInv, NewestKept

\* Every other step leaves the stored ids alone.
LEMMA OthersKeepStore ==
    ASSUME StoreInv, [Next]_vars, \A request : ~Cleanup(request) /\ ~Add(request)
    PROVE  StoreInv'
<1>1. Stored' = Stored /\ lastId' = lastId
  BY DEF Next, OpenWriter, Begin, Report, OpenPanel, Refresh, Reload, RunHead, Put, NotFound,
         Load, Stored
<1> QED
  BY <1>1 DEF StoreInv, NewestKept

LEMMA StoreStays ==
    ASSUME StoreInv, [Next]_vars
    PROVE  StoreInv'
  BY CleanupKeeps, AddKeeps, OthersKeepStore

LEMMA StoreStarts ==
    ASSUME Init
    PROVE  StoreInv
  BY DEF Init, StoreInv, NewestKept, Stored

\* However many tabs open, clean up and write at once, the last records added
\* are in the store, as many as it is to keep.
THEOREM NewestAreKept == Spec => []NewestKept
<1>1. StoreInv => NewestKept
  BY DEF StoreInv
<1> QED
  BY <1>1, StoreStarts, StoreStays, PTL DEF Spec

----------------------------------------------------------------------------
(* The panels *)

Panels == [open : BOOLEAN, loading : BOOLEAN, shown : Seq(Nat), upTo : Nat]

PanelType == panel \in [Tabs -> Panels]

\* The latest ids of the moment n, the newest first.
Latest(n) == [j \in 1 .. n - Before(Limit, n) |-> n + 1 - j]

LEMMA LatestType ==
    ASSUME NEW n \in Nat
    PROVE  Latest(n) \in Seq(Nat)
<1>1. Before(Limit, n) \in Nat /\ Before(Limit, n) <= n
  BY Sizes DEF Before
<1>2. \A j \in 1 .. n - Before(Limit, n) : n + 1 - j \in Nat
  BY <1>1
<1>3. n - Before(Limit, n) \in Nat
  BY <1>1
<1> QED
  BY <1>2, <1>3 DEF Latest

\* What a load answers with, whatever the store holds beyond the latest.
LEMMA LoadAnswers ==
    ASSUME StoreInv
    PROVE  Descending(Loaded) = Latest(lastId)
<1>1. lastId \in Nat /\ Stored \in SUBSET (1 .. lastId) /\ Limit \in Nat \ {0}
  BY Sizes DEF StoreInv
<1>2. ASSUME NEW i \in 1 .. lastId, i + Limit > lastId
      PROVE  i \in Stored
  <2>1. i + MAX_TRANSACTIONS > lastId
    BY <1>1, <1>2, Sizes
  <2> QED
    BY <2>1 DEF StoreInv, NewestKept
<1>3. Loaded = Before(Limit, lastId) + 1 .. lastId
  BY <1>1, <1>2, NewestAreLast DEF Loaded
<1>4. Before(Limit, lastId) \in Nat /\ Before(Limit, lastId) <= lastId
  BY <1>1 DEF Before
<1> QED
  BY <1>1, <1>3, <1>4, DescendingInterval DEF Latest

\* The property, in the terms of the lemmas.
LEMMA ShowsLatest ==
    PanelShowsLatest <=> \A t \in Tabs : panel[t].shown = Latest(panel[t].upTo)
  BY DEF PanelShowsLatest, Latest, Before

LEMMA NothingIsLatest == Latest(0) = <<>>
<1>1. Before(Limit, 0) = 0
  BY Sizes DEF Before
<1>2. 1 .. 0 - Before(Limit, 0) = {}
  BY <1>1
<1> QED
  BY <1>2 DEF Latest

PanelInv == PanelType /\ \A t \in Tabs : panel[t].shown = Latest(panel[t].upTo)

LEMMA PanelStarts ==
    ASSUME Init
    PROVE  PanelInv
<1>1. panel \in [Tabs -> Panels] /\ \A t \in Tabs : panel[t].shown = <<>> /\ panel[t].upTo = 0
  BY DEF Init, NoPanel, Panels
<1> QED
  BY <1>1, NothingIsLatest DEF PanelInv, PanelType

\* A panel that is given anew shows nothing or what was just loaded.
LEMMA GivenPanel ==
    ASSUME PanelInv, NEW t, NEW p \in Panels, p.shown = Latest(p.upTo),
           panel' = [panel EXCEPT ![t] = p]
    PROVE  PanelInv'
<1>1. panel' \in [Tabs -> Panels] /\ \A u \in Tabs : panel'[u] = IF u = t THEN p ELSE panel[u]
  BY DEF PanelInv, PanelType
<1>2. \A u \in Tabs : panel'[u].shown = Latest(panel'[u].upTo)
  BY <1>1 DEF PanelInv
<1> QED
  BY <1>1, <1>2 DEF PanelInv, PanelType, Latest, Before

LEMMA PanelStays ==
    ASSUME StoreInv, PanelInv, [Next]_vars
    PROVE  PanelInv'
<1>1. CASE UNCHANGED panel
  BY <1>1 DEF PanelInv, PanelType, Latest, Before
<1>2. ASSUME NEW t \in Tabs, OpenPanel(t) \/ Refresh(t)
      PROVE  PanelInv'
  <2>1. PICK p \in Panels : /\ panel' = [panel EXCEPT ![t] = p]
                            /\ p.shown = panel[t].shown /\ p.upTo = panel[t].upTo
    <3>1. panel[t] \in Panels
      BY DEF PanelInv, PanelType
    <3>2. CASE OpenPanel(t)
      <4>1. panel' = [panel EXCEPT ![t] = [panel[t] EXCEPT !.open = TRUE]]
        BY <3>2 DEF OpenPanel
      <4> QED
        BY <3>1, <4>1 DEF Panels
    <3>3. CASE Refresh(t)
      <4>1. panel' = [panel EXCEPT ![t] = [panel[t] EXCEPT !.loading = TRUE]]
        BY <3>3 DEF Refresh
      <4> QED
        BY <3>1, <4>1 DEF Panels
    <3> QED
      BY <1>2, <3>2, <3>3
  <2>2. p.shown = Latest(p.upTo)
    BY <2>1 DEF PanelInv
  <2> QED
    BY <2>1, <2>2, GivenPanel
<1>3. ASSUME NEW t \in Tabs, Reload(t)
      PROVE  PanelInv'
  <2>1. NoPanel \in Panels /\ NoPanel.shown = <<>> /\ NoPanel.upTo = 0
    BY DEF NoPanel, Panels
  <2>2. panel' = [panel EXCEPT ![t] = NoPanel]
    BY <1>3 DEF Reload
  <2> QED
    BY <2>1, <2>2, NothingIsLatest, GivenPanel
<1>4. ASSUME NEW request, Load(request)
      PROVE  PanelInv'
  <2> DEFINE p == [open |-> TRUE, loading |-> FALSE, shown |-> Descending(Loaded), upTo |-> lastId]
  <2>1. p.shown = Latest(p.upTo) /\ p.upTo = lastId /\ lastId \in Nat
    BY LoadAnswers DEF StoreInv
  <2>2. p \in Panels
    BY <2>1, LatestType DEF Panels
  <2>3. panel' = [panel EXCEPT ![request.by] = p]
    BY <1>4 DEF Load
  <2> HIDE DEF p
  <2> QED
    BY <2>1, <2>2, <2>3, GivenPanel
<1>5. CASE \E t \in Tabs : OpenWriter(t) \/ Begin(t) \/ Report(t)
  <2>1. UNCHANGED panel
    BY <1>5 DEF OpenWriter, Begin, Report
  <2> QED
    BY <1>1, <2>1
<1>6. CASE \E request : Cleanup(request) \/ Add(request) \/ Put(request) \/ NotFound(request)
  <2>1. UNCHANGED panel
    BY <1>6 DEF Cleanup, Add, Put, NotFound
  <2> QED
    BY <1>1, <2>1
<1> QED
  BY <1>1, <1>2, <1>3, <1>4, <1>5, <1>6 DEF Next, RunHead

\* What any panel shows are the latest transfers of the moment it loaded, the
\* newest first and none left out, whatever the other tabs add, clean up or
\* abandon, for any limits of the panel within those of the store.
THEOREM PanelsShowLatest == Spec => []PanelShowsLatest
<1>1. PanelInv => PanelShowsLatest
  BY ShowsLatest DEF PanelInv
<1>2. StoreInv /\ PanelInv /\ [Next]_vars => (StoreInv /\ PanelInv)'
  BY StoreStays, PanelStays
<1>3. Init => StoreInv /\ PanelInv
  BY StoreStarts, PanelStarts
<1> QED
  BY <1>1, <1>2, <1>3, PTL DEF Spec

==============================================================================
