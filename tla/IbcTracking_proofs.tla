-------------------------- MODULE IbcTracking_proofs --------------------------
(***************************************************************************)
(* What following a transfer promises, for any number of transfers, hops   *)
(* and attempts.                                                           *)
(***************************************************************************)
EXTENDS IbcTracking, TLAPS

USE DEF chains, tracker, vars

----------------------------------------------------------------------------
(* The inductive invariant *)

\* What a relayer's transaction received has come as far as its chain.
ReceivedFits ==
    /\ at \in [Transfers -> 0 .. Hops]
    /\ DOMAIN relayed = 1 .. Hops
    /\ \A k \in 1 .. Hops : \A tx \in relayed[k] :
        /\ 1 \in DOMAIN tx.recv
        /\ \A i \in DOMAIN tx.recv :
            \E x \in Transfers : tx.recv[i] = <<x, k>> /\ at[x] >= k

\* Our packet received alone: the transaction was sent on as ours alone, or our
\* transfer ends where it was received.
SentFits ==
    \A k \in 1 .. Hops : \A tx \in relayed[k] :
        k < Hops /\ Len(tx.recv) = 1 /\ tx.recv[1] = <<Ours, k>> =>
            \/ DOMAIN tx.sends = {1} /\ tx.sends[1] = <<Ours, k + 1>>
            \/ DOMAIN tx.sends = {} /\ Ours \in rejected /\ at[Ours] = k

\* What the tracker looks for, by where it stands.
LooksForOurs ==
    /\ pc \in {"source", "polling", "success", "failed"}
    /\ pc = "source"  => packet = Null /\ hop = 0
    /\ pc = "polling" => packet = <<Ours, hop + 1>>
    /\ pc = "success" => hop = Hops /\ packet[1] = Ours
    /\ pc = "failed" /\ packet # Null =>
        \/ packet = <<Ours, hop + 1>>
        \/ packet = <<Ours, hop>> /\ Ours \in rejected /\ at[Ours] = hop

\* The tracker is behind the transfer.
StaysBehind ==
    /\ hop \in 0 .. Hops /\ bar \in 0 .. Hops + 1
    /\ hop <= at[Ours]
    /\ bar <= hop \/ pc = "success"
    /\ pc = "polling" => hop < Hops

TrackerFits == Alone => LooksForOurs /\ StaysBehind

Inv == ReceivedFits /\ SentFits /\ TrackerFits

----------------------------------------------------------------------------
(* Relayers *)

\* A relayer's step: the batch with its packets.
Relays ==
    \E k \in 1 .. Hops : \E batch \in Batches(InFlight(k)), early \in BOOLEAN :
        \E errors \in SUBSET {batch[i] : i \in DOMAIN batch} : Relay(k, batch, errors, early)

\* A transaction receives at least one packet, and packets that are in flight.
LEMMA BatchIsInFlight ==
    ASSUME NEW k \in 1 .. Hops, NEW batch \in Batches(InFlight(k))
    PROVE  /\ batch \in Seq(InFlight(k)) /\ 1 \in DOMAIN batch
           /\ \A i \in DOMAIN batch :
               \E x \in Transfers \ rejected : batch[i] = <<x, k>> /\ at[x] + 1 = k
<1>1. PICK n \in 1 .. Cardinality(InFlight(k)) : batch \in [1 .. n -> InFlight(k)]
  BY DEF Batches
<1>2. n \in Nat /\ n >= 1
  BY <1>1
<1>3. batch \in Seq(InFlight(k)) /\ 1 \in DOMAIN batch
  BY <1>1, <1>2
<1>4. \A i \in DOMAIN batch : batch[i] \in InFlight(k)
  BY <1>1
<1> QED
  BY <1>3, <1>4 DEF InFlight

\* What a relayer does to a transaction that is there already is nothing, and
\* relayers who carried our packet with others before the step did so after it.
LEMMA RelayedStay ==
    ASSUME ReceivedFits, Relays
    PROVE  /\ DOMAIN relayed' = 1 .. Hops
           /\ \A k \in 1 .. Hops : relayed[k] \subseteq relayed'[k]
           /\ Alone' => Alone
<1>1. PICK k \in 1 .. Hops : \E batch \in Batches(InFlight(k)), early \in BOOLEAN :
        \E errors \in SUBSET {batch[i] : i \in DOMAIN batch} : Relay(k, batch, errors, early)
  BY DEF Relays
<1>2. PICK tx : relayed' = [relayed EXCEPT ![k] = @ \cup {tx}]
  BY <1>1 DEF Relay
<1>3. DOMAIN relayed' = 1 .. Hops /\ \A j \in 1 .. Hops : relayed[j] \subseteq relayed'[j]
  BY <1>2 DEF ReceivedFits
<1> QED
  BY <1>3 DEF Alone

LEMMA RelayKeepsReceived ==
    ASSUME ReceivedFits, Relays
    PROVE  ReceivedFits'
<1>1. PICK k \in 1 .. Hops : \E batch \in Batches(InFlight(k)), early \in BOOLEAN :
        \E errors \in SUBSET {batch[i] : i \in DOMAIN batch} : Relay(k, batch, errors, early)
  BY DEF Relays
<1>2. PICK batch \in Batches(InFlight(k)), early \in BOOLEAN :
        \E errors \in SUBSET {batch[i] : i \in DOMAIN batch} : Relay(k, batch, errors, early)
  BY <1>1
<1>3. PICK errors \in SUBSET {batch[i] : i \in DOMAIN batch} : Relay(k, batch, errors, early)
  BY <1>2
<1> DEFINE packets == {batch[i] : i \in DOMAIN batch}
<1>4. at' = [x \in Transfers |-> IF <<x, k>> \in packets THEN k ELSE at[x]]
  BY <1>3 DEF Relay
<1>5. \A i \in DOMAIN batch : \E x \in Transfers : batch[i] = <<x, k>> /\ at[x] + 1 = k
  BY BatchIsInFlight
<1>6. Hops \in Nat /\ k \in 1 .. Hops
  BY PathAssumption
<1>7. at' \in [Transfers -> 0 .. Hops]
  BY <1>4, <1>6 DEF ReceivedFits
<1>8. \A x \in Transfers : at'[x] >= at[x]
  <2> SUFFICES ASSUME NEW x \in Transfers PROVE at'[x] >= at[x]
    OBVIOUS
  <2>1. at[x] \in Nat
    BY PathAssumption DEF ReceivedFits
  <2>2. CASE <<x, k>> \in packets
    <3>1. PICK i \in DOMAIN batch : batch[i] = <<x, k>>
      BY <2>2
    <3>2. at[x] + 1 = k
      BY <1>5, <3>1
    <3> QED
      BY <1>4, <1>6, <2>1, <2>2, <3>2
  <2>3. CASE <<x, k>> \notin packets
    BY <1>4, <2>1, <2>3
  <2> QED
    BY <2>2, <2>3
<1>9. PICK tx : tx.recv = batch /\ relayed' = [relayed EXCEPT ![k] = @ \cup {tx}]
  BY <1>3 DEF Relay
<1>10. ASSUME NEW j \in 1 .. Hops, NEW t \in relayed'[j]
       PROVE  /\ 1 \in DOMAIN t.recv
              /\ \A i \in DOMAIN t.recv :
                  \E x \in Transfers : t.recv[i] = <<x, j>> /\ at'[x] >= j
  <2>1. t \in relayed[j] \/ (t = tx /\ j = k)
    BY <1>9 DEF ReceivedFits
  <2>2. CASE t \in relayed[j]
    <3>1. 1 \in DOMAIN t.recv
      BY <2>2 DEF ReceivedFits
    <3> SUFFICES ASSUME NEW i \in DOMAIN t.recv
                 PROVE  \E x \in Transfers : t.recv[i] = <<x, j>> /\ at'[x] >= j
      BY <3>1
    <3>2. PICK x \in Transfers : t.recv[i] = <<x, j>> /\ at[x] >= j
      BY <2>2 DEF ReceivedFits
    <3>3. at[x] \in Nat /\ at'[x] \in Nat /\ j \in Nat /\ at'[x] >= at[x]
      BY <1>6, <1>7, <1>8 DEF ReceivedFits
    <3>4. at'[x] >= j
      BY <3>2, <3>3
    <3> QED
      BY <3>2, <3>4
  <2>3. CASE t = tx /\ j = k
    <3>1. 1 \in DOMAIN t.recv /\ t.recv = batch
      BY <1>9, <2>3, BatchIsInFlight
    <3> SUFFICES ASSUME NEW i \in DOMAIN batch
                 PROVE  \E x \in Transfers : batch[i] = <<x, k>> /\ at'[x] >= k
      BY <2>3, <3>1
    <3>2. PICK x \in Transfers : batch[i] = <<x, k>>
      BY <1>5
    <3>3. at'[x] = k
      BY <1>4, <3>2
    <3> QED
      BY <1>6, <3>2, <3>3
  <2> QED
    BY <2>1, <2>2, <2>3
<1> QED
  BY <1>7, <1>10, RelayedStay DEF ReceivedFits

\* Our packet, received alone by a transaction, is the only one it sends on; and
\* a transfer that was rejected goes no further.
LEMMA RelayKeepsSent ==
    ASSUME ReceivedFits, SentFits, Relays
    PROVE  SentFits'
<1>1. PICK k \in 1 .. Hops : \E batch \in Batches(InFlight(k)), early \in BOOLEAN :
        \E errors \in SUBSET {batch[i] : i \in DOMAIN batch} : Relay(k, batch, errors, early)
  BY DEF Relays
<1>2. PICK batch \in Batches(InFlight(k)), early \in BOOLEAN :
        \E errors \in SUBSET {batch[i] : i \in DOMAIN batch} : Relay(k, batch, errors, early)
  BY <1>1
<1>3. PICK errors \in SUBSET {batch[i] : i \in DOMAIN batch} : Relay(k, batch, errors, early)
  BY <1>2
<1> DEFINE packets == {batch[i] : i \in DOMAIN batch}
           passed == {i \in DOMAIN batch : k < Hops /\ batch[i] \notin errors}
           tx == [recv |-> batch, sends |-> [i \in passed |-> <<batch[i][1], k + 1>>],
                  early |-> early]
<1>4. /\ at' = [x \in Transfers |-> IF <<x, k>> \in packets THEN k ELSE at[x]]
      /\ rejected' = rejected \cup {p[1] : p \in errors}
      /\ relayed' = [relayed EXCEPT ![k] = @ \cup {tx}]
  BY <1>3 DEF Relay
<1>5. \A i \in DOMAIN batch :
        \E x \in Transfers \ rejected : batch[i] = <<x, k>> /\ at[x] + 1 = k
  BY BatchIsInFlight
<1>6. Ours \in rejected => at'[Ours] = at[Ours] /\ Ours \in rejected'
  <2> SUFFICES ASSUME Ours \in rejected PROVE at'[Ours] = at[Ours]
    BY <1>4
  <2>1. <<Ours, k>> \notin packets
    BY <1>5
  <2> QED
    BY <1>4, <2>1, OursAssumption
<1> SUFFICES ASSUME NEW j \in 1 .. Hops, NEW t \in relayed'[j],
                    j < Hops, Len(t.recv) = 1, t.recv[1] = <<Ours, j>>
             PROVE  \/ DOMAIN t.sends = {1} /\ t.sends[1] = <<Ours, j + 1>>
                    \/ DOMAIN t.sends = {} /\ Ours \in rejected' /\ at'[Ours] = j
  BY DEF SentFits
<1>7. t \in relayed[j] \/ (t = tx /\ j = k)
  BY <1>4 DEF ReceivedFits
<1>8. CASE t \in relayed[j]
  BY <1>6, <1>8 DEF SentFits
<1>9. CASE t = tx /\ j = k
  <2>1. batch \in Seq(InFlight(k)) /\ Len(batch) = 1 /\ batch[1] = <<Ours, k>> /\ k < Hops
    BY <1>9, BatchIsInFlight
  <2>2. DOMAIN batch = {1}
    BY <2>1
  <2>3. CASE <<Ours, k>> \notin errors
    <3>1. passed = {1}
      BY <2>1, <2>2, <2>3
    <3>2. DOMAIN t.sends = {1} /\ t.sends[1] = <<batch[1][1], k + 1>>
      BY <1>9, <3>1
    <3> QED
      BY <1>9, <2>1, <3>2
  <2>4. CASE <<Ours, k>> \in errors
    <3>1. passed = {}
      BY <2>1, <2>2, <2>4
    <3>2. DOMAIN t.sends = {}
      BY <1>9, <3>1
    <3>3. <<Ours, k>>[1] \in {p[1] : p \in errors}
      BY <2>4
    <3>4. <<Ours, k>> \in packets
      BY <2>1, <2>2
    <3> QED
      BY <1>4, <1>9, <3>2, <3>3, <3>4, OursAssumption
  <2> QED
    BY <2>3, <2>4
<1> QED
  BY <1>7, <1>8, <1>9

\* A relayer's step leaves the tracker where it was, and only moves transfers on.
LEMMA RelayKeepsTracker ==
    ASSUME Inv, Relays
    PROVE  TrackerFits'
<1> SUFFICES ASSUME Alone' PROVE LooksForOurs' /\ StaysBehind'
  BY DEF TrackerFits
<1>1. LooksForOurs /\ StaysBehind
  BY RelayedStay DEF Inv, TrackerFits
<1>2. UNCHANGED tracker
  BY DEF Relays, Relay
<1>3. at'[Ours] >= at[Ours] /\ (Ours \in rejected => Ours \in rejected' /\ at'[Ours] = at[Ours])
  <2>1. PICK k \in 1 .. Hops : \E batch \in Batches(InFlight(k)), early \in BOOLEAN :
          \E errors \in SUBSET {batch[i] : i \in DOMAIN batch} : Relay(k, batch, errors, early)
    BY DEF Relays
  <2>2. PICK batch \in Batches(InFlight(k)), early \in BOOLEAN :
          \E errors \in SUBSET {batch[i] : i \in DOMAIN batch} : Relay(k, batch, errors, early)
    BY <2>1
  <2> DEFINE packets == {batch[i] : i \in DOMAIN batch}
  <2>3. /\ at' = [x \in Transfers |-> IF <<x, k>> \in packets THEN k ELSE at[x]]
        /\ rejected \subseteq rejected'
    BY <2>2 DEF Relay
  <2>4. \A i \in DOMAIN batch :
          \E x \in Transfers \ rejected : batch[i] = <<x, k>> /\ at[x] + 1 = k
    BY BatchIsInFlight
  <2>5. at[Ours] \in Nat /\ k \in Nat
    BY OursAssumption, PathAssumption DEF Inv, ReceivedFits
  <2>6. CASE <<Ours, k>> \in packets
    <3>1. PICK i \in DOMAIN batch : batch[i] = <<Ours, k>>
      BY <2>6
    <3>2. Ours \notin rejected /\ at[Ours] + 1 = k
      BY <2>4, <3>1
    <3>3. at'[Ours] = k
      BY <2>3, <2>6, OursAssumption
    <3> QED
      BY <2>5, <3>2, <3>3
  <2>7. CASE <<Ours, k>> \notin packets
    <3>1. at'[Ours] = at[Ours]
      BY <2>3, <2>7, OursAssumption
    <3> QED
      BY <2>3, <2>5, <3>1
  <2> QED
    BY <2>6, <2>7
<1>4. at[Ours] \in Nat /\ at'[Ours] \in Nat /\ hop \in Nat
  BY <1>1, RelayKeepsReceived, OursAssumption, PathAssumption DEF Inv, ReceivedFits, StaysBehind
<1>5. LooksForOurs'
  BY <1>1, <1>2, <1>3 DEF LooksForOurs
<1>6. StaysBehind'
  BY <1>1, <1>2, <1>3, <1>4 DEF StaysBehind
<1> QED
  BY <1>5, <1>6

----------------------------------------------------------------------------
(* The tracker *)

\* A step of the tracker changes nothing on the chains.
LEMMA TrackKeepsChains ==
    ASSUME Track
    PROVE  UNCHANGED chains
BY DEF Track, SourceFound, SourceMissing, TimesOut, NotConfirmed, Confirmed

\* While our packets travel alone, a transaction that the tracker's query finds
\* received our packet and nothing else.
LEMMA FoundIsOurs ==
    ASSUME Inv, Alone, pc = "polling", NEW tx \in Found(hop + 1)
    PROVE  /\ hop + 1 \in 1 .. Hops /\ at[Ours] >= hop + 1
           /\ hop + 1 < Hops =>
               \/ Forwarded(tx) = <<Ours, hop + 2>>
               \/ Forwarded(tx) = Null /\ Ours \in rejected /\ at[Ours] = hop + 1
<1>1. LooksForOurs /\ StaysBehind
  BY DEF Inv, TrackerFits
<1>2. hop \in Nat /\ hop + 1 \in 1 .. Hops /\ packet = <<Ours, hop + 1>>
  BY <1>1, PathAssumption DEF LooksForOurs, StaysBehind
<1>3. tx \in relayed[hop + 1] /\ tx.recv[1] = <<Ours, hop + 1>>
  BY <1>2 DEF Found, Matches
<1>4. 1 \in DOMAIN tx.recv
  BY <1>2, <1>3 DEF Inv, ReceivedFits
<1>5. Len(tx.recv) = 1
  BY <1>2, <1>3, <1>4 DEF Alone
<1>6. PICK x \in Transfers : tx.recv[1] = <<x, hop + 1>> /\ at[x] >= hop + 1
  BY <1>2, <1>3, <1>4 DEF Inv, ReceivedFits
<1>7. at[Ours] >= hop + 1
  BY <1>3, <1>6
<1>8. ASSUME hop + 1 < Hops
      PROVE  \/ Forwarded(tx) = <<Ours, hop + 2>>
             \/ Forwarded(tx) = Null /\ Ours \in rejected /\ at[Ours] = hop + 1
  <2>1. \/ DOMAIN tx.sends = {1} /\ tx.sends[1] = <<Ours, (hop + 1) + 1>>
        \/ DOMAIN tx.sends = {} /\ Ours \in rejected /\ at[Ours] = hop + 1
    BY <1>2, <1>3, <1>5, <1>8 DEF Inv, SentFits
  <2>2. CASE DOMAIN tx.sends = {1} /\ tx.sends[1] = <<Ours, (hop + 1) + 1>>
    <3>1. (CHOOSE i \in DOMAIN tx.sends : \A j \in DOMAIN tx.sends : i <= j) = 1
      BY <2>2
    <3>2. Forwarded(tx) = tx.sends[1]
      BY <2>2, <3>1 DEF Forwarded
    <3>3. (hop + 1) + 1 = hop + 2
      BY <1>2
    <3> QED
      BY <2>2, <3>2, <3>3
  <2>3. CASE DOMAIN tx.sends = {} /\ Ours \in rejected /\ at[Ours] = hop + 1
    BY <2>3 DEF Forwarded
  <2> QED
    BY <2>1, <2>2, <2>3
<1> QED
  BY <1>2, <1>7, <1>8

LEMMA TrackKeepsTracker ==
    ASSUME Inv, Track
    PROVE  TrackerFits'
<1>1. UNCHANGED chains
  BY TrackKeepsChains
<1> SUFFICES ASSUME Alone PROVE LooksForOurs' /\ StaysBehind'
  BY <1>1 DEF TrackerFits, Alone
<1>2. LooksForOurs /\ StaysBehind
  BY DEF Inv, TrackerFits
<1>3. /\ Hops \in Nat /\ Hops >= 1 /\ hop \in Nat /\ hop <= Hops /\ bar \in Nat
      /\ bar <= Hops + 1 /\ at[Ours] \in Nat
  BY <1>2, OursAssumption, PathAssumption DEF Inv, ReceivedFits, StaysBehind
<1>4. CASE SourceFound
  <2>1. pc = "source" /\ hop = 0 /\ bar <= hop /\ UNCHANGED bar
    BY <1>2, <1>4 DEF SourceFound, LooksForOurs, StaysBehind
  <2>2. pc' \in {"polling", "failed"} /\ packet' = <<Ours, 1>> /\ hop' = 0
    BY <1>4 DEF SourceFound, PollsOrFails, Polls
  <2>3. LooksForOurs'
    BY <2>2 DEF LooksForOurs
  <2>4. StaysBehind'
    BY <1>1, <1>3, <2>1, <2>2 DEF StaysBehind
  <2> QED
    BY <2>3, <2>4
<1>5. CASE SourceMissing \/ TimesOut \/ NotConfirmed
  <2>1. /\ pc' \in {pc, "failed"} /\ pc \in {"source", "polling"}
        /\ UNCHANGED <<packet, hop, bar>>
    BY <1>5 DEF SourceMissing, TimesOut, NotConfirmed, Fails
  <2>2. LooksForOurs'
    BY <1>2, <2>1 DEF LooksForOurs
  <2>3. StaysBehind'
    BY <1>1, <1>2, <1>3, <2>1 DEF StaysBehind
  <2> QED
    BY <2>2, <2>3
<1>6. CASE Confirmed
  <2>1. pc = "polling" /\ hop < Hops /\ bar <= hop
    BY <1>2, <1>6 DEF Confirmed, StaysBehind
  <2>2. packet = <<Ours, hop + 1>>
    BY <1>2, <2>1 DEF LooksForOurs
  <2>3. PICK tx \in Found(hop + 1) :
          IF hop + 1 = Hops
          THEN /\ pc' = "success" /\ hop' = hop + 1
               /\ bar' = IF Multi THEN Hops + 1 ELSE bar
               /\ UNCHANGED <<packet, attempts>>
          ELSE /\ bar' = Completed(hop + 1)
               /\ IF Forwarded(tx) = Null
                  THEN pc' = "failed" /\ hop' = hop + 1 /\ UNCHANGED <<packet, attempts>>
                  ELSE PollsOrFails(Forwarded(tx), hop + 1)
    BY <1>6 DEF Confirmed
  <2>4. /\ at[Ours] >= hop + 1
        /\ hop + 1 < Hops =>
            \/ Forwarded(tx) = <<Ours, hop + 2>>
            \/ Forwarded(tx) = Null /\ Ours \in rejected /\ at[Ours] = hop + 1
    BY <2>1, FoundIsOurs
  <2>5. CASE hop + 1 = Hops
    <3>1. /\ pc' = "success" /\ hop' = hop + 1 /\ bar' \in {Hops + 1, bar}
          /\ UNCHANGED packet
      BY <2>3, <2>5
    <3>2. LooksForOurs'
      BY <2>2, <2>5, <3>1 DEF LooksForOurs
    <3>3. StaysBehind'
      BY <1>1, <1>3, <2>4, <2>5, <3>1 DEF StaysBehind
    <3> QED
      BY <3>2, <3>3
  <2>6. CASE hop + 1 # Hops /\ Forwarded(tx) = Null
    <3>1. /\ pc' = "failed" /\ hop' = hop + 1 /\ bar' = hop + 1 /\ UNCHANGED packet
      BY <2>3, <2>6 DEF Completed
    <3>2. hop + 1 < Hops
      BY <1>3, <2>1, <2>6
    <3>3. Forwarded(tx) # <<Ours, hop + 2>>
      BY <1>3, <2>6, OursAssumption, NullAssumption
    <3>4. Ours \in rejected /\ at[Ours] = hop + 1
      BY <2>4, <3>2, <3>3
    <3>5. LooksForOurs'
      BY <1>1, <2>2, <3>1, <3>4 DEF LooksForOurs
    <3>6. StaysBehind'
      BY <1>1, <1>3, <2>4, <3>1, <3>2 DEF StaysBehind
    <3> QED
      BY <3>5, <3>6
  <2>7. CASE hop + 1 # Hops /\ Forwarded(tx) # Null
    <3>1. hop + 1 < Hops /\ (hop + 1) + 1 = hop + 2
      BY <1>3, <2>1, <2>7
    <3>2. Forwarded(tx) = <<Ours, hop + 2>>
      BY <2>4, <2>7, <3>1
    <3>3. /\ pc' \in {"polling", "failed"} /\ packet' = Forwarded(tx)
          /\ hop' = hop + 1 /\ bar' = hop + 1
      BY <2>3, <2>7 DEF PollsOrFails, Polls, Completed
    <3>4. LooksForOurs'
      BY <3>1, <3>2, <3>3 DEF LooksForOurs
    <3>5. StaysBehind'
      BY <1>1, <1>3, <2>4, <3>1, <3>3 DEF StaysBehind
    <3> QED
      BY <3>4, <3>5
  <2> QED
    BY <2>5, <2>6, <2>7
<1> QED
  BY <1>4, <1>5, <1>6 DEF Track

----------------------------------------------------------------------------
(* The theorems *)

\* The invariant holds at the start.
LEMMA InitFits ==
    ASSUME Init
    PROVE  Inv
<1>1. Hops \in Nat /\ Ours \in Transfers
  BY OursAssumption, PathAssumption
<1>2. ReceivedFits /\ SentFits
  BY <1>1 DEF Init, ReceivedFits, SentFits
<1>3. LooksForOurs /\ StaysBehind
  BY <1>1 DEF Init, LooksForOurs, StaysBehind
<1> QED
  BY <1>2, <1>3 DEF Inv, TrackerFits

\* Every step keeps it.
LEMMA StepKeepsInv ==
    ASSUME Inv, [Next]_vars
    PROVE  Inv'
<1>1. CASE Relays
  BY <1>1, RelayKeepsReceived, RelayKeepsSent, RelayKeepsTracker DEF Inv
<1>2. CASE Track
  <2>1. UNCHANGED chains
    BY <1>2, TrackKeepsChains
  <2>2. ReceivedFits' /\ SentFits'
    BY <2>1 DEF Inv, ReceivedFits, SentFits
  <2> QED
    BY <1>2, <2>2, TrackKeepsTracker DEF Inv
<1>3. CASE UNCHANGED vars
  BY <1>3 DEF Inv, ReceivedFits, SentFits, TrackerFits, LooksForOurs, StaysBehind, Alone
<1> QED
  BY <1>1, <1>2, <1>3 DEF Next, Relays

\* As long as relayers carry our packets alone, the tracker looks for our packet
\* and confirms no hop our transfer has not made, whatever else crosses the same
\* channels and however long the path is.
THEOREM TrackerFollowsOurs == Spec => []FollowsOurs
<1>1. Inv => FollowsOurs
  <2> SUFFICES ASSUME Inv, Alone PROVE FollowsOurs
    BY DEF FollowsOurs
  <2>1. LooksForOurs /\ StaysBehind
    BY DEF Inv, TrackerFits
  <2>2. packet # Null => packet[1] = Ours
    BY <2>1 DEF LooksForOurs
  <2>3. hop <= at[Ours] /\ bar <= at[Ours] + 1 /\ (bar <= hop \/ pc = "success")
    <3>1. hop \in Nat /\ bar \in Nat /\ at[Ours] \in Nat /\ bar <= Hops + 1 /\ Hops \in Nat
      BY <2>1, OursAssumption, PathAssumption DEF Inv, ReceivedFits, StaysBehind
    <3>2. pc = "success" => hop = Hops
      BY <2>1 DEF LooksForOurs
    <3> QED
      BY <2>1, <3>1, <3>2 DEF StaysBehind
  <2> QED
    BY <2>2, <2>3 DEF FollowsOurs
<1> QED
  BY <1>1, InitFits, StepKeepsInv, PTL DEF Spec

\* As long as they do, a tracker that stops between two hops for want of a
\* forwarded packet stops where our packet was answered by an error.
THEOREM StopsAreRejections == Spec => []StopsWhereRejected
<1>1. Inv => StopsWhereRejected
  <2> SUFFICES ASSUME Inv, Alone, pc = "failed", packet # Null, packet[2] = hop
               PROVE  Ours \in rejected /\ at[Ours] = hop
    BY DEF StopsWhereRejected
  <2>1. LooksForOurs /\ hop \in Nat
    BY PathAssumption DEF Inv, TrackerFits, StaysBehind
  <2>2. packet # <<Ours, hop + 1>>
    BY <2>1
  <2> QED
    BY <2>1, <2>2 DEF LooksForOurs
<1> QED
  BY <1>1, InitFits, StepKeepsInv, PTL DEF Spec

==============================================================================
