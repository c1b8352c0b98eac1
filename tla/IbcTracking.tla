----------------------------- MODULE IbcTracking -----------------------------
(***************************************************************************)
(* Following a transfer across the chains of its path:                     *)
(* client_app/src/hooks/useIbcTracking.ts with the queries of              *)
(* hooks/ibcTracking/util.ts and lib/apiQueries/fetchApiData.ts, against   *)
(* relayers that carry the packets of several transfers, each transaction  *)
(* of a relayer receiving one or more of them.                             *)
(*                                                                         *)
(* Chain 0 of the path is the source; a packet is a transfer and the chain *)
(* it goes to.  A path of one hop is followed by trackIbcTransfer, a       *)
(* longer one by trackSmartTransferMultiHop.  cancelTracking has no caller.*)
(***************************************************************************)
EXTENDS Naturals, Sequences, FiniteSets

CONSTANTS
    Transfers,   \* transfers that cross the same path at the same time
    Ours,        \* the one the client follows
    Hops,        \* hops of the path
    Configured,  \* chains of the path that the client has a configuration of
    MaxAttempts, \* maxAttempts of the tracking options
    Null         \* no packet

ASSUME OursAssumption == Ours \in Transfers
ASSUME PathAssumption == Hops \in Nat \ {0} /\ Configured \subseteq 1 .. Hops
ASSUME MaxAssumption  == MaxAttempts \in Nat \ {0}
ASSUME NullAssumption == Null \notin Transfers \X Nat

VARIABLES
    at,       \* the last chain that received a transfer's packet
    rejected, \* the transfers that were answered by an error acknowledgement
    relayed,  \* per chain of the path: the relayers' transactions
    pc,       \* what the tracker awaits, or its result
    hop,      \* hops it has seen confirmed
    packet,   \* currentPacketData: the packet it looks for
    attempts, \* queries made in this loop
    bar       \* completedChains of the last onHopComplete

chains  == <<at, rejected, relayed>>
tracker == <<pc, hop, packet, attempts, bar>>
vars    == <<chains, tracker>>

----------------------------------------------------------------------------
(* Data *)

Multi  == Hops > 1

\* The packet of a transfer that no chain has received yet.
InFlight(k) == {<<x, k>> : x \in {y \in Transfers \ rejected : at[y] + 1 = k}}

\* The orders in which one transaction may receive some of the packets.
Batches(packets) ==
    {b \in UNION {[1 .. n -> packets] : n \in 1 .. Cardinality(packets)} :
        \A i, j \in DOMAIN b : b[i] = b[j] => i = j}

Init ==
    /\ at = [x \in Transfers |-> 0] /\ rejected = {}
    /\ relayed = [k \in 1 .. Hops |-> {}]
    /\ pc = "source" /\ hop = 0 /\ packet = Null /\ attempts = 0 /\ bar = 0

----------------------------------------------------------------------------
(* Relayers and chains *)

\* A transaction on chain k receives the packets of batch in their order.  Each
\* is accepted, and sent on by an intermediate chain, or answered by an error
\* acknowledgement; the transaction succeeds either way.  early: its block is
\* timed more than ten seconds before the transactions that sent its packets.
\* A packet sent on keeps the place in the transaction of the one received.
Relay(k, batch, errors, early) ==
    LET packets == {batch[i] : i \in DOMAIN batch}
        passed  == {i \in DOMAIN batch : k < Hops /\ batch[i] \notin errors}
    IN  /\ at' = [x \in Transfers |-> IF <<x, k>> \in packets THEN k ELSE at[x]]
        /\ rejected' = rejected \cup {p[1] : p \in errors}
        /\ relayed' = [relayed EXCEPT ![k] = @ \cup
               {[recv |-> batch,
                 sends |-> [i \in passed |-> <<batch[i][1], k + 1>>],
                 early |-> early]}]
        /\ UNCHANGED tracker

----------------------------------------------------------------------------
(* Queries *)

\* extractIbcPacketData and verifyPacketData: the first recv_packet event of
\* the transaction is the packet.
Matches(tx) == tx.recv[1] = packet

\* The transactions of chain k that queryIbcReceive may return.  The packet is
\* in at most one; a node that has not indexed it, or fails, returns none.
Found(k) ==
    {tx \in relayed[k] : packet \in {tx.recv[i] : i \in DOMAIN tx.recv}
                         /\ Matches(tx) /\ ~tx.early}

----------------------------------------------------------------------------
(* The tracker *)

Polls(p, h) == pc' = "polling" /\ packet' = p /\ hop' = h /\ attempts' = 0
Fails       == pc' = "failed" /\ UNCHANGED <<packet, hop>>

\* trackSmartTransferMultiHop asks once before its loop.
SourceAttempts == IF Multi THEN MaxAttempts + 1 ELSE MaxAttempts

\* A destination without configuration ends the tracking; TaskProvider does not
\* track a single hop to one.
PollsOrFails(p, h) == IF h + 1 \in Configured THEN Polls(p, h)
                      ELSE pc' = "failed" /\ attempts' = attempts /\ packet' = p /\ hop' = h

\* getPacketData finds the send_packet event of the source transaction.
SourceFound ==
    /\ pc = "source"
    /\ PollsOrFails(<<Ours, 1>>, 0)
    /\ UNCHANGED <<chains, bar>>

\* It is not indexed yet or no node answers: wait and ask again.
SourceMissing ==
    /\ pc = "source"
    /\ attempts' = attempts + 1
    /\ IF attempts' < SourceAttempts THEN UNCHANGED <<pc, packet, hop>> ELSE Fails
    /\ UNCHANGED <<chains, bar>>

\* Ten minutes have passed at the head of a loop.  The source loop of a
\* multi-hop transfer only counts.
TimesOut ==
    /\ pc = "polling" \/ (pc = "source" /\ ~Multi)
    /\ Fails
    /\ UNCHANGED <<chains, attempts, bar>>

\* waitForConfirmation gets no transaction or an error: wait and ask again.
NotConfirmed ==
    /\ pc = "polling"
    /\ attempts' = attempts + 1
    /\ IF attempts' < MaxAttempts THEN UNCHANGED <<pc, packet, hop>> ELSE Fails
    /\ UNCHANGED <<chains, bar>>

\* Mutant: the bar is moved to the chain that is being waited for.
Completed_Ahead(h) == h + 1
\* completedChains, the source being one of them, once h hops are confirmed.
Completed(h) == h

\* Mutant: the first send_packet event is taken for the packet's own.
Forwarded_Second(tx) == IF 2 \in DOMAIN tx.sends THEN tx.sends[2] ELSE Null
\* nextSendPacket: the first send_packet event of the transaction.
Forwarded(tx) ==
    IF DOMAIN tx.sends = {} THEN Null
    ELSE tx.sends[CHOOSE i \in DOMAIN tx.sends : \A j \in DOMAIN tx.sends : i <= j]

\* waitForConfirmation found the transaction: the last hop ends the tracking,
\* any other goes on with the packet the transaction sent, if it sent one.
Confirmed ==
    /\ pc = "polling"
    /\ \E tx \in Found(hop + 1) :
        IF hop + 1 = Hops
        THEN /\ pc' = "success" /\ hop' = hop + 1
             /\ bar' = IF Multi THEN Hops + 1 ELSE bar
             /\ UNCHANGED <<packet, attempts>>
        ELSE /\ bar' = Completed(hop + 1)
             /\ IF Forwarded(tx) = Null
                THEN pc' = "failed" /\ hop' = hop + 1 /\ UNCHANGED <<packet, attempts>>
                ELSE PollsOrFails(Forwarded(tx), hop + 1)
    /\ UNCHANGED chains

----------------------------------------------------------------------------
(* Specification *)

Track == SourceFound \/ SourceMissing \/ TimesOut \/ NotConfirmed \/ Confirmed

Next ==
    \/ \E k \in 1 .. Hops : \E batch \in Batches(InFlight(k)), early \in BOOLEAN :
           \E errors \in SUBSET {batch[i] : i \in DOMAIN batch} : Relay(k, batch, errors, early)
    \/ Track

Spec == Init /\ [][Next]_vars

----------------------------------------------------------------------------
(* Properties *)

\* Relayers carried our packets in transactions of their own.
Alone == \A k \in 1 .. Hops : \A tx \in relayed[k] :
    \A i \in DOMAIN tx.recv : tx.recv[i][1] = Ours => Len(tx.recv) = 1

\* As long as relayers carry our packets alone, the client never confirms a hop
\* our transfer has not made, whatever else crosses the same channels: what it
\* looks for is ours, and the bar and the result stay behind the transfer.
FollowsOurs ==
    Alone =>
        /\ packet # Null => packet[1] = Ours
        /\ hop <= at[Ours] /\ bar <= at[Ours] + 1
        /\ bar <= hop \/ pc = "success"

\* As long as they do, a tracker that gives up for want of a forwarded packet
\* is right: the chain it stopped at has answered our packet with an error.
StopsWhereRejected ==
    Alone /\ pc = "failed" /\ hop \in 1 .. Hops - 1 /\ packet # Null /\ packet[2] = hop =>
        Ours \in rejected /\ at[Ours] = hop

==============================================================================
