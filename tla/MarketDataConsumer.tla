------------------------- MODULE MarketDataConsumer -------------------------
(***************************************************************************)
(* Trading::MarketDataConsumer                                             *)
(* (src/trading/market_data/market_data_consumer.{h,cpp}): a client's      *)
(* thread that receives the numbered updates of the exchange by multicast  *)
(* and passes them on to its trading engine, in order.  When a number is   *)
(* not the one expected it joins the group of the snapshots, queues what   *)
(* it receives from both, and waits for a snapshot it can start from.      *)
(*                                                                         *)
(* The two groups are channels of datagrams that may be lost, delivered    *)
(* again and overtaken.  A datagram is a sequence of records.  Their       *)
(* senders are environments: one sends each update once, in order, a few   *)
(* to a datagram; the other sends the snapshots of SnapshotSynthesizer,    *)
(* when everything sent so far is in them.  The senders of src/ do not     *)
(* match this receiver: MarketDataPublisher sends 16 bytes for an update,  *)
(* the receiver reads sizeof(MDPMarketUpdate), and nothing in src/ starts  *)
(* the synthesizer.                                                        *)
(*                                                                         *)
(* Of an update the model keeps whether it marks the start or the end of a *)
(* snapshot and the number it tells: its own in the stream, and that of    *)
(* the last update in the snapshot (order_id_ in the marks).  One STATE    *)
(* stands for the CLEARs and ADDs of a snapshot.  A datagram is a whole    *)
(* number of records, and the queue to the engine is a list (LFQueue).     *)
(***************************************************************************)
EXTENDS Integers, Sequences, FiniteSets

CONSTANTS MaxUpdates,       \* bound on the updates that are sent
          MaxBatch,         \* bound on the updates of a datagram
          MaxFaults,        \* bound on what the network does wrong
          MaxSnapshots      \* bound on the datagrams of the snapshot group on the way

ASSUME BoundAssumption == /\ MaxUpdates \in Nat /\ MaxFaults \in Nat
                          /\ MaxBatch \in Nat \ {0} /\ MaxSnapshots \in Nat

VARIABLES sent,             \* how many updates the exchange has sent
          incrementals,     \* datagrams of the incremental group on the way
          snapshots,        \* datagrams of the snapshot group on the way
          faults,           \* what the network has done wrong
          running,          \* the thread is in its loop
          inbound,          \* the records recvCallback() has before it
          is_snapshot,      \* and the socket they came from
          next_exp_inc_seq_num, in_recovery,
          joined,           \* snapshot_mcast_socket_ is a member of its group
          snapshot_queued_msgs, incremental_queued_msgs,  \* maps by number
          delivered,        \* history: what was pushed into incoming_md_updates_
          arrived           \* history: numbers of the incremental records handled

networkVars == <<sent, incrementals, snapshots, faults>>
inboundVars == <<inbound, is_snapshot>>
queuedVars == <<snapshot_queued_msgs, incremental_queued_msgs>>
consumerVars == <<next_exp_inc_seq_num, in_recovery, joined, queuedVars, delivered>>
vars == <<networkVars, running, inboundVars, consumerVars, arrived>>

Update(type, number) == [type |-> type, number |-> number]
Record(seq, update) == [seq |-> seq, update |-> update]
Marks == {"SNAPSHOT_START", "SNAPSHOT_END"}

Incremental(n) == Record(n, Update("INCREMENTAL", n))
SnapshotOf(k) == << << Record(0, Update("SNAPSHOT_START", k)), Record(1, Update("STATE", k)) >>,
                    << Record(2, Update("SNAPSHOT_END", k)) >> >>

Put(map, key, value) == [k \in DOMAIN map \cup {key} |-> IF k = key THEN value ELSE map[k]]
NoMessages == [k \in {} |-> Update("INVALID", 0)]
Least(S) == CHOOSE k \in S : \A j \in S : k <= j
Greatest(S) == CHOOSE k \in S : \A j \in S : j <= k

Init == /\ sent = 0 /\ incrementals = <<>> /\ snapshots = <<>> /\ faults = 0
        /\ running = TRUE /\ inbound = <<>> /\ is_snapshot = FALSE
        /\ next_exp_inc_seq_num = 1 /\ in_recovery = FALSE /\ joined = FALSE
        /\ snapshot_queued_msgs = NoMessages /\ incremental_queued_msgs = NoMessages
        /\ delivered = <<>> /\ arrived = {}

(***************************************************************************)
(* The senders and the network.                                            *)
(***************************************************************************)

Publish == /\ \E b \in 1 .. MaxBatch :
                 /\ sent + b <= MaxUpdates /\ sent' = sent + b
                 /\ incrementals' = Append(incrementals, [i \in 1 .. b |-> Incremental(sent + i)])
           /\ UNCHANGED <<snapshots, faults, running, inboundVars, consumerVars, arrived>>

PublishSnapshot == /\ Len(snapshots) + 2 <= MaxSnapshots
                   /\ snapshots' = snapshots \o SnapshotOf(sent)
                   /\ UNCHANGED <<sent, incrementals, faults, running, inboundVars, consumerVars,
                                  arrived>>

Without(channel, i) == [j \in 1 .. Len(channel) - 1 |-> IF j < i THEN channel[j]
                                                                ELSE channel[j + 1]]

LoseIncremental == /\ faults < MaxFaults /\ faults' = faults + 1
                   /\ \E i \in DOMAIN incrementals : incrementals' = Without(incrementals, i)
                   /\ UNCHANGED <<sent, snapshots, running, inboundVars, consumerVars, arrived>>

LoseSnapshot == /\ faults < MaxFaults /\ faults' = faults + 1
                /\ \E i \in DOMAIN snapshots : snapshots' = Without(snapshots, i)
                /\ UNCHANGED <<sent, incrementals, running, inboundVars, consumerVars, arrived>>

\* A datagram of a group this host is not a member of passes by.
PassBy == /\ ~joined /\ snapshots # <<>> /\ snapshots' = Tail(snapshots)
          /\ UNCHANGED <<sent, incrementals, faults, running, inboundVars, consumerVars, arrived>>

(***************************************************************************)
(* recvCallback(), one record at a time, and what it calls.                *)
(***************************************************************************)

Consumer(next, recovery, member, snap, inc, told) ==
    /\ next_exp_inc_seq_num' = next /\ in_recovery' = recovery /\ joined' = member
    /\ snapshot_queued_msgs' = snap /\ incremental_queued_msgs' = inc
    /\ delivered' = told

\* The loop over the queued messages of a snapshot: each has the number that
\* next_snapshot_seq has when it comes to it.  Marks do not advance that.
Complete(snap) ==
    \A k \in DOMAIN snap :
       k = Cardinality({j \in DOMAIN snap : j < k /\ snap[j].type \notin Marks})

\* The messages of a map with numbers in S by rising number, without marks.
Events(map, S) ==
    LET keys == {k \in S \cap DOMAIN map : map[k].type \notin Marks}
        rank(k) == Cardinality({j \in keys : j <= k})
    IN  [i \in 1 .. Cardinality(keys) |-> map[CHOOSE k \in keys : rank(k) = i]]

\* What is reached from number n on through the queued updates without a gap.
Reached(inc, n) == CHOOSE m \in n .. n + Cardinality(DOMAIN inc) :
                      n .. m - 1 \subseteq DOMAIN inc /\ m \notin DOMAIN inc

\* checkSnapshotSync(), with the messages just queued, in recovery.
CheckSnapshotSync(snap, inc) ==
    LET last == snap[Greatest(DOMAIN snap)]
        from == last.number + 1
        next == Reached(inc, from)
        later == {k \in DOMAIN inc : k >= from}
        Wait(n, s) == Consumer(n, TRUE, TRUE, s, inc, delivered)
    IN  IF DOMAIN snap = {} THEN Wait(next_exp_inc_seq_num, snap)
        ELSE IF snap[Least(DOMAIN snap)].type # "SNAPSHOT_START"
             THEN Wait(next_exp_inc_seq_num, NoMessages)
        ELSE IF ~Complete(snap) THEN Wait(next_exp_inc_seq_num, NoMessages)
        ELSE IF last.type # "SNAPSHOT_END" THEN Wait(next_exp_inc_seq_num, snap)
        ELSE IF \E k \in later : k > next THEN Wait(next, NoMessages)
        ELSE Consumer(next, FALSE, FALSE, NoMessages, NoMessages,
                      delivered \o Events(snap, DOMAIN snap) \o Events(inc, later))

\* queueMessage(), with the maps as startSnapshotSync() left them.
QueueMessage(record, snap, inc) ==
    IF is_snapshot
    THEN CheckSnapshotSync(Put(IF record.seq \in DOMAIN snap THEN NoMessages ELSE snap,
                               record.seq, record.update), inc)
    ELSE CheckSnapshotSync(snap, Put(inc, record.seq, record.update))

\* IsGap that takes a number it has passed for the one expected.
IsGapAhead(record) == record.seq > next_exp_inc_seq_num

\* IsGap that expects the update it has passed on last.
IsGapFromZero(record) == record.seq # Len(delivered)

\* A record that starts recovery.
IsGap(record) == record.seq # next_exp_inc_seq_num

\* Recover that starts the sync again for each record.
RecoverAfresh(record) == QueueMessage(record, NoMessages, NoMessages)

\* The record finds the consumer in recovery, or takes it there.
Recover(record) == IF in_recovery
                   THEN QueueMessage(record, snapshot_queued_msgs, incremental_queued_msgs)
                   ELSE QueueMessage(record, NoMessages, NoMessages)

Deliver(record) == Consumer(next_exp_inc_seq_num + 1, FALSE, joined,
                            snapshot_queued_msgs, incremental_queued_msgs,
                            Append(delivered, record.update))

\* One round of the loop of recvCallback().  The early return is for a record
\* from the snapshot socket outside recovery.
Handle ==
    /\ inbound # <<>>
    /\ LET record == Head(inbound)
       IN  IF is_snapshot /\ ~in_recovery
           THEN inbound' = <<>> /\ UNCHANGED <<consumerVars, arrived>>
           ELSE /\ inbound' = Tail(inbound)
                /\ arrived' = IF is_snapshot THEN arrived ELSE arrived \cup {record.seq}
                /\ IF in_recovery \/ IsGap(record) THEN Recover(record) ELSE Deliver(record)
    /\ UNCHANGED <<networkVars, running, is_snapshot>>

(***************************************************************************)
(* run(): the sockets are read in turn, and a socket has what the network  *)
(* brings.  A datagram out of turn, or left to come again, is a fault.     *)
(***************************************************************************)

Receive(channel, snapshot, i, again) ==
    /\ running /\ inbound = <<>>
    /\ i \in DOMAIN channel
    /\ IF i = 1 /\ ~again THEN UNCHANGED faults
                          ELSE faults < MaxFaults /\ faults' = faults + 1
    /\ inbound' = channel[i] /\ is_snapshot' = snapshot
    /\ UNCHANGED <<sent, running, consumerVars, arrived>>

ReceiveIncremental(i, again) ==
    /\ Receive(incrementals, FALSE, i, again)
    /\ incrementals' = IF again THEN incrementals ELSE Without(incrementals, i)
    /\ UNCHANGED snapshots

ReceiveSnapshot(i, again) ==
    /\ joined /\ Receive(snapshots, TRUE, i, again)
    /\ snapshots' = IF again THEN snapshots ELSE Without(snapshots, i)
    /\ UNCHANGED incrementals

\* stop(), as the loop sees it: between two datagrams.
Stop == /\ running /\ inbound = <<>> /\ running' = FALSE
        /\ UNCHANGED <<networkVars, inboundVars, consumerVars, arrived>>

Next == \/ Publish \/ PublishSnapshot \/ LoseIncremental \/ LoseSnapshot \/ PassBy
        \/ Handle \/ Stop
        \/ \E i \in 1 .. MaxUpdates, again \in BOOLEAN : ReceiveIncremental(i, again)
        \/ \E i \in 1 .. MaxSnapshots, again \in BOOLEAN : ReceiveSnapshot(i, again)

\* The thread goes on with a datagram, reads each socket again and again, and
\* a datagram that is not lost arrives; snapshots are sent again and again.
Fairness == /\ WF_vars(Handle) /\ WF_vars(PublishSnapshot) /\ WF_vars(PassBy)
            /\ SF_vars(ReceiveIncremental(1, FALSE)) /\ SF_vars(ReceiveSnapshot(1, FALSE))

Spec == Init /\ [][Next]_vars /\ Fairness

----------------------------------------------------------------------------
(***************************************************************************)
(* Properties.                                                             *)
(***************************************************************************)

UpdateType == {"INCREMENTAL", "STATE", "SNAPSHOT_START", "SNAPSHOT_END"}
UpdateSet == [type : UpdateType, number : Nat]
RecordSet == [seq : Nat, update : UpdateSet]
QueuedMarketUpdates(map) == /\ DOMAIN map \subseteq Nat
                            /\ \A k \in DOMAIN map : map[k] \in UpdateSet

\* The variables have the types of the members.
TypeOK == /\ inbound \in Seq(RecordSet) /\ is_snapshot \in BOOLEAN
          /\ next_exp_inc_seq_num \in Nat
          /\ in_recovery \in BOOLEAN /\ joined \in BOOLEAN /\ running \in BOOLEAN
          /\ QueuedMarketUpdates(snapshot_queued_msgs)
          /\ QueuedMarketUpdates(incremental_queued_msgs)
          /\ delivered \in Seq(UpdateSet)

\* Whatever is lost, comes again or comes too early, the trading engine gets a
\* stream without a gap and without a repetition: each update it gets is the
\* next after the one the updates before it tell, or the state of a snapshot
\* at least as new, and never a mark.
FollowsTheStream ==
    LET reached(i) == IF i = 0 THEN 0 ELSE delivered[i].number
    IN  \A i \in DOMAIN delivered :
           \/ delivered[i].type = "INCREMENTAL" /\ delivered[i].number = reached(i - 1) + 1
           \/ delivered[i].type = "STATE" /\ delivered[i].number >= reached(i - 1)

\* No update that reached the consumer is thrown away before the engine has
\* it, or a state with it: it is still queued for the end of the recovery.
NothingThrownAway ==
    \A n \in arrived : \/ \E i \in DOMAIN delivered : delivered[i].number >= n
                       \/ n \in DOMAIN incremental_queued_msgs

\* On a network that does nothing wrong, every update that is sent gets to the
\* engine, unless the consumer is stopped.
ReliableMeansDelivered ==
    \A n \in 1 .. MaxUpdates :
       sent >= n ~> (\E i \in DOMAIN delivered : delivered[i].number >= n) \/ faults > 0 \/ ~running

\* What the snapshots are for ("used to retrieve any data lost if packets were
\* dropped", snapshot_synthesizer.cpp:4): a consumer that has missed something
\* comes out of recovery again, unless it is stopped.
RecoveryEnds == in_recovery ~> ~in_recovery \/ ~running

\* Once in recovery the consumer never passes on anything again.
RecoveryIsFinal == [][in_recovery => in_recovery' /\ delivered' = delivered]_vars

=============================================================================
