---------------------- MODULE MarketDataConsumerProofs ----------------------
(***************************************************************************)
(* TLAPS proofs about MarketDataConsumer, for every number of updates,     *)
(* faults and datagrams.                                                   *)
(*                                                                         *)
(* The core is what checkSnapshotSync() can do.  Between two records the   *)
(* queue of the snapshot is quiet: it is empty, or it has the start of a   *)
(* snapshot under number 0 and nothing else.  From a quiet queue and one   *)
(* more message, whatever its number and type, the function never gets     *)
(* past its first three tests, and leaves a quiet queue again.             *)
(***************************************************************************)
EXTENDS MarketDataConsumer, TLAPS, FiniteSetTheorems, SequenceTheorems

Quiet(snap) == \/ DOMAIN snap = {}
               \/ /\ DOMAIN snap = {0} /\ snap[0] \in UpdateSet
                  /\ snap[0].type = "SNAPSHOT_START"

\* Still in recovery, nothing passed on, and the expected number as it was.
StillWaits(snap, inc) ==
    Consumer(next_exp_inc_seq_num, TRUE, TRUE, snap, inc, delivered)

\* The first and the last number of a queue of one message, or of two from 0.
LEMMA LeastOfOne == ASSUME NEW k \in Nat PROVE Least({k}) = k /\ Greatest({k}) = k
BY DEF Least, Greatest

LEMMA LeastOfTwo == ASSUME NEW k \in Nat, k # 0 PROVE Least({0, k}) = 0
<1>1. \A j \in {0, k} : 0 <= j
  OBVIOUS
<1>2. \A i \in {0, k} : (\A j \in {0, k} : i <= j) => i = 0
  OBVIOUS
<1> QED BY <1>1, <1>2 DEF Least

\* With a quiet queue the function returns at once, or for want of the end.
LEMMA QuietWaits ==
    ASSUME NEW snap, Quiet(snap), NEW inc, CheckSnapshotSync(snap, inc)
    PROVE  StillWaits(snap, inc)
<1>1. CASE DOMAIN snap = {}
  BY <1>1 DEF CheckSnapshotSync, StillWaits
<1>2. CASE DOMAIN snap # {}
  <2>1. DOMAIN snap = {0} /\ snap[0].type = "SNAPSHOT_START"
    BY <1>2 DEF Quiet
  <2>2. Least(DOMAIN snap) = 0 /\ Greatest(DOMAIN snap) = 0
    BY <2>1, LeastOfOne
  <2>3. Complete(snap)
    <3>1. {j \in DOMAIN snap : j < 0 /\ snap[j].type \notin Marks} = {}
      BY <2>1
    <3> QED BY <2>1, <3>1, FS_EmptySet DEF Complete
  <2> QED BY <1>2, <2>1, <2>2, <2>3 DEF CheckSnapshotSync, StillWaits
<1> QED BY <1>1, <1>2

\* Any message added to a quiet queue leaves a quiet queue (the number of the
\* start is not counted, market_data_consumer.cpp:58-61).
LEMMA OneMoreWaits ==
    ASSUME NEW base, Quiet(base), NEW seq \in Nat, seq \notin DOMAIN base,
           NEW update \in UpdateSet, NEW inc,
           CheckSnapshotSync(Put(base, seq, update), inc)
    PROVE  \E snap : Quiet(snap) /\ StillWaits(snap, inc)
<1> DEFINE snap == Put(base, seq, update)
<1>1. DOMAIN snap = DOMAIN base \cup {seq} /\ snap[seq] = update
      /\ \A k \in DOMAIN base : snap[k] = base[k]
  BY DEF Put
<1>2. Quiet(NoMessages)
  BY DEF Quiet, NoMessages
<1> HIDE DEF snap
<1>3. CheckSnapshotSync(snap, inc)
  BY DEF snap
<1>4. CASE DOMAIN base = {}
  <2>1. DOMAIN snap = {seq} /\ Least(DOMAIN snap) = seq /\ Greatest(DOMAIN snap) = seq
    BY <1>1, <1>4, LeastOfOne
  <2>2. CASE update.type # "SNAPSHOT_START"
    BY <1>1, <1>2, <1>3, <2>1, <2>2 DEF CheckSnapshotSync, StillWaits
  <2>3. CASE update.type = "SNAPSHOT_START" /\ seq = 0
    BY <1>1, <1>3, <2>1, <2>3, QuietWaits DEF Quiet
  <2>4. CASE update.type = "SNAPSHOT_START" /\ seq # 0
    <3>1. {j \in DOMAIN snap : j < seq /\ snap[j].type \notin Marks} = {}
      BY <2>1
    <3>2. ~Complete(snap)
      BY <2>1, <2>4, <3>1, FS_EmptySet DEF Complete
    <3> QED BY <1>2, <1>3, <2>1, <3>2 DEF CheckSnapshotSync, StillWaits
  <2> QED BY <2>2, <2>3, <2>4
<1>5. CASE DOMAIN base # {}
  <2>1. DOMAIN snap = {0, seq} /\ seq # 0 /\ snap[0].type = "SNAPSHOT_START"
    BY <1>1, <1>5 DEF Quiet
  <2>2. Least(DOMAIN snap) = 0
    BY <2>1, LeastOfTwo
  <2>3. {j \in DOMAIN snap : j < seq /\ snap[j].type \notin Marks} = {}
    BY <2>1 DEF Marks
  <2>4. ~Complete(snap)
    BY <2>1, <2>3, FS_EmptySet DEF Complete
  <2> QED BY <1>2, <1>3, <2>1, <2>2, <2>4 DEF CheckSnapshotSync, StillWaits
<1> QED BY <1>4, <1>5

\* The queue of the snapshot stays quiet; outside recovery both are empty.
RecoveryInv == /\ Quiet(snapshot_queued_msgs)
               /\ ~in_recovery => DOMAIN incremental_queued_msgs = {}

\* What queueMessage() does from there.
LEMMA QueueWaits ==
    ASSUME NEW record \in RecordSet, NEW snap, Quiet(snap), NEW inc,
           QueueMessage(record, snap, inc)
    PROVE  \E s : /\ Quiet(s)
                  /\ StillWaits(s, IF is_snapshot THEN inc
                                                  ELSE Put(inc, record.seq, record.update))
<1>1. CASE ~is_snapshot
  BY <1>1, QuietWaits DEF QueueMessage
<1>2. CASE is_snapshot
  <2> DEFINE base == IF record.seq \in DOMAIN snap THEN NoMessages ELSE snap
  <2>1. Quiet(base) /\ record.seq \notin DOMAIN base
    BY DEF Quiet, NoMessages
  <2>2. record.seq \in Nat /\ record.update \in UpdateSet
    BY DEF RecordSet
  <2>3. CheckSnapshotSync(Put(base, record.seq, record.update), inc)
    BY <1>2 DEF QueueMessage
  <2> HIDE DEF base
  <2> QED BY <1>2, <2>1, <2>2, <2>3, OneMoreWaits
<1> QED BY <1>1, <1>2

----------------------------------------------------------------------------
(***************************************************************************)
(* The inductive invariant.                                                *)
(***************************************************************************)

IncrementalSet == {Incremental(n) : n \in Nat}

\* What is on the way, and what the callback has before it.
NetworkInv == /\ sent \in Nat
              /\ incrementals \in Seq(Seq(IncrementalSet))
              /\ snapshots \in Seq(Seq(RecordSet))
              /\ ~is_snapshot => inbound \in Seq(IncrementalSet)

\* What was passed on is the stream up to the number before the expected one.
StreamInv == /\ next_exp_inc_seq_num >= 1
             /\ Len(delivered) = next_exp_inc_seq_num - 1
             /\ \A i \in 1 .. next_exp_inc_seq_num - 1 : delivered[i] = Update("INCREMENTAL", i)

ArrivedInv == \A n \in arrived : \/ n \in 1 .. next_exp_inc_seq_num - 1
                                 \/ n \in DOMAIN incremental_queued_msgs

IInv == TypeOK /\ NetworkInv /\ RecoveryInv /\ StreamInv /\ ArrivedInv

\* What the two senders put into datagrams are records.
LEMMA IncrementalsAreRecords == IncrementalSet \subseteq RecordSet
BY DEF IncrementalSet, RecordSet, Incremental, Record, Update, UpdateSet, UpdateType

LEMMA SnapshotsAreRecords == ASSUME NEW k \in Nat PROVE SnapshotOf(k) \in Seq(Seq(RecordSet))
BY DEF SnapshotOf, RecordSet, Record, Update, UpdateSet, UpdateType

\* A channel that loses a datagram has the others.
LEMMA WithoutType ==
    ASSUME NEW S, NEW channel \in Seq(S), NEW i \in DOMAIN channel
    PROVE  Without(channel, i) \in Seq(S) /\ channel[i] \in S
BY DEF Without

\* Nothing is sent, received or queued yet.
LEMMA InitInv == Init => IInv
<1> SUFFICES ASSUME Init PROVE IInv
  OBVIOUS
<1> USE DEF Init
<1>1. DOMAIN NoMessages = {}
  BY DEF NoMessages
<1>2. TypeOK
  <2>1. QueuedMarketUpdates(NoMessages)
    BY <1>1 DEF QueuedMarketUpdates
  <2>2. QueuedMarketUpdates(snapshot_queued_msgs) /\ QueuedMarketUpdates(incremental_queued_msgs)
    BY <2>1
  <2>3. <<>> \in Seq(RecordSet) /\ <<>> \in Seq(UpdateSet) /\ 1 \in Nat
    OBVIOUS
  <2>4. inbound \in Seq(RecordSet) /\ delivered \in Seq(UpdateSet) /\ next_exp_inc_seq_num \in Nat
    BY <2>3
  <2>5. /\ is_snapshot \in BOOLEAN /\ in_recovery \in BOOLEAN
        /\ joined \in BOOLEAN /\ running \in BOOLEAN
    OBVIOUS
  <2> QED BY <2>2, <2>4, <2>5 DEF TypeOK
<1>4. RecoveryInv
  BY <1>1 DEF RecoveryInv, Quiet
<1>3. NetworkInv /\ StreamInv /\ ArrivedInv
  BY DEF NetworkInv, StreamInv, ArrivedInv
<1> QED BY <1>2, <1>3, <1>4 DEF IInv

\* The three things one round of the loop of recvCallback() can do: leave
\* everything, pass the expected update on, or wait in recovery.
LEMMA HandleCases ==
    ASSUME IInv, Handle
    PROVE  \/ UNCHANGED <<consumerVars, arrived>> /\ inbound' = <<>>
           \/ /\ ~is_snapshot /\ ~in_recovery /\ Deliver(Head(inbound))
              /\ Head(inbound).seq = next_exp_inc_seq_num
              /\ inbound' = Tail(inbound) /\ arrived' = arrived \cup {Head(inbound).seq}
           \/ /\ inbound' = Tail(inbound)
              /\ IF is_snapshot THEN arrived' = arrived /\ in_recovery
                                ELSE arrived' = arrived \cup {Head(inbound).seq}
              /\ \E s, inc :
                    /\ Quiet(s) /\ StillWaits(s, inc)
                    /\ inc = IF is_snapshot THEN incremental_queued_msgs
                             ELSE Put(IF in_recovery THEN incremental_queued_msgs ELSE NoMessages,
                                      Head(inbound).seq, Head(inbound).update)
<1> DEFINE record == Head(inbound)
<1>1. inbound # <<>> /\ inbound \in Seq(RecordSet) /\ record \in RecordSet
  BY DEF Handle, IInv, TypeOK
<1>2. CASE is_snapshot /\ ~in_recovery
  BY <1>2 DEF Handle
<1>3. CASE ~(is_snapshot /\ ~in_recovery) /\ ~(in_recovery \/ IsGap(record))
  <2>1. Deliver(record) /\ inbound' = Tail(inbound) /\ arrived' = arrived \cup {record.seq}
    BY <1>3 DEF Handle
  <2> QED BY <1>3, <2>1 DEF IsGap
<1>4. CASE ~(is_snapshot /\ ~in_recovery) /\ (in_recovery \/ IsGap(record))
  <2>1. /\ Recover(record) /\ inbound' = Tail(inbound)
        /\ arrived' = IF is_snapshot THEN arrived ELSE arrived \cup {record.seq}
    BY <1>4 DEF Handle
  <2> DEFINE snap == IF in_recovery THEN snapshot_queued_msgs ELSE NoMessages
             queued == IF in_recovery THEN incremental_queued_msgs ELSE NoMessages
  <2>2. QueueMessage(record, snap, queued)
    BY <2>1 DEF Recover
  <2>3. Quiet(snap)
    BY DEF IInv, RecoveryInv, Quiet, NoMessages
  <2> HIDE DEF snap
  <2>4. \E s : /\ Quiet(s)
               /\ StillWaits(s, IF is_snapshot THEN queued
                                               ELSE Put(queued, record.seq, record.update))
    BY <1>1, <2>2, <2>3, QueueWaits
  <2> QED BY <1>4, <2>1, <2>4
<1> QED BY <1>2, <1>3, <1>4

\* A record taken from the head leaves a datagram of the same kind of records.
LEMMA InboundStays ==
    ASSUME IInv, Handle
    PROVE  inbound' \in Seq(RecordSet) /\ (~is_snapshot' => inbound' \in Seq(IncrementalSet))
<1>1. inbound # <<>> /\ is_snapshot' = is_snapshot
  BY DEF Handle
<1>2. inbound' = <<>> \/ inbound' = Tail(inbound)
  BY DEF Handle
<1>3. inbound \in Seq(RecordSet) /\ (~is_snapshot => inbound \in Seq(IncrementalSet))
  BY DEF IInv, TypeOK, NetworkInv
<1>4. inbound' \in Seq(RecordSet)
  BY <1>1, <1>2, <1>3, HeadTailProperties, EmptySeq
<1>5. inbound \in Seq(IncrementalSet) => inbound' \in Seq(IncrementalSet)
  BY <1>1, <1>2, HeadTailProperties, EmptySeq
<1> QED BY <1>1, <1>3, <1>4, <1>5

\* One round of the loop of recvCallback() preserves the invariant.
LEMMA HandleInv == ASSUME IInv, Handle PROVE IInv'
<1> DEFINE record == Head(inbound)
<1>1. inbound # <<>> /\ record \in RecordSet /\ (~is_snapshot => record \in IncrementalSet)
  BY DEF Handle, IInv, TypeOK, NetworkInv
<1>2. NetworkInv' /\ inbound' \in Seq(RecordSet)
  BY InboundStays DEF Handle, networkVars, IInv, NetworkInv
<1>3. running' = running /\ is_snapshot' = is_snapshot
  BY DEF Handle
<1>4. CASE UNCHANGED <<consumerVars, arrived>>
  BY <1>2, <1>3, <1>4 DEF IInv, TypeOK, QueuedMarketUpdates, RecoveryInv, StreamInv, ArrivedInv,
                          Quiet, consumerVars, queuedVars
<1>5. CASE /\ ~is_snapshot /\ ~in_recovery /\ Deliver(record)
           /\ record.seq = next_exp_inc_seq_num /\ arrived' = arrived \cup {record.seq}
  <2>1. record.update = Update("INCREMENTAL", next_exp_inc_seq_num) /\ record.update \in UpdateSet
    <3>1. PICK n \in Nat : record = Record(n, Update("INCREMENTAL", n))
      BY <1>1, <1>5 DEF IncrementalSet, Incremental
    <3>2. record.seq = n /\ record.update = Update("INCREMENTAL", n)
      BY <3>1 DEF Record
    <3> QED BY <1>1, <1>5, <3>2 DEF RecordSet
  <2>2. /\ next_exp_inc_seq_num' = next_exp_inc_seq_num + 1 /\ in_recovery' = FALSE
        /\ joined' = joined /\ snapshot_queued_msgs' = snapshot_queued_msgs
        /\ incremental_queued_msgs' = incremental_queued_msgs
        /\ delivered' = Append(delivered, record.update)
    BY <1>5 DEF Deliver, Consumer
  <2>3. TypeOK'
    <3>1. delivered' \in Seq(UpdateSet)
      BY <2>1, <2>2 DEF IInv, TypeOK
    <3>2. QueuedMarketUpdates(snapshot_queued_msgs)' /\ QueuedMarketUpdates(incremental_queued_msgs)'
      BY <2>2 DEF IInv, TypeOK
    <3>3. next_exp_inc_seq_num' \in Nat
      BY <2>2 DEF IInv, TypeOK
    <3>4. joined \in BOOLEAN
      BY DEF IInv, TypeOK
    <3>5. joined' \in BOOLEAN /\ in_recovery' \in BOOLEAN
      BY <2>2, <3>4, Zenon
    <3>6. running' \in BOOLEAN /\ is_snapshot' \in BOOLEAN
      BY <1>3 DEF IInv, TypeOK
    <3> QED BY <1>2, <3>1, <3>2, <3>3, <3>5, <3>6 DEF TypeOK
  <2>4. RecoveryInv'
    BY <1>5, <2>2 DEF IInv, RecoveryInv, Quiet
  <2>5. StreamInv'
    BY <2>1, <2>2 DEF IInv, TypeOK, StreamInv
  <2>6. ArrivedInv'
    BY <1>5, <2>2 DEF IInv, TypeOK, StreamInv, ArrivedInv
  <2> QED BY <1>2, <2>3, <2>4, <2>5, <2>6 DEF IInv
<1>6. ASSUME NEW s, NEW inc, Quiet(s), StillWaits(s, inc),
             inc = IF is_snapshot THEN incremental_queued_msgs
                   ELSE Put(IF in_recovery THEN incremental_queued_msgs ELSE NoMessages,
                            record.seq, record.update),
             IF is_snapshot THEN arrived' = arrived /\ in_recovery
                            ELSE arrived' = arrived \cup {record.seq}
      PROVE  IInv'
  <2>1. /\ next_exp_inc_seq_num' = next_exp_inc_seq_num /\ in_recovery' = TRUE /\ joined' = TRUE
        /\ snapshot_queued_msgs' = s /\ incremental_queued_msgs' = inc /\ delivered' = delivered
    BY <1>6 DEF StillWaits, Consumer
  <2>2. record.seq \in Nat /\ record.update \in UpdateSet
    BY <1>1 DEF RecordSet
  <2>3. /\ DOMAIN incremental_queued_msgs \subseteq DOMAIN inc
        /\ ~is_snapshot => record.seq \in DOMAIN inc
    BY <1>6 DEF IInv, RecoveryInv, Put, NoMessages
  <2>4. QueuedMarketUpdates(inc)
    BY <1>6, <2>2 DEF IInv, TypeOK, QueuedMarketUpdates, Put, NoMessages
  <2>5. QueuedMarketUpdates(s)
    BY <1>6 DEF Quiet, QueuedMarketUpdates
  <2>6. TypeOK'
    BY <1>2, <1>3, <2>1, <2>4, <2>5 DEF IInv, TypeOK, QueuedMarketUpdates
  <2>7. RecoveryInv'
    BY <1>6, <2>1 DEF RecoveryInv, Quiet
  <2>8. StreamInv'
    BY <2>1 DEF IInv, StreamInv
  <2>9. ArrivedInv'
    BY <1>6, <2>1, <2>3 DEF IInv, ArrivedInv
  <2> QED BY <1>2, <2>6, <2>7, <2>8, <2>9 DEF IInv
<1> QED BY <1>4, <1>5, <1>6, HandleCases

\* The senders, the network and the receiving of a datagram change neither the
\* queues nor what was passed on.
LEMMA ElsewhereInv ==
    ASSUME IInv, UNCHANGED <<consumerVars, arrived>>, running' \in BOOLEAN,
           NetworkInv', inbound' \in Seq(RecordSet), is_snapshot' \in BOOLEAN
    PROVE  IInv'
<1>1. TypeOK'
  BY DEF IInv, TypeOK, QueuedMarketUpdates, consumerVars, queuedVars
<1>2. RecoveryInv' /\ StreamInv' /\ ArrivedInv'
  BY DEF IInv, RecoveryInv, StreamInv, ArrivedInv, Quiet, consumerVars, queuedVars
<1> QED BY <1>1, <1>2 DEF IInv

\* Every step of the consumer, the senders and the network preserves it.
LEMMA StepInv == ASSUME IInv, [Next]_vars PROVE IInv'
<1> USE BoundAssumption
<1>0. /\ sent \in Nat /\ incrementals \in Seq(Seq(IncrementalSet))
      /\ snapshots \in Seq(Seq(RecordSet)) /\ inbound \in Seq(RecordSet)
      /\ running \in BOOLEAN /\ is_snapshot \in BOOLEAN
      /\ ~is_snapshot => inbound \in Seq(IncrementalSet)
  BY DEF IInv, TypeOK, NetworkInv
<1>1. CASE Publish
  <2>1. PICK b \in 1 .. MaxBatch :
           /\ sent' = sent + b
           /\ incrementals' = Append(incrementals, [i \in 1 .. b |-> Incremental(sent + i)])
    BY <1>1 DEF Publish
  <2>2. [i \in 1 .. b |-> Incremental(sent + i)] \in Seq(IncrementalSet)
    BY <1>0, SMTT(30) DEF IncrementalSet
  <2>3. NetworkInv'
    <3>1. sent' \in Nat /\ incrementals' \in Seq(Seq(IncrementalSet))
      BY <1>0, <2>1, <2>2
    <3> QED BY <1>0, <1>1, <3>1 DEF Publish, NetworkInv, inboundVars
  <2> QED BY <1>0, <1>1, <2>3, ElsewhereInv DEF Publish, inboundVars
<1>2. CASE PublishSnapshot
  <2>1. snapshots' \in Seq(Seq(RecordSet))
    BY <1>0, <1>2, SnapshotsAreRecords DEF PublishSnapshot
  <2>2. NetworkInv'
    BY <1>0, <1>2, <2>1 DEF PublishSnapshot, NetworkInv, inboundVars
  <2> QED BY <1>0, <1>2, <2>2, ElsewhereInv DEF PublishSnapshot, inboundVars
<1>3. CASE LoseIncremental
  <2>1. incrementals' \in Seq(Seq(IncrementalSet))
    BY <1>0, <1>3, WithoutType DEF LoseIncremental
  <2>2. NetworkInv'
    BY <1>0, <1>3, <2>1 DEF LoseIncremental, NetworkInv, inboundVars
  <2> QED BY <1>0, <1>3, <2>2, ElsewhereInv DEF LoseIncremental, inboundVars
<1>4. CASE LoseSnapshot
  <2>1. snapshots' \in Seq(Seq(RecordSet))
    BY <1>0, <1>4, WithoutType DEF LoseSnapshot
  <2>2. NetworkInv'
    BY <1>0, <1>4, <2>1 DEF LoseSnapshot, NetworkInv, inboundVars
  <2> QED BY <1>0, <1>4, <2>2, ElsewhereInv DEF LoseSnapshot, inboundVars
<1>5. CASE PassBy
  <2>1. snapshots' \in Seq(Seq(RecordSet))
    BY <1>0, <1>5 DEF PassBy
  <2>2. NetworkInv'
    BY <1>0, <1>5, <2>1 DEF PassBy, NetworkInv, inboundVars
  <2> QED BY <1>0, <1>5, <2>2, ElsewhereInv DEF PassBy, inboundVars
<1>6. CASE Handle
  BY <1>6, HandleInv
<1>7. CASE Stop
  <2>1. NetworkInv'
    BY <1>0, <1>7 DEF Stop, NetworkInv, networkVars, inboundVars
  <2> QED BY <1>0, <1>7, <2>1, ElsewhereInv DEF Stop, networkVars, inboundVars
<1>8. ASSUME NEW i \in 1 .. MaxUpdates, NEW again \in BOOLEAN, ReceiveIncremental(i, again)
      PROVE  IInv'
  <2>1. i \in DOMAIN incrementals /\ inbound' = incrementals[i] /\ is_snapshot' = FALSE
        /\ sent' = sent /\ running' = running /\ UNCHANGED <<consumerVars, arrived>>
    BY <1>8 DEF ReceiveIncremental, Receive
  <2>2. inbound' \in Seq(IncrementalSet) /\ Without(incrementals, i) \in Seq(Seq(IncrementalSet))
    BY <1>0, <2>1, WithoutType
  <2>3. inbound' \in Seq(RecordSet)
    BY <2>2, IncrementalsAreRecords
  <2>4. NetworkInv'
    BY <1>0, <1>8, <2>1, <2>2 DEF ReceiveIncremental, NetworkInv
  <2> QED BY <1>0, <2>1, <2>3, <2>4, ElsewhereInv
<1>9. ASSUME NEW i \in 1 .. MaxSnapshots, NEW again \in BOOLEAN, ReceiveSnapshot(i, again)
      PROVE  IInv'
  <2>1. i \in DOMAIN snapshots /\ inbound' = snapshots[i] /\ is_snapshot' = TRUE
        /\ sent' = sent /\ running' = running /\ UNCHANGED <<consumerVars, arrived>>
    BY <1>9 DEF ReceiveSnapshot, Receive
  <2>2. inbound' \in Seq(RecordSet) /\ Without(snapshots, i) \in Seq(Seq(RecordSet))
    BY <1>0, <2>1, WithoutType
  <2>3. NetworkInv'
    BY <1>0, <1>9, <2>1, <2>2 DEF ReceiveSnapshot, NetworkInv
  <2> QED BY <1>0, <2>1, <2>2, <2>3, ElsewhereInv
<1>10. CASE UNCHANGED vars
  <2>1. NetworkInv'
    BY <1>0, <1>10 DEF vars, NetworkInv, networkVars, inboundVars
  <2> QED BY <1>0, <1>10, <2>1, ElsewhereInv DEF vars, networkVars, inboundVars
<1> QED BY <1>1, <1>2, <1>3, <1>4, <1>5, <1>6, <1>7, <1>8, <1>9, <1>10 DEF Next

----------------------------------------------------------------------------

\* The invariant in every state of every behaviour.
THEOREM ConsumerInvariant == Spec => []IInv
<1>1. IInv /\ [Next]_vars => IInv'
  BY StepInv
<1> QED BY <1>1, InitInv, PTL DEF Spec

\* The members of MarketDataConsumer keep their types.
THEOREM TypeCorrect == Spec => []TypeOK
<1>1. IInv => TypeOK
  BY DEF IInv
<1> QED BY <1>1, ConsumerInvariant, PTL

\* Whatever the network does, recvCallback() passes on a stream without a gap
\* and without a repetition, for every number of updates and faults.
THEOREM StreamFollowed == Spec => []FollowsTheStream
<1>1. IInv => FollowsTheStream
  <2> SUFFICES ASSUME IInv, NEW i \in DOMAIN delivered
               PROVE  /\ delivered[i].type = "INCREMENTAL"
                      /\ delivered[i].number = (IF i - 1 = 0 THEN 0 ELSE delivered[i - 1].number) + 1
    BY DEF FollowsTheStream
  <2>1. /\ i \in Nat /\ i >= 1 /\ delivered[i] = Update("INCREMENTAL", i)
        /\ i # 1 => delivered[i - 1] = Update("INCREMENTAL", i - 1)
    BY DEF IInv, TypeOK, StreamInv
  <2> QED BY <2>1 DEF Update
<1> QED BY <1>1, ConsumerInvariant, PTL

\* No update that reached the consumer is lost to the engine before a recovery
\* ends: it was passed on, or it is queued.
THEOREM ArrivedIsKept == Spec => []NothingThrownAway
<1>1. IInv => NothingThrownAway
  <2> SUFFICES ASSUME IInv, NEW n \in arrived, n \notin DOMAIN incremental_queued_msgs
               PROVE  \E i \in DOMAIN delivered : delivered[i].number >= n
    BY DEF NothingThrownAway
  <2>1. n \in 1 .. next_exp_inc_seq_num - 1 /\ n \in DOMAIN delivered
    BY DEF IInv, TypeOK, StreamInv, ArrivedInv
  <2>2. delivered[n].number = n
    BY <2>1 DEF IInv, StreamInv, Update
  <2> QED BY <2>1, <2>2
<1> QED BY <1>1, ConsumerInvariant, PTL

\* A consumer in recovery stays in recovery and passes nothing on any more,
\* whatever it receives: checkSnapshotSync() accepts no snapshot.
THEOREM NoSnapshotEndsRecovery == Spec => RecoveryIsFinal
<1>1. ASSUME IInv, [Next]_vars, in_recovery PROVE in_recovery' /\ delivered' = delivered
  <2>1. CASE Handle
    <3>1. UNCHANGED consumerVars \/ (\E s, inc : StillWaits(s, inc))
      BY <1>1, <2>1, HandleCases
    <3> QED BY <1>1, <3>1 DEF StillWaits, Consumer, consumerVars
  <2>2. CASE ~Handle
    BY <1>1, <2>2 DEF Next, Publish, PublishSnapshot, LoseIncremental, LoseSnapshot, PassBy, Stop,
                      ReceiveIncremental, ReceiveSnapshot, Receive, vars, consumerVars
  <2> QED BY <2>1, <2>2
<1>2. IInv /\ [Next]_vars => [in_recovery => in_recovery' /\ delivered' = delivered]_vars
  BY <1>1
<1> QED BY <1>2, ConsumerInvariant, PTL DEF Spec, RecoveryIsFinal

=============================================================================
