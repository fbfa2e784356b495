--------------------- MODULE MarketDataPublisherProofs ---------------------
(***************************************************************************)
(* TLAPS proofs about MarketDataPublisher, for every size of the ring and  *)
(* of the buffer and every number of updates, under MaxBacklog < Size.     *)
(*                                                                         *)
(* The queue's own invariant is taken from LFQueueProofs: every step of    *)
(* the publisher is a step of the queue or leaves it alone.  On top of it, *)
(* the copy for the synthesizer is made from the slot just before the read *)
(* index, and SlackInv says that the engine never fills that slot: with    *)
(* one slot left free, it is the last one a turn of the ring gets to.      *)
(***************************************************************************)
EXTENDS MarketDataPublisher, TLAPS, SequenceTheorems

QP == INSTANCE LFQueueProofs

One(b) == IF b THEN 1 ELSE 0

\* Where the thread is in run() and where it is in the pop go together.
PlaceInv == /\ mpc \in {"new", "loop", "drain", "stopped"} => cpc = "idle"
            /\ mpc = "send" => cpc = "holding" /\ market_update = next_read_index
            /\ mpc = "release" => \/ cpc = "holding" /\ market_update = next_read_index
                                  \/ cpc = "advanced" /\ market_update = QP!Ahead(Size - 1)
            /\ mpc = "copy" => cpc = "idle" /\ market_update = QP!Ahead(Size - 1)

\* One slot is free, also while an element is released.
SlackInv == QP!Unread + One(ppc = "filling") + One(cpc = "advanced") <= Size - 1

\* The slot the thread works with has the update of its number, until it is done.
SlotInv == mpc \in {"send", "release", "copy"} => store[market_update] = next_inc_seq_num

NumberInv == mpc # "exited" =>
               next_inc_seq_num = reads + (IF cpc = "advanced" \/ mpc = "copy" THEN 0 ELSE 1)

Numbered(s) == \A n \in 1 .. Len(s) : s[n] = Record(n, n)

\* What went out and what went to the synthesizer.
StreamInv == /\ Numbered(sent \o outbound)
             /\ Numbered(snapshot_md_updates)
             /\ next_inc_seq_num >= 1 /\ Len(snapshot_md_updates) = next_inc_seq_num - 1
             /\ Len(sent) + Len(outbound) >= Len(snapshot_md_updates)
             /\ mpc # "exited" => Len(sent) + Len(outbound) =
                     next_inc_seq_num - (IF mpc \in {"release", "copy"} THEN 0 ELSE 1)
             /\ mpc \in {"new", "loop", "stopped"} => outbound = <<>>

ThreadType == /\ mpc \in {"new", "loop", "drain", "send", "release", "copy", "stopped", "exited"}
              /\ run \in BOOLEAN
              /\ market_update \in 0 .. Size - 1
              /\ next_inc_seq_num \in Nat
              /\ outbound \in Seq(RecordType) /\ sent \in Seq(RecordType)
              /\ snapshot_md_updates \in Seq(RecordType)

IInv == QP!IInv /\ ThreadType /\ PlaceInv /\ SlackInv /\ SlotInv /\ NumberInv /\ StreamInv

----------------------------------------------------------------------------

\* What the invariant of the queue says, without its names.
LEMMA QueueFacts ==
    ASSUME QP!IInv
    PROVE  /\ store \in [0 .. Size - 1 -> Int] /\ next_read_index \in 0 .. Size - 1
           /\ next_write_index \in 0 .. Size - 1
           /\ num_elements \in Nat /\ reads \in Nat /\ written \in Nat
           /\ ppc \in {"idle", "filling", "filled", "advanced"}
           /\ cpc \in {"idle", "holding", "advanced"}
           /\ QP!Unread \in Nat
           /\ ppc \in {"idle", "filling"} => next_write_index = QP!Ahead(QP!Unread)
           /\ cpc = "holding" => QP!Unread >= 1
           /\ cpc = "idle" /\ num_elements # 0 => store[next_read_index] = reads + 1
           /\ ppc = "idle" /\ cpc # "advanced" => num_elements = QP!Unread
           /\ ppc = "idle" /\ cpc = "advanced" => num_elements = QP!Unread + 1
<1> USE QueueAssumption
<1>1. QP!TypeOK /\ cpc # "failed" /\ QP!CounterInv /\ QP!IndexInv /\ QP!ContentInv
  BY DEF QP!IInv
<1>2. /\ store \in [0 .. Size - 1 -> Int] /\ next_read_index \in 0 .. Size - 1
      /\ next_write_index \in 0 .. Size - 1
      /\ num_elements \in Nat /\ reads \in Nat /\ written \in Nat
      /\ ppc \in {"idle", "filling", "filled", "advanced"}
      /\ cpc \in {"idle", "holding", "advanced"}
  BY <1>1 DEF QP!TypeOK, QP!Slot, QP!Element, QP!Torn
<1>3. QP!Unread \in Int
  BY <1>2 DEF QP!Unread
<1>4. QP!Unread \in Nat
  BY <1>1, <1>3 DEF QP!CounterInv, QP!One
<1>5. ppc \in {"idle", "filling"} => next_write_index = QP!Ahead(QP!Unread)
  BY <1>1, <1>3 DEF QP!IndexInv, QP!One
<1>6. /\ ppc = "idle" /\ cpc # "advanced" => num_elements = QP!Unread
      /\ ppc = "idle" /\ cpc = "advanced" => num_elements = QP!Unread + 1
  BY <1>1, <1>2, <1>3 DEF QP!CounterInv, QP!One
<1>7. cpc = "holding" => QP!Unread >= 1
  BY <1>1, <1>2, <1>3 DEF QP!CounterInv, QP!One
<1>8. cpc = "idle" /\ num_elements # 0 => store[next_read_index] = reads + 1
  <2> SUFFICES ASSUME cpc = "idle", num_elements # 0 PROVE store[next_read_index] = reads + 1
    OBVIOUS
  <2>1. 0 \in 0 .. QP!Unread - 1
    BY <1>1, <1>2, <1>3 DEF QP!CounterInv, QP!One
  <2>2. QP!Ahead(0) = next_read_index
    BY <1>2 DEF QP!Ahead
  <2> QED BY <1>1, <1>2, <2>1, <2>2 DEF QP!ContentInv
<1> QED BY <1>2, <1>4, <1>5, <1>6, <1>7, <1>8

\* The steps of the publisher's queue are the steps of LFQueue.
LEMMA QueueSteps ==
    /\ Queue!Init => QP!Init
    /\ Queue!BeginFill => QP!BeginFill
    /\ Queue!EndFill => QP!EndFill
    /\ Queue!AdvanceWrite => QP!AdvanceWrite
    /\ Queue!CountWrite => QP!CountWrite
    /\ Queue!Peek => QP!Peek
    /\ Queue!AdvanceRead => QP!AdvanceRead
    /\ Queue!CountRead => QP!CountRead
<1>1. Queue!Init => QP!Init
  BY DEF Queue!Init, QP!Init, Queue!Slot, QP!Slot
<1>2. Queue!BeginFill => QP!BeginFill
  BY DEF Queue!BeginFill, QP!BeginFill, Queue!Torn, QP!Torn, Queue!consVars, QP!consVars
<1>3. Queue!EndFill => QP!EndFill
  BY DEF Queue!EndFill, QP!EndFill, Queue!consVars, QP!consVars
<1>4. Queue!AdvanceWrite => QP!AdvanceWrite
  BY DEF Queue!AdvanceWrite, QP!AdvanceWrite, Queue!Succ, QP!Succ, Queue!consVars, QP!consVars
<1>5. Queue!CountWrite => QP!CountWrite
  BY DEF Queue!CountWrite, QP!CountWrite, Queue!consVars, QP!consVars
<1>6. Queue!Peek => QP!Peek
  BY DEF Queue!Peek, QP!Peek, Queue!prodVars, QP!prodVars
<1>7. Queue!AdvanceRead => QP!AdvanceRead
  BY DEF Queue!AdvanceRead, QP!AdvanceRead, Queue!Succ, QP!Succ, Queue!prodVars, QP!prodVars
<1>8. Queue!CountRead => QP!CountRead
  BY DEF Queue!CountRead, QP!CountRead, Queue!prodVars, QP!prodVars
<1> QED BY <1>1, <1>2, <1>3, <1>4, <1>5, <1>6, <1>7, <1>8

\* Hence the queue keeps its invariant, whatever the publisher does.
LEMMA QueueInv ==
    ASSUME MaxBacklog < Size, QP!IInv, [Next]_vars PROVE QP!IInv'
<1>1. [QP!Next]_(QP!vars)
  <2>1. CASE Push
    BY <2>1, QueueSteps DEF Push, Queue!FinishPush, QP!Next, QP!FinishPush
  <2>2. CASE TakeNext
    BY <2>2, QueueSteps DEF TakeNext, QP!Next, QP!Consumer
  <2>3. CASE Release
    BY <2>3, QueueSteps DEF Release, QP!Next, QP!Consumer
  <2>4. CASE UNCHANGED queueVars
    BY <2>4 DEF queueVars, QP!vars, QP!prodVars, QP!consVars
  <2> QED BY <2>1, <2>2, <2>3, <2>4 DEF Next, Publisher, Start, Stop, Loop, Send, Copy,
                                        SendAndRecv, vars
<1>2. MaxBacklog <= Size
  BY QueueAssumption
<1>3. QP!SizeAssumption /\ QP!LoadAssumption
  BY QueueAssumption DEF QP!SizeAssumption, QP!LoadAssumption
<1> QED BY <1>1, <1>2, <1>3, QP!StepInv, SMT

\* The slots a turn of the ring apart: the slot the thread reads or has just
\* released is not the one the engine fills.
LEMMA OtherSlot ==
    ASSUME MaxBacklog < Size, IInv, mpc \in {"send", "release", "copy"},
           Queue!BeginFill \/ Queue!EndFill
    PROVE  market_update # next_write_index
<1> USE QueueAssumption
<1>1. QP!Unread \in Nat /\ next_write_index = QP!Ahead(QP!Unread) /\ QP!Unread < Size - 1
  <2>1. CASE Queue!BeginFill
    <3>1. ppc = "idle" /\ num_elements < MaxBacklog
      BY <2>1 DEF Queue!BeginFill
    <3>2. cpc # "failed"
      BY QueueFacts DEF IInv
    <3> QED BY <3>1, <3>2, QueueFacts DEF IInv
  <2>2. CASE Queue!EndFill
    <3>1. ppc = "filling"
      BY <2>2 DEF Queue!EndFill
    <3>2. QP!Unread \in Nat /\ next_write_index = QP!Ahead(QP!Unread)
      BY <3>1, QueueFacts DEF IInv
    <3>3. QP!Unread + 1 + One(cpc = "advanced") <= Size - 1 /\ One(cpc = "advanced") \in {0, 1}
      BY <3>1 DEF IInv, SlackInv, One
    <3> QED BY <3>2, <3>3
  <2> QED BY <2>1, <2>2
<1>2. next_read_index \in 0 .. Size - 1
  BY QueueFacts DEF IInv
<1>3. CASE market_update = QP!Ahead(Size - 1)
  BY <1>1, <1>2, <1>3 DEF QP!Ahead
<1>4. CASE cpc = "holding" /\ market_update = next_read_index
  <2>1. QP!Unread >= 1
    BY <1>4, QueueFacts DEF IInv
  <2> QED BY <1>1, <1>2, <1>4, <2>1 DEF QP!Ahead
<1> QED BY <1>3, <1>4 DEF IInv, PlaceInv

\* A stream and the next record of it.
LEMMA StreamGrows ==
    ASSUME NEW S, NEW s \in Seq(S), NEW t \in Seq(S), NEW r \in S
    PROVE  /\ s \o Append(t, r) = Append(s \o t, r)
           /\ s \o t \in Seq(S) /\ Len(s \o t) = Len(s) + Len(t)
           /\ (s \o t) \o <<>> = s \o t
<1>1. s \o t \in Seq(S) /\ Len(s \o t) = Len(s) + Len(t)
  BY ConcatProperties
<1>2. s \o Append(t, r) = Append(s \o t, r)
  BY AppendProperties, ConcatProperties, ConcatAssociative, AppendIsConcat
<1>3. (s \o t) \o <<>> = s \o t
  BY <1>1, ConcatEmptySeq
<1> QED BY <1>1, <1>2, <1>3

LEMMA NumberedGrows ==
    ASSUME NEW s \in Seq(RecordType), Numbered(s), NEW n \in Nat, n = Len(s) + 1
    PROVE  Numbered(Append(s, Record(n, n))) /\ Append(s, Record(n, n)) \in Seq(RecordType)
<1>1. Record(n, n) \in RecordType
  BY DEF Record, RecordType
<1>2. Numbered(Append(s, Record(n, n)))
  <2> SUFFICES ASSUME NEW i \in 1 .. Len(s) + 1
               PROVE  Append(s, Record(n, n))[i] = Record(i, i)
    BY <1>1, AppendProperties DEF Numbered
  <2>1. CASE i = Len(s) + 1
    BY <1>1, <2>1, AppendProperties
  <2>2. CASE i # Len(s) + 1
    BY <1>1, <2>2, AppendProperties DEF Numbered
  <2> QED BY <2>1, <2>2
<1> QED BY <1>1, <1>2

\* Nothing is pushed or sent yet.
LEMMA InitInv == MaxBacklog < Size /\ Init => IInv
<1> SUFFICES ASSUME MaxBacklog < Size, Init PROVE IInv
  OBVIOUS
<1> USE QueueAssumption
<1>1. QP!IInv
  <2>1. QP!SizeAssumption /\ QP!LoadAssumption
    BY DEF QP!SizeAssumption, QP!LoadAssumption
  <2> QED BY <2>1, QueueSteps, QP!InitInv, SMT DEF Init
<1>2. ThreadType
  <2>1. <<>> \in Seq(RecordType) /\ 0 \in 0 .. Size - 1 /\ 1 \in Nat
    OBVIOUS
  <2>2. /\ outbound \in Seq(RecordType) /\ sent \in Seq(RecordType)
        /\ snapshot_md_updates \in Seq(RecordType)
        /\ market_update \in 0 .. Size - 1 /\ next_inc_seq_num \in Nat
    BY <2>1 DEF Init
  <2>3. run \in BOOLEAN /\ mpc = "new"
    BY DEF Init
  <2> QED BY <2>2, <2>3 DEF ThreadType
<1>3. PlaceInv /\ SlotInv /\ NumberInv
  BY DEF Init, Queue!Init, PlaceInv, SlotInv, NumberInv
<1>4. SlackInv
  <2>1. QP!Unread = 0 /\ One(ppc = "filling") = 0 /\ One(cpc = "advanced") = 0
    BY DEF Init, Queue!Init, QP!Unread, One
  <2> QED BY <2>1 DEF SlackInv
<1>5. StreamInv
  BY DEF Init, StreamInv, Numbered
<1> QED BY <1>1, <1>2, <1>3, <1>4, <1>5 DEF IInv

\* One slot stays free: the engine begins a push below MaxBacklog only, and an
\* element counts until its release is counted.
LEMMA SlackStep ==
    ASSUME MaxBacklog < Size, IInv, [Next]_vars PROVE SlackInv'
<1> USE QueueAssumption
<1>0. /\ SlackInv /\ written \in Nat /\ reads \in Nat
      /\ ppc = "idle" /\ cpc # "advanced" => num_elements = QP!Unread
      /\ ppc = "idle" /\ cpc = "advanced" => num_elements = QP!Unread + 1
  BY QueueFacts DEF IInv
<1>1. CASE Queue!BeginFill
  BY <1>0, <1>1 DEF Queue!BeginFill, Queue!consVars, SlackInv, One, QP!Unread
<1>2. CASE Queue!EndFill
  BY <1>0, <1>2 DEF Queue!EndFill, Queue!consVars, SlackInv, One, QP!Unread
<1>3. CASE Queue!AdvanceWrite \/ Queue!CountWrite
  BY <1>0, <1>3 DEF Queue!AdvanceWrite, Queue!CountWrite, Queue!consVars, SlackInv, One, QP!Unread
<1>4. CASE Queue!Peek
  BY <1>0, <1>4 DEF Queue!Peek, Queue!prodVars, SlackInv, One, QP!Unread
<1>5. CASE Queue!AdvanceRead
  BY <1>0, <1>5 DEF Queue!AdvanceRead, Queue!prodVars, SlackInv, One, QP!Unread
<1>6. CASE Queue!CountRead
  BY <1>0, <1>6 DEF Queue!CountRead, Queue!prodVars, SlackInv, One, QP!Unread
<1>7. CASE UNCHANGED queueVars
  BY <1>0, <1>7 DEF queueVars, SlackInv, One, QP!Unread
<1> QED BY <1>1, <1>2, <1>3, <1>4, <1>5, <1>6, <1>7
        DEF Next, Publisher, Push, Queue!FinishPush, Start, Stop, Loop, TakeNext, Send, Release,
            Copy, SendAndRecv, vars

\* A push of the engine leaves the thread and the slot it works with alone.
LEMMA PushKeeps ==
    ASSUME MaxBacklog < Size, IInv, Push
    PROVE  ThreadType' /\ PlaceInv' /\ SlotInv' /\ NumberInv' /\ StreamInv'
<1>1. /\ UNCHANGED <<mpc, run, market_update, next_inc_seq_num, socketVars, snapshot_md_updates>>
      /\ UNCHANGED <<cpc, reads, next_read_index>>
  BY DEF Push, Queue!FinishPush, Queue!BeginFill, Queue!EndFill, Queue!AdvanceWrite,
         Queue!CountWrite, Queue!consVars
<1>2. ThreadType' /\ PlaceInv' /\ NumberInv' /\ StreamInv'
  BY <1>1 DEF IInv, ThreadType, PlaceInv, NumberInv, StreamInv, Numbered, QP!Ahead, socketVars
<1>3. SlotInv'
  <2> SUFFICES ASSUME mpc \in {"send", "release", "copy"}
               PROVE  store'[market_update] = next_inc_seq_num
    BY <1>1 DEF SlotInv
  <2>1. store[market_update] = next_inc_seq_num
    BY DEF IInv, SlotInv
  <2>2. CASE Queue!BeginFill
    <3>1. market_update # next_write_index
      BY <2>2, OtherSlot
    <3>2. store \in [0 .. Size - 1 -> Int] /\ market_update \in 0 .. Size - 1
      BY QueueFacts DEF IInv, ThreadType
    <3> QED BY <2>1, <2>2, <3>1, <3>2 DEF Queue!BeginFill
  <2>3. CASE Queue!EndFill
    <3>1. market_update # next_write_index
      BY <2>3, OtherSlot
    <3>2. store \in [0 .. Size - 1 -> Int] /\ market_update \in 0 .. Size - 1
      BY QueueFacts DEF IInv, ThreadType
    <3> QED BY <2>1, <2>3, <3>1, <3>2 DEF Queue!EndFill
  <2>4. CASE Queue!AdvanceWrite \/ Queue!CountWrite
    BY <2>1, <2>4 DEF Queue!AdvanceWrite, Queue!CountWrite
  <2> QED BY <2>2, <2>3, <2>4 DEF Push, Queue!FinishPush
<1> QED BY <1>2, <1>3

\* The steps of run() that leave the queue alone, and the release of a slot.
LEMMA ThreadKeeps ==
    ASSUME MaxBacklog < Size, IInv, Publisher
    PROVE  ThreadType' /\ PlaceInv' /\ SlotInv' /\ NumberInv' /\ StreamInv'
<1> USE QueueAssumption
<1>0. /\ store \in [0 .. Size - 1 -> Int] /\ next_read_index \in 0 .. Size - 1 /\ reads \in Nat
      /\ ThreadType /\ PlaceInv /\ SlotInv /\ NumberInv /\ StreamInv
      /\ cpc \in {"idle", "holding", "advanced"}
      /\ num_elements \in Nat
  BY QueueFacts DEF IInv
<1>1. CASE Loop
  BY <1>0, <1>1 DEF Loop, ThreadType, PlaceInv, SlotInv, NumberInv, StreamInv, Numbered, QP!Ahead,
                    queueVars, socketVars
<1>2. CASE TakeNext
  <2>1. /\ mpc = "drain" /\ mpc' = "send" /\ cpc = "idle" /\ cpc' = "holding"
        /\ market_update' = next_read_index
        /\ UNCHANGED <<store, next_read_index, reads, run, next_inc_seq_num, outbound, sent,
                       snapshot_md_updates>>
    BY <1>2 DEF TakeNext, Queue!Peek, socketVars
  <2>2. store[next_read_index] = reads + 1
    <3>1. num_elements # 0 /\ cpc = "idle"
      BY <1>2 DEF TakeNext, Queue!Peek
    <3> QED BY <3>1, QueueFacts DEF IInv
  <2>3. ThreadType'
    BY <1>0, <2>1 DEF ThreadType
  <2>4. PlaceInv' /\ SlotInv' /\ NumberInv'
    BY <1>0, <2>1, <2>2 DEF PlaceInv, SlotInv, NumberInv
  <2>5. StreamInv'
    BY <1>0, <2>1 DEF StreamInv, Numbered
  <2> QED BY <2>3, <2>4, <2>5
<1>3. CASE Send
  <2> DEFINE r == Record(next_inc_seq_num, next_inc_seq_num)
  <2>1. /\ mpc = "send" /\ mpc' \in {"release", "exited"}
        /\ outbound' = Append(outbound, r)
        /\ UNCHANGED <<queueVars, run, market_update, next_inc_seq_num, sent, snapshot_md_updates>>
    BY <1>0, <1>3 DEF Send, SlotInv
  <2>2. /\ next_inc_seq_num \in Nat /\ outbound \in Seq(RecordType) /\ sent \in Seq(RecordType)
        /\ Len(sent) + Len(outbound) = next_inc_seq_num - 1
    BY <1>0, <2>1 DEF ThreadType, StreamInv
  <2>3. r \in RecordType
    BY <2>2 DEF Record, RecordType
  <2>4. /\ sent \o outbound \in Seq(RecordType) /\ Len(sent \o outbound) + 1 = next_inc_seq_num
        /\ sent \o outbound' = Append(sent \o outbound, r)
    BY <2>1, <2>2, <2>3, StreamGrows
  <2>5. Numbered(sent \o outbound')
    BY <1>0, <2>2, <2>4, NumberedGrows DEF StreamInv
  <2>6. Len(outbound') = Len(outbound) + 1 /\ outbound' \in Seq(RecordType)
    BY <2>1, <2>2, <2>3
  <2> HIDE DEF r
  <2>7. ThreadType'
    BY <1>0, <2>1, <2>6 DEF ThreadType
  <2>8. PlaceInv' /\ SlotInv' /\ NumberInv'
    BY <1>0, <2>1 DEF PlaceInv, SlotInv, NumberInv, QP!Ahead, queueVars
  <2>9. StreamInv'
    BY <1>0, <2>1, <2>2, <2>5, <2>6 DEF StreamInv, Numbered
  <2> QED BY <2>7, <2>8, <2>9
<1>4. CASE Release
  <2>1. /\ mpc = "release"
        /\ UNCHANGED <<run, market_update, next_inc_seq_num, outbound, sent, snapshot_md_updates,
                       store>>
    BY <1>4 DEF Release, socketVars, Queue!AdvanceRead, Queue!CountRead
  <2>2. CASE Queue!AdvanceRead /\ UNCHANGED mpc
    <3>1. /\ cpc = "holding" /\ cpc' = "advanced" /\ reads' = reads + 1
          /\ next_read_index' = Queue!Succ(next_read_index)
      BY <2>2 DEF Queue!AdvanceRead
    <3>2. market_update = next_read_index
      BY <1>0, <2>1, <3>1 DEF PlaceInv
    <3>3. next_read_index' = IF next_read_index + 1 < Size THEN next_read_index + 1 ELSE 0
      BY <1>0, <3>1 DEF Queue!Succ
    <3>4. market_update' = QP!Ahead(Size - 1)'
      BY <1>0, <2>1, <3>2, <3>3 DEF QP!Ahead
    <3>5. PlaceInv' /\ SlotInv' /\ NumberInv'
      BY <1>0, <2>1, <2>2, <3>1, <3>4 DEF PlaceInv, SlotInv, NumberInv
    <3> QED BY <1>0, <2>1, <2>2, <3>5 DEF ThreadType, StreamInv, Numbered
  <2>3. CASE Queue!CountRead /\ mpc' = IF cpc' = "failed" THEN "exited" ELSE "copy"
    <3>1. QP!IInv'
      BY <1>4, QueueInv DEF Next, Publisher, IInv
    <3>2. cpc' # "failed"
      BY <3>1 DEF QP!IInv
    <3>3. /\ cpc = "advanced" /\ cpc' = "idle" /\ mpc' = "copy"
          /\ reads' = reads /\ next_read_index' = next_read_index
      BY <2>3, <3>2 DEF Queue!CountRead
    <3>4. PlaceInv' /\ SlotInv' /\ NumberInv'
      BY <1>0, <2>1, <3>3 DEF PlaceInv, SlotInv, NumberInv, QP!Ahead
    <3> QED BY <1>0, <2>1, <3>3, <3>4 DEF ThreadType, StreamInv, Numbered
  <2> QED BY <1>4, <2>2, <2>3 DEF Release
<1>5. CASE Copy
  <2> DEFINE r == Record(next_inc_seq_num, next_inc_seq_num)
  <2>1. /\ mpc = "copy" /\ mpc' = "drain" /\ next_inc_seq_num' = next_inc_seq_num + 1
        /\ snapshot_md_updates' = Append(snapshot_md_updates, r)
        /\ UNCHANGED <<queueVars, run, market_update, sent, outbound>>
    BY <1>0, <1>5 DEF Copy, SlotInv, socketVars
  <2>2. /\ next_inc_seq_num \in Nat /\ snapshot_md_updates \in Seq(RecordType)
        /\ Len(snapshot_md_updates) = next_inc_seq_num - 1 /\ Numbered(snapshot_md_updates)
        /\ sent \in Seq(RecordType) /\ outbound \in Seq(RecordType)
    BY <1>0 DEF ThreadType, StreamInv
  <2>3. Numbered(snapshot_md_updates') /\ snapshot_md_updates' \in Seq(RecordType)
    BY <2>1, <2>2, NumberedGrows
  <2>4. Len(snapshot_md_updates') = next_inc_seq_num
    BY <2>1, <2>2
  <2> HIDE DEF r
  <2>5. ThreadType'
    BY <1>0, <2>1, <2>3 DEF ThreadType
  <2>6. PlaceInv' /\ SlotInv' /\ NumberInv'
    BY <1>0, <2>1 DEF PlaceInv, SlotInv, NumberInv, queueVars
  <2>7. StreamInv'
    BY <1>0, <2>1, <2>2, <2>3, <2>4 DEF StreamInv, Numbered
  <2> QED BY <2>5, <2>6, <2>7
<1>6. CASE SendAndRecv
  <2>1. /\ mpc = "drain" /\ mpc' = "loop" /\ sent' = sent \o outbound /\ outbound' = <<>>
        /\ UNCHANGED <<queueVars, run, market_update, next_inc_seq_num, snapshot_md_updates>>
    BY <1>6 DEF SendAndRecv
  <2>2. sent \in Seq(RecordType) /\ outbound \in Seq(RecordType)
    BY <1>0 DEF ThreadType
  <2>3. sent' \in Seq(RecordType) /\ Len(sent') = Len(sent) + Len(outbound)
        /\ outbound' \in Seq(RecordType) /\ Len(outbound') = 0
    BY <2>1, <2>2, ConcatProperties
  <2>4. sent' \o outbound' = sent \o outbound
    BY <2>1, <2>3, ConcatEmptySeq
  <2>5. ThreadType'
    BY <1>0, <2>1, <2>3 DEF ThreadType
  <2>6. PlaceInv' /\ SlotInv' /\ NumberInv'
    BY <1>0, <2>1 DEF PlaceInv, SlotInv, NumberInv, queueVars
  <2>7. StreamInv'
    BY <1>0, <2>1, <2>2, <2>3, <2>4 DEF StreamInv, Numbered
  <2> QED BY <2>5, <2>6, <2>7
<1> QED BY <1>1, <1>2, <1>3, <1>4, <1>5, <1>6 DEF Publisher

\* Every step of the thread, the engine and the main thread preserves it.
LEMMA StepInv ==
    ASSUME MaxBacklog < Size, IInv, [Next]_vars PROVE IInv'
<1>1. QP!IInv' /\ SlackInv'
  BY QueueInv, SlackStep DEF IInv
<1>2. ThreadType' /\ PlaceInv' /\ SlotInv' /\ NumberInv' /\ StreamInv'
  <2>0. ThreadType /\ PlaceInv /\ SlotInv /\ NumberInv /\ StreamInv
    BY DEF IInv
  <2>1. CASE Push
    BY <2>1, PushKeeps
  <2>2. CASE Publisher
    BY <2>2, ThreadKeeps
  <2>3. CASE Start
    <3>1. /\ mpc = "new" /\ mpc' \in {"exited", "loop"} /\ run' \in {run, TRUE}
          /\ UNCHANGED <<queueVars, market_update, next_inc_seq_num, socketVars,
                         snapshot_md_updates>>
      BY <2>3 DEF Start
    <3>2. ThreadType'
      BY <2>0, <3>1 DEF ThreadType, socketVars
    <3>3. PlaceInv' /\ SlotInv' /\ NumberInv'
      BY <2>0, <3>1 DEF PlaceInv, SlotInv, NumberInv, queueVars
    <3>4. StreamInv'
      BY <2>0, <3>1 DEF StreamInv, Numbered, socketVars
    <3> QED BY <3>2, <3>3, <3>4
  <2>4. CASE Stop \/ UNCHANGED vars
    <3>1. /\ run' \in {run, FALSE}
          /\ UNCHANGED <<queueVars, mpc, market_update, next_inc_seq_num, socketVars,
                         snapshot_md_updates>>
      BY <2>4 DEF Stop, vars
    <3>2. ThreadType'
      BY <2>0, <3>1 DEF ThreadType, socketVars
    <3>3. PlaceInv' /\ SlotInv' /\ NumberInv'
      BY <2>0, <3>1 DEF PlaceInv, SlotInv, NumberInv, QP!Ahead, queueVars
    <3>4. StreamInv'
      BY <2>0, <3>1 DEF StreamInv, Numbered, socketVars
    <3> QED BY <3>2, <3>3, <3>4
  <2> QED BY <2>1, <2>2, <2>3, <2>4 DEF Next
<1> QED BY <1>1, <1>2 DEF IInv

----------------------------------------------------------------------------

\* The invariant in every state of every behaviour.
THEOREM PublisherInvariant == MaxBacklog < Size => (Spec => []IInv)
<1> SUFFICES ASSUME MaxBacklog < Size PROVE Spec => []IInv
  OBVIOUS
<1>1. IInv /\ [Next]_vars => IInv'
  BY StepInv
<1>2. Init => IInv
  BY InitInv
<1> QED BY <1>1, <1>2, PTL DEF Spec

\* What the synthesizer is handed is what the subscribers were sent, under the
\* same numbers, although it is copied from a slot that was released: true for
\* every ring of which the load leaves one slot free.
THEOREM SynthesizerSeesTheStream ==
    MaxBacklog < Size => (Spec => []SnapshotSeesTheStream)
<1> SUFFICES ASSUME MaxBacklog < Size PROVE Spec => []SnapshotSeesTheStream
  OBVIOUS
<1>1. IInv => SnapshotSeesTheStream
  <2> SUFFICES ASSUME IInv, NEW n \in DOMAIN snapshot_md_updates
               PROVE  snapshot_md_updates[n] = (sent \o outbound)[n]
    BY DEF SnapshotSeesTheStream
  <2>1. /\ sent \in Seq(RecordType) /\ outbound \in Seq(RecordType)
        /\ snapshot_md_updates \in Seq(RecordType) /\ StreamInv
    BY DEF IInv, ThreadType
  <2>2. Len(sent \o outbound) = Len(sent) + Len(outbound)
    BY <2>1
  <2>3. n \in 1 .. Len(snapshot_md_updates) /\ n \in 1 .. Len(sent \o outbound)
    BY <2>1, <2>2 DEF StreamInv
  <2> QED BY <2>1, <2>3 DEF StreamInv, Numbered
<1> QED BY <1>1, PublisherInvariant, PTL

\* The stream has one record of every update the thread took, in the order of
\* the engine, numbered from one without a gap.
THEOREM StreamNumbered == MaxBacklog < Size => (Spec => []StreamIsNumbered)
<1> SUFFICES ASSUME MaxBacklog < Size PROVE Spec => []StreamIsNumbered
  OBVIOUS
<1>1. IInv => StreamIsNumbered
  <2> SUFFICES ASSUME IInv PROVE StreamIsNumbered
    OBVIOUS
  <2> DEFINE stream == sent \o outbound
  <2>1. /\ sent \in Seq(RecordType) /\ outbound \in Seq(RecordType) /\ ThreadType
        /\ StreamInv /\ NumberInv /\ PlaceInv /\ reads \in Nat
    BY QueueFacts DEF IInv, ThreadType
  <2>2. Len(stream) = Len(sent) + Len(outbound) /\ stream \in Seq(RecordType)
    BY <2>1
  <2>3. \A n \in DOMAIN stream : stream[n] = Record(n, n)
    BY <2>1, <2>2 DEF StreamInv, Numbered
  <2> HIDE DEF stream
  <2>4. Len(stream) = reads + (IF mpc = "release" /\ cpc = "holding" THEN 1 ELSE 0)
          \/ mpc = "exited"
    BY <2>1, <2>2 DEF StreamInv, NumberInv, PlaceInv, ThreadType
  <2> QED BY <2>3, <2>4 DEF StreamIsNumbered, stream
<1> QED BY <1>1, PublisherInvariant, PTL

\* A stop leaves nothing in the buffer, and nothing the synthesizer was not told.
THEOREM StopIsClean == MaxBacklog < Size => (Spec => []StopLeavesNothingBehind)
<1> SUFFICES ASSUME MaxBacklog < Size PROVE Spec => []StopLeavesNothingBehind
  OBVIOUS
<1>1. IInv => StopLeavesNothingBehind
  <2> SUFFICES ASSUME IInv, mpc = "stopped"
               PROVE  outbound = <<>> /\ Len(snapshot_md_updates) = reads /\ Len(sent) = reads
    BY DEF StopLeavesNothingBehind
  <2>1. /\ ThreadType /\ StreamInv /\ NumberInv /\ PlaceInv /\ reads \in Nat
    BY QueueFacts DEF IInv
  <2>2. outbound = <<>> /\ Len(outbound) = 0 /\ next_inc_seq_num = reads + 1
    BY <2>1 DEF StreamInv, NumberInv, PlaceInv
  <2> QED BY <2>1, <2>2 DEF StreamInv, ThreadType
<1> QED BY <1>1, PublisherInvariant, PTL

\* The members of MarketDataPublisher keep their types.
THEOREM TypeCorrect == MaxBacklog < Size => (Spec => []TypeOK)
<1> SUFFICES ASSUME MaxBacklog < Size PROVE Spec => []TypeOK
  OBVIOUS
<1>1. IInv => TypeOK
  <2> SUFFICES ASSUME IInv PROVE TypeOK
    OBVIOUS
  <2>1. Queue!TypeOK
    BY DEF IInv, QP!IInv, QP!TypeOK, Queue!TypeOK, QP!Slot, Queue!Slot, QP!Element,
           Queue!Element, QP!Torn, Queue!Torn
  <2> QED BY <2>1 DEF IInv, ThreadType, TypeOK
<1> QED BY <1>1, PublisherInvariant, PTL

=============================================================================
