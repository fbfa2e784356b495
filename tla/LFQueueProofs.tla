--------------------------- MODULE LFQueueProofs ---------------------------
(***************************************************************************)
(* TLAPS proofs about LFQueue, for every ring size and every number of     *)
(* pushes.                                                                 *)
(*                                                                         *)
(* HeldIsNext needs the load assumption MaxBacklog <= Size, and is not     *)
(* inductive.  IInv adds what the two indices and the counter are in terms *)
(* of the numbers of elements written and read, that what was written and  *)
(* not read is intact in the slots after the read index, and that a pop in *)
(* progress is of an element still counted.  From it follows that the ring *)
(* takes the steps of Channel.  The types and the ASSERT of                *)
(* updateReadIndex() need no assumption on the load.                       *)
(***************************************************************************)
EXTENDS LFQueue, Sequences, TLAPS

\* Elements written and not yet passed by the read index.
Unread == written - reads

One(b) == IF b THEN 1 ELSE 0

CounterInv == /\ num_elements = Unread - One(ppc \in {"filled", "advanced"})
                                       + One(cpc = "advanced")
              /\ Unread >= One(ppc \in {"filled", "advanced"})
              /\ Unread + One(ppc = "filling") + One(cpc = "advanced") <= Size
              /\ cpc \in {"holding", "advanced"} => num_elements >= 1
              /\ ppc = "filling" => written < MaxWrites

IndexInv == next_write_index = Ahead(Unread - One(ppc = "filled"))

ContentInv == \A n \in 0 .. Unread - 1 : store[Ahead(n)] = reads + 1 + n

IInv == TypeOK /\ cpc # "failed" /\ CounterInv /\ IndexInv /\ ContentInv

\* The modulo of the index update, without the modulo.
LEMMA SuccWraps ==
    ASSUME NEW i \in Slot
    PROVE  Succ(i) = (IF i + 1 < Size THEN i + 1 ELSE 0) /\ Succ(i) \in Slot
<1>1. CASE i + 1 < Size
  BY <1>1, SizeAssumption DEF Slot, Succ
<1>2. CASE i + 1 >= Size
  BY <1>2, SizeAssumption DEF Slot, Succ
<1> QED BY <1>1, <1>2, SizeAssumption DEF Slot

\* Places after the read index are slots, and different ones within one turn.
LEMMA AheadSlots ==
    ASSUME TypeOK, NEW n \in 0 .. Size, NEW m \in 0 .. Size
    PROVE  /\ Ahead(n) \in Slot
           /\ n < m /\ m < n + Size => Ahead(n) # Ahead(m)
<1>1. next_read_index \in Int /\ 0 <= next_read_index /\ next_read_index < Size
      /\ Size \in Int /\ n \in Int /\ m \in Int /\ 0 <= n /\ n <= Size
  BY SizeAssumption DEF TypeOK, Slot
<1>2. Ahead(n) \in Slot
  BY <1>1 DEF Slot, Ahead
<1>3. n < m /\ m < n + Size => Ahead(n) # Ahead(m)
  BY <1>1 DEF Ahead
<1> QED BY <1>2, <1>3

\* The empty queue satisfies the invariant.
LEMMA InitInv == Init => IInv
<1> SUFFICES ASSUME Init PROVE IInv
  OBVIOUS
<1> USE SizeAssumption, LoadAssumption DEF Init
<1>1. 0 \in Slot /\ 0 \in Element
  BY DEF Slot, Element
<1>2. TypeOK
  BY <1>1 DEF TypeOK
<1>3. /\ Unread = 0 /\ One(cpc = "advanced") = 0
      /\ One(ppc \in {"filled", "advanced"}) = 0
      /\ One(ppc = "filled") = 0 /\ One(ppc = "filling") = 0
  BY DEF Unread, One
<1>4. CounterInv
  <2>1. cpc \notin {"holding", "advanced"} /\ ppc # "filling" /\ num_elements = 0
    OBVIOUS
  <2> QED BY <1>3, <2>1 DEF CounterInv
<1>5. IndexInv /\ ContentInv
  BY <1>3 DEF IndexInv, ContentInv, Ahead
<1> QED BY <1>2, <1>4, <1>5 DEF IInv

\* Every step of the two threads preserves it (the push and the pop of lf_queue.h).
LEMMA StepInv ==
    ASSUME MaxBacklog <= Size, IInv, [Next]_vars PROVE IInv'
<1> USE SizeAssumption, LoadAssumption
<1>1. CASE BeginFill
  <2>1. Unread \in 0 .. Size - 1 /\ next_write_index = Ahead(Unread)
    BY <1>1 DEF BeginFill, IInv, TypeOK, CounterInv, IndexInv, Unread, One, Element
  <2>2. TypeOK' /\ CounterInv' /\ IndexInv' /\ cpc' # "failed"
    BY <1>1 DEF BeginFill, IInv, TypeOK, CounterInv, IndexInv, Unread, One, Ahead, Element,
                consVars
  <2>3. ContentInv'
    <3> SUFFICES ASSUME NEW n \in 0 .. Unread - 1 PROVE store'[Ahead(n)] = reads + 1 + n
      BY <1>1 DEF BeginFill, ContentInv, Unread, Ahead, consVars
    <3>1. Ahead(n) # next_write_index /\ Ahead(n) \in Slot
      <4>1. n \in 0 .. Size /\ Unread \in 0 .. Size /\ n < Unread /\ Unread < n + Size
        BY <2>1
      <4> QED BY <2>1, <4>1, AheadSlots DEF IInv
    <3> QED BY <1>1, <3>1 DEF BeginFill, IInv, TypeOK, ContentInv
  <2> QED BY <2>2, <2>3 DEF IInv
<1>2. CASE EndFill
  <2>1. Unread \in 0 .. Size - 1 /\ next_write_index = Ahead(Unread)
    BY <1>2 DEF EndFill, IInv, TypeOK, CounterInv, IndexInv, Unread, One, Element
  <2>2. TypeOK' /\ CounterInv' /\ IndexInv' /\ cpc' # "failed"
    BY <1>2 DEF EndFill, IInv, TypeOK, CounterInv, IndexInv, Unread, One, Ahead, Element,
                consVars
  <2>3. ContentInv'
    <3> SUFFICES ASSUME NEW n \in 0 .. Unread PROVE store'[Ahead(n)] = reads + 1 + n
      BY <1>2, <2>1 DEF EndFill, ContentInv, Unread, Ahead, consVars, IInv, TypeOK, Element
    <3>1. CASE n = Unread
      BY <1>2, <2>1, <3>1 DEF EndFill, IInv, TypeOK, Unread, Element
    <3>2. CASE n # Unread
      <4>1. Ahead(n) # next_write_index /\ Ahead(n) \in Slot
        BY <2>1, <3>2, AheadSlots DEF IInv
      <4> QED BY <1>2, <2>1, <3>2, <4>1 DEF EndFill, IInv, TypeOK, ContentInv
    <3> QED BY <3>1, <3>2
  <2> QED BY <2>2, <2>3 DEF IInv
<1>3. CASE AdvanceWrite
  <2>1. Unread \in 1 .. Size /\ next_write_index = Ahead(Unread - 1)
    BY <1>3 DEF AdvanceWrite, IInv, TypeOK, CounterInv, IndexInv, Unread, One, Element
  <2>2. next_write_index' = Ahead(Unread) /\ next_write_index' \in Slot
    <3>1. next_write_index \in Slot /\ next_write_index' = Succ(next_write_index)
      BY <1>3 DEF AdvanceWrite, IInv, TypeOK
    <3> QED BY <2>1, <3>1, SuccWraps DEF IInv, TypeOK, Ahead, Slot
  <2> QED BY <1>3, <2>1, <2>2 DEF AdvanceWrite, IInv, TypeOK, CounterInv, IndexInv, ContentInv,
                                  Unread, One, Ahead, Element, consVars
<1>4. CASE CountWrite
  BY <1>4 DEF CountWrite, IInv, TypeOK, CounterInv, IndexInv, ContentInv, Unread, One, Ahead,
              Element, consVars
<1>5. CASE Peek
  BY <1>5 DEF Peek, IInv, TypeOK, CounterInv, IndexInv, ContentInv, Unread, One, Ahead,
              Element, prodVars
<1>6. CASE AdvanceRead
  <2>1. Unread \in 1 .. Size
    BY <1>6 DEF AdvanceRead, IInv, TypeOK, CounterInv, Unread, One, Element
  <2>2. next_read_index' \in Slot /\ Unread' = Unread - 1
        /\ \A n \in 0 .. Size - 1 : Ahead(n)' = Ahead(n + 1)
    <3>1. next_read_index \in Slot /\ next_read_index' = Succ(next_read_index)
      BY <1>6 DEF AdvanceRead, IInv, TypeOK
    <3>2. Unread' = Unread - 1
      BY <1>6 DEF AdvanceRead, IInv, TypeOK, Unread, Element, prodVars
    <3> QED BY <3>1, <3>2, SuccWraps DEF Ahead, Slot
  <2>3. TypeOK' /\ CounterInv' /\ cpc' # "failed"
    BY <1>6, <2>1, <2>2 DEF AdvanceRead, IInv, TypeOK, CounterInv, One, Unread, Element, prodVars
  <2>4. IndexInv'
    BY <1>6, <2>1, <2>2 DEF AdvanceRead, IInv, CounterInv, IndexInv, One, prodVars
  <2>5. ContentInv'
    BY <1>6, <2>1, <2>2 DEF AdvanceRead, IInv, TypeOK, ContentInv
  <2> QED BY <2>3, <2>4, <2>5 DEF IInv
<1>7. CASE CountRead
  BY <1>7 DEF CountRead, IInv, TypeOK, CounterInv, IndexInv, ContentInv, Unread, One, Ahead,
              Element, prodVars
<1>8. CASE UNCHANGED vars
  BY <1>8 DEF vars, prodVars, consVars, IInv, TypeOK, CounterInv, IndexInv, ContentInv, Unread,
              One, Ahead
<1> QED BY <1>1, <1>2, <1>3, <1>4, <1>5, <1>6, <1>7, <1>8 DEF Next, FinishPush, Consumer

\* The invariant in every state of every behaviour.
THEOREM QueueInvariant == MaxBacklog <= Size => (Spec => []IInv)
<1> SUFFICES ASSUME MaxBacklog <= Size PROVE Spec => []IInv
  OBVIOUS
<1>1. IInv /\ [Next]_vars => IInv'
  BY StepInv
<1> QED BY <1>1, InitInv, PTL DEF Spec

\* A consumer reads the elements whole, in order and each once, as long as
\* the load keeps the backlog within the ring.
THEOREM QueueIsFifo == MaxBacklog <= Size => (Spec => []HeldIsNext)
<1> SUFFICES ASSUME MaxBacklog <= Size PROVE Spec => []HeldIsNext
  OBVIOUS
<1>1. IInv => HeldIsNext
  <2> SUFFICES ASSUME IInv, cpc = "holding" PROVE store[next_read_index] = reads + 1
    BY DEF IInv, HeldIsNext
  <2>1. 0 \in 0 .. Unread - 1
    BY DEF IInv, TypeOK, CounterInv, Unread, One, Element
  <2>2. Ahead(0) = next_read_index
    BY SizeAssumption DEF IInv, TypeOK, Slot, Ahead
  <2> QED BY <2>1, <2>2 DEF IInv, TypeOK, ContentInv
<1> QED BY <1>1, QueueInvariant, PTL

----------------------------------------------------------------------------
(***************************************************************************)
(* What holds under every load, also when the writer laps the reader.      *)
(***************************************************************************)

\* A push and a pop that began have passed their tests: only the consumer
\* takes from the counter, so what it saw there stays.
BegunInv == /\ ppc = "filling" => written < MaxWrites
            /\ ppc # "idle" => num_elements < MaxBacklog
            /\ cpc \in {"holding", "advanced"} => num_elements >= 1

AnyLoadInv == TypeOK /\ NoInvalidRead /\ BegunInv

\* Every step of the two threads preserves it.
LEMMA AnyLoadStep == ASSUME AnyLoadInv, [Next]_vars PROVE AnyLoadInv'
<1> USE SizeAssumption, LoadAssumption DEF AnyLoadInv, NoInvalidRead, BegunInv
<1>1. CASE BeginFill
  BY <1>1 DEF BeginFill, TypeOK, consVars
<1>2. CASE EndFill
  BY <1>2 DEF EndFill, TypeOK, consVars, Element
<1>3. CASE AdvanceWrite
  <2>1. next_write_index' \in Slot
    BY <1>3, SuccWraps DEF AdvanceWrite, TypeOK
  <2> QED BY <1>3, <2>1 DEF AdvanceWrite, TypeOK, consVars
<1>4. CASE CountWrite
  BY <1>4 DEF CountWrite, TypeOK, consVars
<1>5. CASE Peek
  BY <1>5 DEF Peek, TypeOK, prodVars
<1>6. CASE AdvanceRead
  <2>1. next_read_index' \in Slot
    BY <1>6, SuccWraps DEF AdvanceRead, TypeOK
  <2> QED BY <1>6, <2>1 DEF AdvanceRead, TypeOK, prodVars
<1>7. CASE CountRead
  BY <1>7 DEF CountRead, TypeOK, prodVars
<1>8. CASE UNCHANGED vars
  BY <1>8 DEF vars, prodVars, consVars, TypeOK
<1> QED BY <1>1, <1>2, <1>3, <1>4, <1>5, <1>6, <1>7, <1>8 DEF Next, FinishPush, Consumer

\* And so it holds in every state, whatever the load.
THEOREM AnyLoadInvariant == Spec => []AnyLoadInv
<1>1. Init => AnyLoadInv
  BY InitInv DEF IInv, AnyLoadInv, NoInvalidRead, BegunInv, Init
<1>2. AnyLoadInv /\ [Next]_vars => AnyLoadInv'
  BY AnyLoadStep
<1> QED BY <1>1, <1>2, PTL DEF Spec

\* The indices stay within the ring and the counter never goes below zero,
\* whatever the load.
THEOREM TypeCorrect == Spec => []TypeOK
<1>1. AnyLoadInv => TypeOK
  BY DEF AnyLoadInv
<1> QED BY <1>1, AnyLoadInvariant, PTL

\* The ASSERT of updateReadIndex(), "Read an invalid element", never fails,
\* whatever the load: it guards the counter, not the element.
THEOREM NeverInvalidRead == Spec => []NoInvalidRead
<1>1. AnyLoadInv => NoInvalidRead
  BY DEF AnyLoadInv
<1> QED BY <1>1, AnyLoadInvariant, PTL

----------------------------------------------------------------------------
(***************************************************************************)
(* The ring does what a channel does.                                      *)
(***************************************************************************)

\* What the abstract queue holds: the numbers after the last one read.
Held(r, c) == [n \in 1 .. c |-> r + n]
ContentsInv == /\ Counted \in Nat /\ Counted = Unread - One(ppc \in {"filled", "advanced"})
               /\ Contents = Held(reads, Counted)
               /\ Puts = reads + Counted

\* It follows from what the slots hold.
LEMMA ContentsAre == ASSUME IInv PROVE ContentsInv
<1>1. Counted \in Nat /\ Counted = Unread - One(ppc \in {"filled", "advanced"})
  BY DEF IInv, TypeOK, CounterInv, Counted, Unread, One, Element
<1>2. Puts = reads + Counted
  BY <1>1 DEF IInv, TypeOK, Puts, Unread, One, Element
<1>3. ASSUME NEW n \in 1 .. Counted PROVE store[Ahead(n - 1)] = reads + n
  <2>1. n - 1 \in 0 .. Unread - 1
    BY <1>1 DEF One, IInv, TypeOK, Unread, Element
  <2>2. store[Ahead(n - 1)] = reads + 1 + (n - 1)
    BY <2>1 DEF IInv, ContentInv
  <2> QED BY <2>1, <2>2 DEF IInv, TypeOK, Element, Unread
<1>4. Contents = Held(reads, Counted)
  BY <1>3 DEF Contents, Held
<1> QED BY <1>1, <1>2, <1>4 DEF ContentsInv

\* One more at the end, and one less at the front.
LEMMA HeldMoves ==
    ASSUME NEW r \in Nat, NEW c \in Nat
    PROVE  /\ Len(Held(r, c)) = c /\ Held(r, c + 1) = Append(Held(r, c), r + c + 1)
           /\ Held(r, 0) = <<>>
           /\ c > 0 => Held(r, c) # <<>> /\ Held(r + 1, c - 1) = Tail(Held(r, c))
<1>1. Held(r, c) \in Seq(Nat) /\ Held(r, c + 1) \in Seq(Nat) /\ Len(Held(r, c)) = c
  BY DEF Held
<1>2. Held(r, c + 1) = Append(Held(r, c), r + c + 1)
  BY <1>1 DEF Held
<1>3. c > 0 => Held(r, c) # <<>> /\ Held(r + 1, c - 1) = Tail(Held(r, c))
  BY <1>1 DEF Held
<1>4. Held(r, 0) = <<>>
  BY DEF Held
<1> QED BY <1>1, <1>2, <1>3, <1>4

\* The first statement of updateReadIndex() takes the oldest element out, the
\* second one of updateWriteIndex() puts the next one in, and no other step
\* is seen from outside.
LEMMA ChannelStep ==
    ASSUME IInv, ContentsInv, ContentsInv', AnyLoadInv, [Next]_vars
    PROVE  [Promise!Next]_<<Contents, Puts>>
<1>1. /\ Counted \in Nat /\ Contents = Held(reads, Counted) /\ Puts = reads + Counted
      /\ Counted' \in Nat /\ Contents' = Held(reads', Counted') /\ Puts' = reads' + Counted'
  BY DEF ContentsInv
<1>2. /\ Counted = num_elements - One(cpc = "advanced")
      /\ Counted' = num_elements' - One(cpc' = "advanced")
      /\ One(cpc = "advanced") \in {0, 1}
  BY DEF Counted, One
<1>3. /\ reads \in Nat /\ written \in Nat /\ written <= MaxWrites /\ MaxBacklog \in Nat
      /\ num_elements \in Nat /\ MaxWrites \in Nat
  BY LoadAssumption DEF IInv, TypeOK, Element
<1>4. CASE CountWrite
  <2>1. /\ reads' = reads /\ num_elements' = num_elements + 1 /\ num_elements < MaxBacklog
        /\ One(cpc' = "advanced") = One(cpc = "advanced")
        /\ One(ppc \in {"filled", "advanced"}) = 1
    BY <1>4 DEF CountWrite, One, consVars, AnyLoadInv, BegunInv
  <2>2. Counted = written - reads - 1
    BY <2>1 DEF ContentsInv, Unread
  <2>3. Counted' = Counted + 1 /\ Counted < MaxBacklog
    BY <1>2, <1>3, <2>1
  <2>4. Puts < MaxWrites /\ Puts' = Puts + 1 /\ Puts + 1 = reads + Counted + 1
    BY <1>1, <1>3, <2>1, <2>2, <2>3
  <2>5. Len(Contents) = Counted /\ Contents' = Append(Contents, Puts + 1)
    <3>1. /\ Len(Held(reads, Counted)) = Counted
          /\ Held(reads, Counted + 1) = Append(Held(reads, Counted), reads + Counted + 1)
      BY <1>1, <1>3, HeldMoves
    <3> QED BY <1>1, <2>1, <2>3, <2>4, <3>1
  <2> QED BY <2>3, <2>4, <2>5 DEF Promise!Next, Promise!Put
<1>5. CASE AdvanceRead
  <2>1. /\ reads' = reads + 1 /\ num_elements' = num_elements /\ num_elements >= 1
        /\ One(cpc' = "advanced") = 1 /\ One(cpc = "advanced") = 0
    BY <1>5 DEF AdvanceRead, One, prodVars, AnyLoadInv, BegunInv
  <2>2. Counted' = Counted - 1 /\ Counted > 0 /\ Puts' = Puts
    BY <1>1, <1>2, <1>3, <2>1
  <2>3. Contents # <<>> /\ Contents' = Tail(Contents)
    <3>1. /\ Held(reads, Counted) # <<>>
          /\ Held(reads + 1, Counted - 1) = Tail(Held(reads, Counted))
      BY <1>1, <1>3, <2>2, HeldMoves
    <3> QED BY <1>1, <2>1, <2>2, <3>1
  <2> QED BY <2>2, <2>3 DEF Promise!Next, Promise!Get
<1>6. CASE BeginFill \/ EndFill \/ AdvanceWrite \/ Peek \/ CountRead \/ UNCHANGED vars
  <2>1. reads' = reads
    BY <1>6 DEF BeginFill, EndFill, AdvanceWrite, Peek, CountRead, vars, prodVars, consVars
  <2>2. Counted' = Counted
    <3>1. CASE CountRead
      <4>1. /\ num_elements' = num_elements - 1
            /\ One(cpc' = "advanced") = 0 /\ One(cpc = "advanced") = 1
        BY <1>3, <3>1 DEF CountRead, One, AnyLoadInv, BegunInv
      <4> QED BY <1>2, <1>3, <4>1
    <3>2. CASE ~CountRead
      <4>1. num_elements' = num_elements /\ One(cpc' = "advanced") = One(cpc = "advanced")
        BY <1>6, <3>2 DEF BeginFill, EndFill, AdvanceWrite, Peek, vars, prodVars, consVars, One
      <4> QED BY <1>2, <4>1
    <3> QED BY <3>1, <3>2
  <2> QED BY <1>1, <2>1, <2>2
<1> QED BY <1>4, <1>5, <1>6 DEF Next, FinishPush, Consumer

\* The ring implements the FIFO channel, but for its liveness: what is put in
\* comes out in that order, once each, with no more in flight than the load
\* allows.
THEOREM ActsAsChannel ==
    MaxBacklog <= Size => (Spec => Promise!Init /\ [][Promise!Next]_<<Contents, Puts>>)
<1> SUFFICES ASSUME MaxBacklog <= Size
             PROVE  Spec => Promise!Init /\ [][Promise!Next]_<<Contents, Puts>>
  OBVIOUS
<1>1. Init => Promise!Init
  <2> SUFFICES ASSUME Init PROVE Contents = <<>> /\ Puts = 0
    BY DEF Promise!Init
  <2>1. written = 0 /\ reads = 0 /\ One(ppc \in {"filled", "advanced"}) = 0
    BY DEF Init, One
  <2>2. /\ Counted = Unread - One(ppc \in {"filled", "advanced"})
        /\ Contents = Held(reads, Counted) /\ Puts = reads + Counted
    BY InitInv, ContentsAre DEF ContentsInv
  <2>3. Unread = 0
    BY <2>1 DEF Unread
  <2>4. Counted = 0 /\ Puts = 0 /\ Contents = Held(0, 0)
    BY <2>1, <2>2, <2>3
  <2> QED BY <2>4, HeldMoves
<1>2. IInv => ContentsInv
  BY ContentsAre
<1>3. IInv /\ ContentsInv /\ ContentsInv' /\ AnyLoadInv /\ [Next]_vars
        => [Promise!Next]_<<Contents, Puts>>
  BY ChannelStep
<1> QED BY <1>1, <1>2, <1>3, QueueInvariant, AnyLoadInvariant, PTL DEF Spec

=============================================================================
