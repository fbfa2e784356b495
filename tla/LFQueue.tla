------------------------------ MODULE LFQueue ------------------------------
(***************************************************************************)
(* Common::LFQueue (src/common/lf_queue.h): the ring that carries client   *)
(* requests, client responses, market updates and log entries between the  *)
(* threads of the exchange, one producer and one consumer each.            *)
(*                                                                         *)
(* A push is four steps of the producer: it starts to fill the slot        *)
(* getNextToWriteTo() points at, finishes, and calls updateWriteIndex(),   *)
(* which moves the index and then the counter.  A pop is three steps of    *)
(* the consumer: getNextToRead() returns a pointer, which the consumer     *)
(* uses until it calls updateReadIndex(), again index first and then the   *)
(* counter.  The three atomics are sequentially consistent and each index  *)
(* is written by one thread, so one assignment is one step.  A slot that   *)
(* is being filled holds Torn; the k-th element pushed is the number k.    *)
(*                                                                         *)
(* The class has no "full" test: a producer never waits.  MaxBacklog is    *)
(* the assumption on the load under which it is used: a push begins only   *)
(* while fewer than MaxBacklog elements are counted.                       *)
(***************************************************************************)
EXTENDS Integers

CONSTANTS Size,         \* num_elems of the constructor
          MaxBacklog,   \* load assumption, not in the code
          MaxWrites     \* bound on the number of pushes

ASSUME SizeAssumption == Size \in Nat \ {0}
ASSUME LoadAssumption == MaxBacklog \in Nat /\ MaxWrites \in Nat

VARIABLES store,              \* store_
          next_write_index,   \* next_write_index_
          next_read_index,    \* next_read_index_
          num_elements,       \* num_elements_
          ppc,                \* where the producer is in a push
          cpc,                \* where the consumer is in a pop
          written,            \* number of elements filled
          reads               \* number of elements released by the consumer

prodVars == <<next_write_index, ppc, written>>
consVars == <<next_read_index, cpc, reads>>
vars == <<store, num_elements, prodVars, consVars>>

Slot == 0 .. Size - 1
Torn == -1
Element == 0 .. MaxWrites       \* 0 is the T() of a slot never filled

\* Succ without the wrap, and with the wrap one slot early.
SuccNoWrap(i) == i + 1
SuccEarlyWrap(i) == IF Size = 1 THEN 0 ELSE (i + 1) % (Size - 1)

\* The increment of both indices.
Succ(i) == (i + 1) % Size

----------------------------------------------------------------------------

Init == /\ store = [s \in Slot |-> 0]
        /\ next_write_index = 0 /\ next_read_index = 0 /\ num_elements = 0
        /\ ppc = "idle" /\ cpc = "idle"
        /\ written = 0 /\ reads = 0

\* getNextToWriteTo(), and the first store into the slot.
BeginFill == /\ ppc = "idle"
             /\ written < MaxWrites /\ num_elements < MaxBacklog
             /\ store' = [store EXCEPT ![next_write_index] = Torn]
             /\ ppc' = "filling"
             /\ UNCHANGED <<num_elements, next_write_index, written, consVars>>

\* The producer has stored the whole element.
EndFill == /\ ppc = "filling"
           /\ store' = [store EXCEPT ![next_write_index] = written + 1]
           /\ written' = written + 1
           /\ ppc' = "filled"
           /\ UNCHANGED <<num_elements, next_write_index, consVars>>

\* updateWriteIndex(), first statement.
AdvanceWrite == /\ ppc = "filled"
                /\ next_write_index' = Succ(next_write_index)
                /\ ppc' = "advanced"
                /\ UNCHANGED <<store, num_elements, written, consVars>>

\* CountWrite that saturates one below the size.
CountWriteCapped == /\ ppc = "advanced"
                    /\ num_elements' = (IF num_elements < Size - 1
                                        THEN num_elements + 1 ELSE num_elements)
                    /\ ppc' = "idle"
                    /\ UNCHANGED <<store, next_write_index, written, consVars>>

\* CountWrite with a plain load and store that loses a concurrent decrement.
CountWriteStale == /\ ppc = "advanced"
                   /\ num_elements' = num_elements + (IF cpc = "advanced" THEN 2 ELSE 1)
                   /\ ppc' = "idle"
                   /\ UNCHANGED <<store, next_write_index, written, consVars>>

\* updateWriteIndex(), second statement: the element becomes visible.
CountWrite == /\ ppc = "advanced"
              /\ num_elements' = num_elements + 1
              /\ ppc' = "idle"
              /\ UNCHANGED <<store, next_write_index, written, consVars>>

\* Peek that does not look at size().
PeekUnchecked == /\ cpc = "idle"
                 /\ cpc' = "holding"
                 /\ UNCHANGED <<store, num_elements, prodVars, next_read_index, reads>>

\* getNextToRead(): the consumer gets a pointer to the slot, or nullptr and
\* tries again.
Peek == /\ cpc = "idle"
        /\ num_elements # 0
        /\ cpc' = "holding"
        /\ UNCHANGED <<store, num_elements, prodVars, next_read_index, reads>>

\* updateReadIndex(), first statement.
AdvanceRead == /\ cpc = "holding"
               /\ next_read_index' = Succ(next_read_index)
               /\ reads' = reads + 1
               /\ cpc' = "advanced"
               /\ UNCHANGED <<store, num_elements, prodVars>>

\* updateReadIndex(), the ASSERT and the decrement (only this thread
\* decrements).
CountRead == /\ cpc = "advanced"
             /\ IF num_elements # 0
                THEN cpc' = "idle" /\ num_elements' = num_elements - 1
                ELSE cpc' = "failed" /\ UNCHANGED num_elements
             /\ UNCHANGED <<store, prodVars, next_read_index, reads>>

FinishPush == EndFill \/ AdvanceWrite \/ CountWrite
Consumer == Peek \/ AdvanceRead \/ CountRead

Next == BeginFill \/ FinishPush \/ Consumer

\* Both threads spin: a push that began goes on, and the consumer polls.
Fairness == WF_vars(FinishPush) /\ WF_vars(Consumer)

Spec == Init /\ [][Next]_vars /\ Fairness

----------------------------------------------------------------------------
(***************************************************************************)
(* Properties.                                                             *)
(***************************************************************************)

\* The variables have their types.
TypeOK == /\ store \in [Slot -> Element \cup {Torn}]
          /\ next_write_index \in Slot /\ next_read_index \in Slot
          /\ num_elements \in Nat
          /\ ppc \in {"idle", "filling", "filled", "advanced"}
          /\ cpc \in {"idle", "holding", "advanced", "failed"}
          /\ written \in Element /\ reads \in Nat

\* For as long as the consumer holds the pointer getNextToRead() gave it, the
\* slot has the whole of the oldest element it has not read ("returns pointer
\* to actual element at next_read_index"): nothing is lost, read twice, read
\* out of order or overwritten under the reader.
HeldIsNext == cpc = "holding" => store[next_read_index] = reads + 1

\* The ASSERT of updateReadIndex() ("Read an invalid element") never fails.
NoInvalidRead == cpc # "failed"

\* Every element pushed is read eventually: no push is left uncounted and no
\* element stays behind the read index.
EveryElementRead == \A k \in 1 .. MaxWrites : (written >= k) ~> (reads >= k)

\* The slot that is n places after the read index.
Ahead(n) == IF next_read_index + n < Size THEN next_read_index + n
                                          ELSE next_read_index + n - Size

\* The abstract queue this ring implements: what is counted and not yet
\* passed by the read index, with the values the slots hold now.
Counted == num_elements - (IF cpc = "advanced" THEN 1 ELSE 0)
Contents == [n \in 1 .. Counted |-> store[Ahead(n - 1)]]
Puts == written - (IF ppc \in {"filled", "advanced"} THEN 1 ELSE 0)

Promise == INSTANCE Channel WITH chan <- Contents, puts <- Puts,
                                 Capacity <- MaxBacklog, MaxPuts <- MaxWrites

\* The ring is a FIFO channel: every step puts the next element at the end,
\* takes the oldest one, or changes nothing a client sees, and an element
\* that is there is eventually taken.
ImplementsChannel == Promise!Spec

=============================================================================
