--------------------------- MODULE MemPoolProofs ---------------------------
(***************************************************************************)
(* TLAPS proofs about MemPool, for every pool size.                        *)
(***************************************************************************)
EXTENDS MemPool, TLAPS

\* Marking the block under the cursor changes only that block's flag.
LEMMA AllocateMarks ==
    ASSUME TypeOK
    PROVE  [is_free EXCEPT ![next_free_index] = FALSE] \in [Index -> BOOLEAN]
BY DEF TypeOK

\* The members keep their types through every call.
THEOREM TypeCorrect == Spec => []TypeOK
<1>1. Init => TypeOK
  BY NumElemsAssumption DEF Init, TypeOK, Index, Status
<1>2. TypeOK /\ [Next]_vars => TypeOK'
  <2> SUFFICES ASSUME TypeOK, [Next]_vars PROVE TypeOK'
    OBVIOUS
  <2>1. CASE Allocate
    <3>1. CASE is_free[next_free_index]
      BY <2>1, <3>1, AllocateMarks DEF TypeOK, Allocate, UpdateNextFreeIndex, Status
    <3>2. CASE ~is_free[next_free_index]
      BY <2>1, <3>2 DEF TypeOK, Allocate, Status
    <3> QED BY <3>1, <3>2
  <2>2. ASSUME NEW i \in Index, Deallocate(i) PROVE TypeOK'
    BY <2>2 DEF TypeOK, Deallocate, Status
  <2>3. CASE UNCHANGED vars
    BY <2>3 DEF TypeOK, vars
  <2> QED BY <2>1, <2>2, <2>3 DEF Next
<1> QED BY <1>1, <1>2, PTL DEF Spec

\* Whatever the order of allocations and releases, the cursor stands on a
\* free block between calls: no live object is ever handed out again.
THEOREM NextFreeSafe == Spec => []NextFreeIsFree
<1>1. Init => NextFreeIsFree
  BY NumElemsAssumption DEF Init, NextFreeIsFree, Index
<1>2. TypeOK /\ NextFreeIsFree /\ [Next]_vars => NextFreeIsFree'
  <2> SUFFICES ASSUME TypeOK, NextFreeIsFree, [Next]_vars PROVE NextFreeIsFree'
    OBVIOUS
  <2>1. CASE Allocate
    <3>1. is_free[next_free_index]
      BY <2>1 DEF Allocate, NextFreeIsFree
    <3>2. UpdateNextFreeIndex(is_free')
      BY <2>1, <3>1 DEF Allocate
    <3>3. CASE \E j \in Index : IsNextFree(is_free', next_free_index, j)
                                /\ next_free_index' = j /\ UNCHANGED status
      BY <3>3 DEF IsNextFree, NextFreeIsFree
    <3>4. CASE status' = "out_of_space"
      BY <3>4 DEF NextFreeIsFree
    <3> QED BY <3>2, <3>3, <3>4 DEF UpdateNextFreeIndex
  <2>2. ASSUME NEW i \in Index, Deallocate(i) PROVE NextFreeIsFree'
    BY <2>2 DEF TypeOK, Deallocate, NextFreeIsFree
  <2>3. CASE UNCHANGED vars
    BY <2>3 DEF NextFreeIsFree, vars
  <2> QED BY <2>1, <2>2, <2>3 DEF Next
<1> QED BY <1>1, <1>2, TypeCorrect, PTL DEF Spec

\* A returned block is not the next one handed out.
THEOREM ReuseIsRoundRobin == Spec => FreedBlockNotNext
<1>1. TypeOK /\ NextFreeIsFree /\ [Next]_vars =>
        [\A i \in Index : ~is_free[i] /\ is_free'[i] => next_free_index' # i]_vars
  <2> SUFFICES ASSUME TypeOK, NextFreeIsFree, Next,
                      NEW i \in Index, ~is_free[i], is_free'[i]
               PROVE  next_free_index' # i
    BY DEF vars
  <2>1. CASE Allocate
    BY <2>1, AllocateMarks DEF Allocate, TypeOK
  <2>2. ASSUME NEW k \in Index, Deallocate(k) PROVE next_free_index' # i
    BY <2>2 DEF Deallocate, TypeOK, NextFreeIsFree
  <2> QED BY <2>1, <2>2 DEF Next
<1> QED BY <1>1, TypeCorrect, NextFreeSafe, PTL DEF Spec, FreedBlockNotNext

=============================================================================
