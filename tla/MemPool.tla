------------------------------ MODULE MemPool ------------------------------
(***************************************************************************)
(* Common::MemPool (src/common/mem_pool.h): the preallocated object pool   *)
(* behind every order and every price level of the matching engine.  The   *)
(* pool is a vector of blocks, each with a flag is_free_, and one cursor   *)
(* next_free_index_ that must always stand on a free block.  The contents  *)
(* of a block are left out; a failing ASSERT ends the process, which is    *)
(* the variable `status'.                                                  *)
(***************************************************************************)
EXTENDS Integers

CONSTANT NumElems       \* the constructor's num_elems

ASSUME NumElemsAssumption == NumElems \in Nat \ {0}

VARIABLES is_free,          \* ObjectBlock::is_free_ of every block
          next_free_index,  \* next_free_index_
          status            \* "running", or the ASSERT that ended the process

vars == <<is_free, next_free_index, status>>

Index == 0 .. NumElems - 1

Status == {"running", "expected_free", "expected_in_use", "out_of_space"}

\* How many times the cursor is incremented, wrapping at NumElems, to get
\* from block i to block j.
Distance(i, j) == IF j >= i THEN j - i ELSE j - i + NumElems

\* IsNextFree with `if' for `while': one step, whatever the block it reaches.
IsNextFreeOneStep(free, i, j) ==
    IF free[i] THEN j = i ELSE Distance(i, j) = (IF NumElems = 1 THEN 0 ELSE 1)

\* j is where updateNextFreeIndex stops when it starts at i with the flags free.
IsNextFree(free, i, j) ==
    /\ free[j]
    /\ \A k \in Index : free[k] => Distance(i, j) <= Distance(i, k)

----------------------------------------------------------------------------

Init == /\ is_free = [i \in Index |-> TRUE]
        /\ next_free_index = 0
        /\ status = "running"

\* UpdateNextFreeIndex without the wrap to the first block.
UpdateNextFreeIndexNoWrap(free) ==
    /\ \/ \E j \in Index : /\ IsNextFree(free, next_free_index, j) /\ j >= next_free_index
                           /\ next_free_index' = j
       \/ /\ \A j \in Index : j >= next_free_index => ~free[j]
          /\ next_free_index' = NumElems
    /\ UNCHANGED status

\* updateNextFreeIndex: the scan ends on the first free block after the
\* cursor, or comes back to where it began and the ASSERT exits.
UpdateNextFreeIndex(free) ==
    \/ /\ \E j \in Index : IsNextFree(free, next_free_index, j) /\ next_free_index' = j
       /\ UNCHANGED status
    \/ /\ \A j \in Index : ~free[j]
       /\ status' = "out_of_space"
       /\ UNCHANGED next_free_index

\* allocate(): hands out the block under the cursor.
Allocate ==
    /\ status = "running"
    /\ IF is_free[next_free_index]
       THEN LET free == [is_free EXCEPT ![next_free_index] = FALSE]
            IN  is_free' = free /\ UpdateNextFreeIndex(free)
       ELSE status' = "expected_free" /\ UNCHANGED <<is_free, next_free_index>>

\* Deallocate with the cursor moved to the returned block.
DeallocateLifo(i) ==
    /\ status = "running" /\ ~is_free[i]
    /\ is_free' = [is_free EXCEPT ![i] = TRUE]
    /\ next_free_index' = i
    /\ UNCHANGED status

\* deallocate(elem), elem any block of this pool.
Deallocate(i) ==
    /\ status = "running"
    /\ IF is_free[i]
       THEN status' = "expected_in_use" /\ UNCHANGED is_free
       ELSE is_free' = [is_free EXCEPT ![i] = TRUE] /\ UNCHANGED status
    /\ UNCHANGED next_free_index

Next == Allocate \/ \E i \in Index : Deallocate(i)

Spec == Init /\ [][Next]_vars

----------------------------------------------------------------------------
(***************************************************************************)
(* Properties.                                                             *)
(***************************************************************************)

\* The variables have the types of the class's members.
TypeOK == /\ is_free \in [Index -> BOOLEAN]
          /\ next_free_index \in Index
          /\ status \in Status

\* Between two calls the cursor stands on a free block, so the placement new
\* of the next allocate() never overwrites an object that is still in use and
\* its ASSERT "Expected free ObjectBlock" never fails, whatever the order in
\* which blocks were returned.
NextFreeIsFree == /\ status = "running" => is_free[next_free_index]
                  /\ status # "expected_free"

\* Reuse is round robin, never last-in first-out: a block that was just
\* returned is not the one the next allocate() overwrites, so a stale pointer
\* still finds the old object there ("the object is still there", the comment
\* of deallocate()) for at least one more allocation.
FreedBlockNotNext ==
    [][\A i \in Index : ~is_free[i] /\ is_free'[i] => next_free_index' # i]_vars

=============================================================================
