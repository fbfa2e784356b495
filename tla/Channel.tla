------------------------------ MODULE Channel ------------------------------
(***************************************************************************)
(* What a queue between two threads of the exchange promises: the elements *)
(* come out in the order they went in, each exactly once, and none is      *)
(* left behind.  The k-th element put in is the number k.                  *)
(***************************************************************************)
EXTENDS Naturals, Sequences

CONSTANTS Capacity,     \* elements in flight
          MaxPuts       \* bound on the elements ever put in

VARIABLES chan,         \* put in and not yet taken out, oldest first
          puts          \* how many were put in

Init == chan = <<>> /\ puts = 0

Put == /\ puts < MaxPuts /\ Len(chan) < Capacity
       /\ puts' = puts + 1
       /\ chan' = Append(chan, puts + 1)

Get == /\ chan # <<>>
       /\ chan' = Tail(chan)
       /\ UNCHANGED puts

Next == Put \/ Get

Spec == Init /\ [][Next]_<<chan, puts>> /\ WF_<<chan, puts>>(Get)

=============================================================================
