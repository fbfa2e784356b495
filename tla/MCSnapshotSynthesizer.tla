----------------------- MODULE MCSnapshotSynthesizer -----------------------
(***************************************************************************)
(* TLC instance of SnapshotSynthesizer: two of the three tickers that the  *)
(* table has room for are traded, and the ids and the pool reach their     *)
(* limits.                                                                 *)
(***************************************************************************)
EXTENDS SnapshotSynthesizer

\* A reduction: the thread reads the head of the queue, and whether there is
\* one, only when it drains, and the clock and run_ only at the end of its
\* loop, so pushes, the passing of the minute and stop() are delayed until
\* then.
WhenLookedAt == /\ log' # log => pc = "drain" /\ taken = Len(log)
                /\ ~due /\ due' => pc = "timer"
                /\ run' # run => pc = "timer"
=============================================================================
