----------------------------- MODULE MCLFQueue -----------------------------
(***************************************************************************)
(* TLC instance of LFQueue: three slots and eight pushes, so that both     *)
(* indices wrap twice and every overlap of one push with one pop occurs.   *)
(***************************************************************************)
EXTENDS LFQueue
=============================================================================
