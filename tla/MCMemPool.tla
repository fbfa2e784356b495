----------------------------- MODULE MCMemPool -----------------------------
(***************************************************************************)
(* TLC instance of MemPool.  The cursor only compares block numbers, so a  *)
(* pool of six blocks already has every pattern of holes and every wrap.   *)
(***************************************************************************)
EXTENDS MemPool
=============================================================================
