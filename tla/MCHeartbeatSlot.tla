--------------------------- MODULE MCHeartbeatSlot ---------------------------
(***************************************************************************)
(* Small instances of HeartbeatSlot.  The threads are interchangeable and  *)
(* no property is a liveness property, so symmetry is sound.               *)
(***************************************************************************)
EXTENDS HeartbeatSlot, TLC

ThreadSymmetry == Permutations(Threads)
=============================================================================
