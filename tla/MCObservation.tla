----------------------------- MODULE MCObservation -----------------------------
(***************************************************************************)
(* A small instance of Observation: four points, the fewest that show      *)
(* sustained growth, in a window that five samples in a row overrun.       *)
(***************************************************************************)
EXTENDS Observation
=============================================================================
