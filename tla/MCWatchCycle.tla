----------------------------- MODULE MCWatchCycle -----------------------------
(***************************************************************************)
(* A small instance of WatchCycle: two channels, one of them the GUI's,    *)
(* and periods that only just fit together.                                *)
(***************************************************************************)
EXTENDS WatchCycle
=============================================================================
