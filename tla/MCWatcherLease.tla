--------------------------- MODULE MCWatcherLease ---------------------------
(* Small instances of WatcherLease. *)
EXTENDS WatcherLease
=============================================================================
