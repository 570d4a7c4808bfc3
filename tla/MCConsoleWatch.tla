--------------------------- MODULE MCConsoleWatch ---------------------------
(***************************************************************************)
(* Small instances of ConsoleWatch.  Two processes make a reused           *)
(* identifier; two objects make a client that was stopped and started      *)
(* again, or one that starts over what its predecessor left linked.        *)
(***************************************************************************)
EXTENDS ConsoleWatch
=============================================================================
