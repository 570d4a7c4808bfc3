-------------------------- MODULE BreadcrumbRingLog --------------------------
(***************************************************************************)
(* The breadcrumb ring as an implementation of BreadcrumbLog: the mapping  *)
(* of its state to the log's, for one writer.                              *)
(***************************************************************************)
EXTENDS BreadcrumbRing

CONSTANT None   \* no snapshot in progress

ASSUME NoneAssumption == \A entries \in SUBSET (1 .. MaxTickets) : entries # None

\* A breadcrumb maps to its entry only when it is intact, to the impossible entry 0
\* when it is torn.
Entry(b) == IF Intact(b) THEN b[1] ELSE 0

\* One call at most is in progress, that of the newest ticket.
Recorded == IF Written = 1 .. breadcrumb_ticket
            THEN breadcrumb_ticket ELSE breadcrumb_ticket - 1

Due(r) == IF cursor[r] = 0 THEN None ELSE settled[r]

\* What a snapshot has found counts when it is returned.
Report(r) == IF cursor[r] = 0 THEN {Entry(b) : b \in Reported(r)} ELSE {}

Log == INSTANCE BreadcrumbLog WITH
    begun    <- breadcrumb_ticket,
    recorded <- Recorded,
    due      <- [r \in Readers |-> Due(r)],
    report   <- [r \in Readers |-> Report(r)]

\* The slots, commit words and loads of the ring implement the log: whatever the
\* interleaving, a snapshot looks as if it had been taken from an array of
\* complete entries, and it ends.
ImplementsLog == Log!LogSpec
=============================================================================
