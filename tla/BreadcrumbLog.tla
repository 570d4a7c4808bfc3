---------------------------- MODULE BreadcrumbLog ----------------------------
(***************************************************************************)
(* What the breadcrumb ring promises when one thread publishes: a log of   *)
(* which the last Capacity entries may be read.  A snapshot returns, once, *)
(* a set of entries that were all recorded, and among them every entry     *)
(* that was recorded before the snapshot began and is not yet overwritten. *)
(* Nothing is said of slots, commit words or torn fields: an entry is      *)
(* returned as it was recorded or not at all.                              *)
(***************************************************************************)
EXTENDS Integers

CONSTANTS Capacity, Readers, MaxTickets, None

VARIABLES
    begun,      \* entries whose recording has begun
    recorded,   \* entries recorded: begun, or all but the last
    due,        \* entries recorded when a reader's snapshot began, or None
    report      \* entries a reader's last snapshot returned

logVars == <<begun, recorded, due, report>>

\* Recording entry e destroys entry e - Capacity.
Kept(e) == e + Capacity > begun

BeginRecord ==
    /\ begun = recorded
    /\ begun < MaxTickets
    /\ begun' = begun + 1
    /\ UNCHANGED <<recorded, due, report>>

EndRecord ==
    /\ recorded < begun
    /\ recorded' = begun
    /\ UNCHANGED <<begun, due, report>>

BeginRead(r) ==
    /\ due[r] = None
    /\ due' = [due EXCEPT ![r] = 1 .. recorded]
    /\ report' = [report EXCEPT ![r] = {}]
    /\ UNCHANGED <<begun, recorded>>

EndRead(r) ==
    /\ due[r] # None
    /\ \E entries \in SUBSET (1 .. recorded) :
          /\ {e \in due[r] : Kept(e)} \subseteq entries
          /\ report' = [report EXCEPT ![r] = entries]
    /\ due' = [due EXCEPT ![r] = None]
    /\ UNCHANGED <<begun, recorded>>

\* A snapshot of an empty log begins and ends at once.
ReadEmpty(r) ==
    /\ due[r] = None
    /\ begun = 0
    /\ report' = [report EXCEPT ![r] = {}]
    /\ UNCHANGED <<begun, recorded, due>>

LogInit ==
    /\ begun = 0
    /\ recorded = 0
    /\ due = [r \in Readers |-> None]
    /\ report = [r \in Readers |-> {}]

LogNext ==
    \/ BeginRecord
    \/ EndRecord
    \/ \E r \in Readers : BeginRead(r) \/ EndRead(r) \/ ReadEmpty(r)

LogSpec == LogInit /\ [][LogNext]_logVars /\ \A r \in Readers : WF_logVars(EndRead(r))
=============================================================================
