--------------------------- MODULE BreadcrumbRing ---------------------------
(***************************************************************************)
(* The breadcrumb ring of the shared state: every thread of the observed   *)
(* process that calls client::breadcrumb is a writer, every watcher that   *)
(* calls watchdog_session::snapshot is a reader, and each shared access    *)
(* that another thread can tell apart is a step of its own.                *)
(*                                                                         *)
(* A field of a breadcrumb is abstracted to the ticket of the call that    *)
(* stored it: a breadcrumb is torn exactly when two of its fields come     *)
(* from two calls.  Cell 1 is slot.ticket, whose value IS that ticket; the *)
(* other cells are the payload fields in program order.  A call that the   *)
(* watcher lease turns away (WatcherLease) touches nothing here, so a call *)
(* begins at its fetch_add.                                                *)
(*                                                                         *)
(* A writer may stop for ever between any two of its steps: that is a      *)
(* preempted thread as well as a process killed inside a call.             *)
(***************************************************************************)
EXTENDS Integers, Sequences, FiniteSets

CONSTANTS
    Capacity,      \* breadcrumb_capacity, 128 in the code
    Payload,       \* payload fields of a slot, 5 in the code
    Writers,       \* threads of the observed process
    Readers,       \* watchers
    MaxTickets,    \* bound of the model: calls that reach their fetch_add
    ProgramOrder   \* TRUE: accesses take effect in program order (x86 TSO);
                   \* FALSE: any order the C++ orderings of the accesses allow

ASSUME RingAssumption ==
    /\ Capacity \in Nat \ {0}
    /\ Payload \in Nat
    /\ MaxTickets \in Nat
    /\ ProgramOrder \in BOOLEAN

VARIABLES
    breadcrumb_ticket,   \* tickets handed out
    commit,              \* commit word of each slot
    cell,                \* ticket and payload cells of each slot
    wticket,             \* ticket of the call a writer is in, 0 between calls
    wtodo,               \* stores of that call not yet visible
    newest,              \* a reader's copy of breadcrumb_ticket
    cursor,              \* ticket the reader is looking for, 0 between snapshots
    rtodo,               \* loads still to do for that ticket
    seen,                \* cells loaded for that ticket
    breadcrumbs,         \* breadcrumbs of the reader's current or last snapshot
    overlapped,          \* history: tickets whose call shared its slot with another
    settled              \* history: tickets fully written when the snapshot began

writerVars == <<breadcrumb_ticket, commit, cell, wticket, wtodo, overlapped>>
readerVars == <<newest, cursor, rtodo, seen, breadcrumbs, settled>>
vars == <<breadcrumb_ticket, commit, cell, wticket, wtodo, overlapped,
          newest, cursor, rtodo, seen, breadcrumbs, settled>>

Slots == 0 .. Capacity - 1
Cells == 1 .. Payload + 1
Open  == 0             \* first access of a call or of a read: the commit word
Close == Payload + 2   \* last access of a call or of a read: the commit word
Steps == Open .. Close

SlotOf(t) == (t - 1) % Capacity

\* Mutant: the opening store leaves the low bit clear.
BareCommit(t) == 2 * t

OddCommit(t)  == 2 * t + 1   \* (ticket << 1U) | 1U
EvenCommit(t) == 2 * t       \* ticket << 1U

\* Which accesses of one call other threads must see in program order.  The
\* closing store is a release, the opening load an acquire, and both touch the
\* commit word; the relaxed accesses between them are ordered by nothing else.
StoredBefore(i, j) == i < j /\ (ProgramOrder \/ j = Close)
LoadedBefore(i, j) == i < j /\ (ProgramOrder \/ i = Open)

MayStore(w, i) == i \in wtodo[w] /\ \A j \in wtodo[w] : ~StoredBefore(j, i)
MayLoad(r, i)  == i \in rtodo[r] /\ \A j \in rtodo[r] : ~LoadedBefore(j, i)

InCall(w)    == wticket[w] # 0
WriterSlot(w) == SlotOf(wticket[w])

\* The calls in progress in the slot of ticket t.
Rivals(t) == {v \in Writers : InCall(v) /\ WriterSlot(v) = SlotOf(t)}

\* Tickets whose call has made its last store.
Written == {t \in 1 .. breadcrumb_ticket : \A w \in Writers : wticket[w] # t}

-----------------------------------------------------------------------------
(***************************************************************************)
(* client::breadcrumb, after the lease let the call through.               *)
(***************************************************************************)

Claim(w) ==
    LET t == breadcrumb_ticket + 1 IN
    /\ ~InCall(w)
    /\ breadcrumb_ticket < MaxTickets
    /\ breadcrumb_ticket' = t
    /\ wticket' = [wticket EXCEPT ![w] = t]
    /\ wtodo' = [wtodo EXCEPT ![w] = Steps]
    /\ overlapped' = overlapped \cup
          (IF Rivals(t) = {} THEN {} ELSE {t} \cup {wticket[v] : v \in Rivals(t)})
    /\ UNCHANGED <<commit, cell>>
    /\ UNCHANGED readerVars

OpenSlot(w) ==
    /\ MayStore(w, Open)
    /\ commit' = [commit EXCEPT ![WriterSlot(w)] = OddCommit(wticket[w])]
    /\ wtodo' = [wtodo EXCEPT ![w] = @ \ {Open}]
    /\ UNCHANGED <<breadcrumb_ticket, cell, wticket, overlapped>>
    /\ UNCHANGED readerVars

StoreCell(w, c) ==
    /\ MayStore(w, c)
    /\ cell' = [cell EXCEPT ![WriterSlot(w)][c] = wticket[w]]
    /\ wtodo' = [wtodo EXCEPT ![w] = @ \ {c}]
    /\ UNCHANGED <<breadcrumb_ticket, commit, wticket, overlapped>>
    /\ UNCHANGED readerVars

CloseSlot(w) ==
    /\ MayStore(w, Close)
    /\ commit' = [commit EXCEPT ![WriterSlot(w)] = EvenCommit(wticket[w])]
    /\ wtodo' = [wtodo EXCEPT ![w] = {}]
    /\ wticket' = [wticket EXCEPT ![w] = 0]
    /\ UNCHANGED <<breadcrumb_ticket, cell, overlapped>>
    /\ UNCHANGED readerVars

-----------------------------------------------------------------------------
(***************************************************************************)
(* The breadcrumb part of watchdog_session::snapshot and read_breadcrumb.  *)
(***************************************************************************)

\* Mutants: the window is one ticket short; it is one too long and never cut off.
OldestTooNew(n) == IF n > Capacity THEN n - Capacity + 2 ELSE 1
OldestUncut(n) == n - Capacity

Oldest(n) == IF n > Capacity THEN n - Capacity + 1 ELSE 1

\* for (ticket = oldest; ticket <= newest && ticket != 0; ++ticket)
BeginSnapshot(r) ==
    /\ cursor[r] = 0
    /\ newest' = [newest EXCEPT ![r] = breadcrumb_ticket]
    /\ cursor' = [cursor EXCEPT ![r] =
                     IF breadcrumb_ticket = 0 THEN 0 ELSE Oldest(breadcrumb_ticket)]
    /\ rtodo' = [rtodo EXCEPT ![r] = Steps]
    /\ breadcrumbs' = [breadcrumbs EXCEPT ![r] = <<>>]
    /\ settled' = [settled EXCEPT ![r] = Written]
    /\ UNCHANGED seen
    /\ UNCHANGED writerVars

\* Leave the current ticket: to the next one, or out of the loop.
NextTicket(r) ==
    /\ cursor' = [cursor EXCEPT ![r] =
                     IF cursor[r] = newest[r] THEN 0 ELSE cursor[r] + 1]
    /\ rtodo' = [rtodo EXCEPT ![r] = Steps]

\* Mutant: wait for the slot to hold the ticket.
TryAgain(r) ==
    /\ rtodo' = [rtodo EXCEPT ![r] = Steps]
    /\ UNCHANGED <<cursor, seen, breadcrumbs>>

\* read_breadcrumb returns nullopt.
SkipTicket(r) == NextTicket(r) /\ UNCHANGED <<seen, breadcrumbs>>

Expected(r) == EvenCommit(cursor[r])
SlotCommit(r) == commit[SlotOf(cursor[r])]

\* Both loads of the commit word: the ticket's even value or give the slot up.
LoadCommit(r, i) ==
    /\ cursor[r] # 0
    /\ MayLoad(r, i)
    /\ \/ /\ SlotCommit(r) = Expected(r)
          /\ rtodo' = [rtodo EXCEPT ![r] = @ \ {i}]
          /\ UNCHANGED <<cursor, seen, breadcrumbs>>
       \/ /\ SlotCommit(r) # Expected(r)
          /\ SkipTicket(r)
    /\ UNCHANGED <<newest, settled>>
    /\ UNCHANGED writerVars

LoadCell(r, c) ==
    LET value == cell[SlotOf(cursor[r])][c] IN
    /\ cursor[r] # 0
    /\ MayLoad(r, c)
    /\ \/ /\ c = 1 => value = cursor[r]
          /\ seen' = [seen EXCEPT ![r][c] = value]
          /\ rtodo' = [rtodo EXCEPT ![r] = @ \ {c}]
          /\ UNCHANGED <<cursor, breadcrumbs>>
       \/ /\ c = 1 /\ value # cursor[r]
          /\ SkipTicket(r)
    /\ UNCHANGED <<newest, settled>>
    /\ UNCHANGED writerVars

\* result.breadcrumbs.push_back(*item)
PushBack(r) ==
    /\ cursor[r] # 0
    /\ rtodo[r] = {}
    /\ breadcrumbs' = [breadcrumbs EXCEPT ![r] = Append(@, seen[r])]
    /\ NextTicket(r)
    /\ UNCHANGED <<newest, seen, settled>>
    /\ UNCHANGED writerVars

-----------------------------------------------------------------------------
Init ==
    /\ breadcrumb_ticket = 0
    /\ commit = [s \in Slots |-> 0]
    /\ cell = [s \in Slots |-> [c \in Cells |-> 0]]
    /\ wticket = [w \in Writers |-> 0]
    /\ wtodo = [w \in Writers |-> {}]
    /\ overlapped = {}
    /\ newest = [r \in Readers |-> 0]
    /\ cursor = [r \in Readers |-> 0]
    /\ rtodo = [r \in Readers |-> {}]
    /\ seen = [r \in Readers |-> [c \in Cells |-> 0]]
    /\ breadcrumbs = [r \in Readers |-> <<>>]
    /\ settled = [r \in Readers |-> {}]

WriterStep(w) ==
    \/ Claim(w)
    \/ OpenSlot(w)
    \/ \E c \in Cells : StoreCell(w, c)
    \/ CloseSlot(w)

\* The steps of a snapshot that has begun.
ReadStep(r) ==
    \/ LoadCommit(r, Open)
    \/ \E c \in Cells : LoadCell(r, c)
    \/ LoadCommit(r, Close)
    \/ PushBack(r)

Next ==
    \/ \E w \in Writers : WriterStep(w)
    \/ \E r \in Readers : BeginSnapshot(r) \/ ReadStep(r)

\* Only the watcher is assumed to run: no fairness for the observed process.
Spec == Init /\ [][Next]_vars /\ \A r \in Readers : WF_vars(ReadStep(r))

-----------------------------------------------------------------------------
(***************************************************************************)
(* Properties.                                                             *)
(***************************************************************************)

\* The state stays within its types.
TypeOK ==
    /\ breadcrumb_ticket \in 0 .. MaxTickets
    /\ commit \in [Slots -> Nat]
    /\ cell \in [Slots -> [Cells -> Nat]]
    /\ wticket \in [Writers -> Nat]
    /\ wtodo \in [Writers -> SUBSET Steps]
    /\ overlapped \subseteq Nat
    /\ newest \in [Readers -> Nat]
    /\ cursor \in [Readers -> Nat]
    /\ rtodo \in [Readers -> SUBSET Steps]
    /\ seen \in [Readers -> [Cells -> Nat]]
    /\ breadcrumbs \in [Readers -> Seq([Cells -> Nat])]
    /\ settled \in [Readers -> SUBSET Nat]

Intact(b) == \A c \in Cells : b[c] = b[1]

Reported(r) == {breadcrumbs[r][i] : i \in 1 .. Len(breadcrumbs[r])}

\* A reported breadcrumb carries the fields of one single call, the one whose
\* ticket the reader asked for, unless that call shared its slot with another
\* call: the seqlock of client::breadcrumb and read_breadcrumb can be fooled
\* by lapping writers and by nothing else.
IntactUnlessOverlapped ==
    \A r \in Readers : \A b \in Reported(r) : b[1] \notin overlapped => Intact(b)

\* The ring retains the newest entries: a finished snapshot holds every
\* breadcrumb fully written before it began whose slot was not handed out again,
\* whatever the writers did meanwhile, unless its call shared the slot.
SettledReported ==
    \A r \in Readers : cursor[r] = 0 =>
        \A t \in settled[r] \ overlapped :
            t + Capacity > breadcrumb_ticket => \E b \in Reported(r) : b[1] = t

\* A call has stored part of its fields and not yet closed its slot.
Storing(w) == /\ InCall(w)
              /\ Close \in wtodo[w]
              /\ \E c \in Cells : c \notin wtodo[w]

\* "The odd value closes the slot to readers before any payload field is
\* changed": while a call has changed some of its fields and not finished, its
\* slot holds an odd commit word.  Holds with one writer in program order.
SlotClosedWhileStoring ==
    \A w \in Writers : Storing(w) => commit[WriterSlot(w)] % 2 = 1

\* A snapshot ends however often the writers publish and wherever they stop: a
\* reader never waits for a slot to be closed.
SnapshotTerminates == \A r \in Readers : cursor[r] # 0 ~> cursor[r] = 0

=============================================================================
