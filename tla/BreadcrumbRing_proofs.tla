------------------------ MODULE BreadcrumbRing_proofs ------------------------
(***************************************************************************)
(* Proofs about BreadcrumbRing, for every capacity, every number of        *)
(* payload fields and all sets of writers and readers.                     *)
(***************************************************************************)
EXTENDS BreadcrumbRing, TLAPS

\* A ticket has a slot.
LEMMA SlotInRange == \A t \in Nat \ {0} : SlotOf(t) \in Slots
  BY RingAssumption DEF SlotOf, Slots

\* The commit words of different tickets, or of different states, differ.
LEMMA CommitWords ==
    \A s, t \in Nat : /\ OddCommit(t) \in Nat
                      /\ EvenCommit(t) \in Nat
                      /\ OddCommit(s) # EvenCommit(t)
                      /\ EvenCommit(s) = EvenCommit(t) => s = t
                      /\ s <= t => EvenCommit(s) < OddCommit(t)
                      /\ s <= t => OddCommit(s) <= OddCommit(t)
                      /\ s < t => OddCommit(s) < EvenCommit(t)
  BY DEF OddCommit, EvenCommit

USE RingAssumption

\* Type correctness, for either ordering of accesses.
THEOREM Typing == Spec => []TypeOK
<1> USE DEF TypeOK
<1>1. Init => TypeOK
  BY DEF Init, Slots, Cells, Steps, Open, Close
<1>2. TypeOK /\ [Next]_vars => TypeOK'
  <2> SUFFICES ASSUME TypeOK, [Next]_vars PROVE TypeOK'
    OBVIOUS
  <2>1. ASSUME NEW w \in Writers, Claim(w) PROVE TypeOK'
    <3>1. breadcrumb_ticket + 1 \in 0 .. MaxTickets
      BY <2>1 DEF Claim
    <3>2. overlapped' \subseteq Nat
      <4>1. Rivals(breadcrumb_ticket + 1) \subseteq Writers
        BY DEF Rivals
      <4> DEFINE hit == {wticket[v] : v \in Rivals(breadcrumb_ticket + 1)}
      <4>2. hit \subseteq Nat
        BY <4>1
      <4>3. \/ overlapped' = overlapped
            \/ overlapped' = overlapped \cup ({breadcrumb_ticket + 1} \cup hit)
        BY <2>1, Zenon DEF Claim
      <4>4. overlapped \subseteq Nat /\ breadcrumb_ticket + 1 \in Nat
        BY <3>1
      <4> HIDE DEF hit, TypeOK
      <4> QED
        BY <4>2, <4>3, <4>4
    <3>3. wtodo' \in [Writers -> SUBSET Steps]
      BY <2>1 DEF Claim
    <3> QED
      BY <2>1, <3>1, <3>2, <3>3 DEF Claim, readerVars
  <2>2. ASSUME NEW w \in Writers, OpenSlot(w) PROVE TypeOK'
    <3>1. commit' \in [Slots -> Nat]
      BY <2>2, CommitWords DEF OpenSlot
    <3>2. wtodo' \in [Writers -> SUBSET Steps]
      BY <2>2 DEF OpenSlot
    <3> QED
      BY <2>2, <3>1, <3>2 DEF OpenSlot, readerVars
  <2>3. ASSUME NEW w \in Writers, NEW c \in Cells, StoreCell(w, c) PROVE TypeOK'
    <3>1. cell' \in [Slots -> [Cells -> Nat]]
      BY <2>3 DEF StoreCell
    <3>2. wtodo' \in [Writers -> SUBSET Steps]
      BY <2>3 DEF StoreCell
    <3> QED
      BY <2>3, <3>1, <3>2 DEF StoreCell, readerVars
  <2>4. ASSUME NEW w \in Writers, CloseSlot(w) PROVE TypeOK'
    <3>1. commit' \in [Slots -> Nat]
      BY <2>4, CommitWords DEF CloseSlot
    <3> QED
      BY <2>4, <3>1 DEF CloseSlot, readerVars
  <2>5. ASSUME NEW r \in Readers, BeginSnapshot(r) PROVE TypeOK'
    <3>1. Oldest(breadcrumb_ticket) \in Nat
      BY DEF Oldest
    <3>2. settled' \in [Readers -> SUBSET Nat]
      BY <2>5 DEF BeginSnapshot, Written
    <3>3. breadcrumbs' \in [Readers -> Seq([Cells -> Nat])]
      BY <2>5 DEF BeginSnapshot
    <3> QED
      BY <2>5, <3>1, <3>2, <3>3 DEF BeginSnapshot, writerVars
  <2>0. ASSUME NEW r \in Readers, NextTicket(r)
        PROVE  /\ cursor' \in [Readers -> Nat]
               /\ rtodo' \in [Readers -> SUBSET Steps]
    BY <2>0 DEF NextTicket
  <2>6. ASSUME NEW r \in Readers, NEW i \in Steps, LoadCommit(r, i) PROVE TypeOK'
    <3>1. CASE SlotCommit(r) = Expected(r)
      BY <2>6, <3>1 DEF LoadCommit, writerVars
    <3>2. CASE SkipTicket(r)
      BY <2>6, <3>2, <2>0 DEF LoadCommit, SkipTicket, writerVars
    <3> QED
      BY <2>6, <3>1, <3>2 DEF LoadCommit
  <2>7. ASSUME NEW r \in Readers, NEW c \in Cells, LoadCell(r, c) PROVE TypeOK'
    <3>1. SlotOf(cursor[r]) \in Slots
      BY <2>7, SlotInRange DEF LoadCell
    <3>2. cell[SlotOf(cursor[r])][c] \in Nat
      BY <3>1
    <3>3. CASE SkipTicket(r)
      BY <2>7, <3>3, <2>0 DEF LoadCell, SkipTicket, writerVars
    <3>4. CASE /\ seen' = [seen EXCEPT ![r][c] = cell[SlotOf(cursor[r])][c]]
               /\ rtodo' = [rtodo EXCEPT ![r] = @ \ {c}]
               /\ UNCHANGED <<cursor, breadcrumbs>>
      <4>1. seen' \in [Readers -> [Cells -> Nat]]
        BY <3>2, <3>4
      <4>2. rtodo' \in [Readers -> SUBSET Steps]
        BY <3>4
      <4> QED
        BY <2>7, <3>4, <4>1, <4>2 DEF LoadCell, writerVars
    <3> QED
      BY <2>7, <3>3, <3>4 DEF LoadCell
  <2>8. ASSUME NEW r \in Readers, PushBack(r) PROVE TypeOK'
    BY <2>8, <2>0 DEF PushBack, writerVars
  <2>9. CASE UNCHANGED vars
    BY <2>9 DEF vars
  <2>10. Open \in Steps /\ Close \in Steps
    BY DEF Open, Close, Steps
  <2> QED
    BY <2>1, <2>2, <2>3, <2>4, <2>5, <2>6, <2>7, <2>8, <2>9, <2>10
       DEF Next, WriterStep, ReadStep
<1> QED
  BY <1>1, <1>2, PTL DEF Spec

-----------------------------------------------------------------------------
(***************************************************************************)
(* The inductive invariant, one part per theorem, each from those before.  *)
(***************************************************************************)

\* Calls in progress hold distinct tickets that were handed out, and have stored
\* nothing that must become visible after something still to be stored.
WriterInv ==
    \A w \in Writers :
        /\ wticket[w] <= breadcrumb_ticket
        /\ InCall(w) => Close \in wtodo[w]
        /\ ~InCall(w) => wtodo[w] = {}
        /\ \A i \in wtodo[w] : \A j \in Steps : StoredBefore(i, j) => j \in wtodo[w]
        /\ \A v \in Writers : InCall(v) /\ wticket[v] = wticket[w] => v = w

\* Two calls in one slot are both on record.
OverlapInv ==
    \A v, w \in Writers :
        v # w /\ InCall(v) /\ InCall(w) /\ WriterSlot(v) = WriterSlot(w)
            => wticket[v] \in overlapped

\* No commit word runs ahead of the tickets, and an even one shows that the call
\* has ended.
CommitInv ==
    /\ \A s \in Slots : commit[s] <= OddCommit(breadcrumb_ticket)
    /\ \A w \in Writers : InCall(w) => commit[WriterSlot(w)] # EvenCommit(wticket[w])

\* A call alone in its slot keeps it closed and its stores are still there.
OpenInv ==
    \A w \in Writers :
        InCall(w) /\ wticket[w] \notin overlapped /\ Open \notin wtodo[w] =>
            /\ commit[WriterSlot(w)] = OddCommit(wticket[w])
            /\ \A c \in Cells \ wtodo[w] : cell[WriterSlot(w)][c] = wticket[w]

\* Under the even commit word of a call that was alone lie that call's fields,
\* and whoever is in the slot has not touched it yet.
ClosedInv ==
    \A t \in 1 .. breadcrumb_ticket :
        t \notin overlapped /\ commit[SlotOf(t)] = EvenCommit(t) =>
            /\ \A c \in Cells : cell[SlotOf(t)][c] = t
            /\ \A w \in Rivals(t) : Open \in wtodo[w]

\* Once the opening load has found the even word, the ticket's call is over and,
\* as long as the word is still there, whatever was loaded is that call's.
ReadOK(r) ==
    /\ cursor[r] <= newest[r]
    /\ newest[r] <= breadcrumb_ticket
    /\ \A i \in rtodo[r] : \A j \in Steps : LoadedBefore(i, j) => j \in rtodo[r]
    /\ Open \notin rtodo[r] => \A w \in Writers : wticket[w] # cursor[r]
    /\ 1 \notin rtodo[r] => seen[r][1] = cursor[r]
    /\ cursor[r] \notin overlapped =>
          /\ Open \notin rtodo[r] /\ SlotCommit(r) = Expected(r) =>
                \A c \in Cells \ rtodo[r] : seen[r][c] = cursor[r]
          /\ Close \notin rtodo[r] => \A c \in Cells : seen[r][c] = cursor[r]

ReaderInv == \A r \in Readers : cursor[r] # 0 => ReadOK(r)

\* Reader steps leave the ring alone.
LEMMA RingSteps ==
    ASSUME [Next]_vars
    PROVE  \/ UNCHANGED writerVars
           \/ \E w \in Writers : Claim(w)
           \/ \E w \in Writers : OpenSlot(w)
           \/ \E w \in Writers : \E c \in Cells : StoreCell(w, c)
           \/ \E w \in Writers : CloseSlot(w)
<1>1. ASSUME NEW r \in Readers, BeginSnapshot(r) \/ ReadStep(r)
      PROVE  UNCHANGED writerVars
  <2>1. CASE BeginSnapshot(r)
    BY <2>1 DEF BeginSnapshot
  <2>2. ASSUME NEW i, LoadCommit(r, i) PROVE UNCHANGED writerVars
    BY <2>2 DEF LoadCommit
  <2>3. ASSUME NEW c, LoadCell(r, c) PROVE UNCHANGED writerVars
    BY <2>3 DEF LoadCell
  <2>4. CASE PushBack(r)
    BY <2>4 DEF PushBack
  <2> QED
    BY <1>1, <2>1, <2>2, <2>3, <2>4 DEF ReadStep
<1>2. UNCHANGED vars => UNCHANGED writerVars
  BY DEF vars, writerVars
<1>3. \/ \E w \in Writers : WriterStep(w)
      \/ \E r \in Readers : BeginSnapshot(r) \/ ReadStep(r)
      \/ UNCHANGED vars
  BY DEF Next
<1> QED
  BY <1>1, <1>2, <1>3 DEF WriterStep

\* The order of the accesses of a call: its opening store first, its closing store
\* last, one store for each field between them.
LEMMA StepFacts == /\ Open \in Steps /\ Close \in Steps /\ Cells \subseteq Steps
                   /\ 1 \in Cells /\ Open \notin Cells /\ Close \notin Cells
                   /\ Open # Close
                   /\ \A i \in Steps : i = Open \/ i = Close \/ i \in Cells
                   /\ \A c \in Cells : Open < c /\ c < Close
                   /\ Open < Close
                   /\ \A i, j \in Steps : StoredBefore(i, j) => i # j
                   /\ \A i \in Steps : ~StoredBefore(Close, i)
  BY DEF Open, Close, Steps, Cells, StoredBefore

\* Every call that client::breadcrumb has begun has a ticket of its own, and makes its
\* stores in an order its memory orders allow.
THEOREM WriterTheorem == Spec => []WriterInv
<1>1. Init => WriterInv
  BY DEF Init, WriterInv, InCall
<1>2. TypeOK /\ WriterInv /\ [Next]_vars => WriterInv'
  <2> SUFFICES ASSUME TypeOK, WriterInv, [Next]_vars PROVE WriterInv'
    OBVIOUS
  <2>1. ASSUME NEW w \in Writers, Claim(w) PROVE WriterInv'
    <3>1. /\ breadcrumb_ticket \in Nat
          /\ breadcrumb_ticket' = breadcrumb_ticket + 1
          /\ wticket \in [Writers -> Nat]
          /\ wtodo \in [Writers -> SUBSET Steps]
          /\ wticket' = [wticket EXCEPT ![w] = breadcrumb_ticket + 1]
          /\ wtodo' = [wtodo EXCEPT ![w] = Steps]
      BY <2>1 DEF Claim, TypeOK
    <3> QED
      BY <3>1, StepFacts DEF WriterInv, InCall
  <2>2. ASSUME NEW w \in Writers, NEW i \in Steps, i # Close, MayStore(w, i),
               wtodo' = [wtodo EXCEPT ![w] = @ \ {i}],
               UNCHANGED <<breadcrumb_ticket, wticket>>
        PROVE  WriterInv'
    BY <2>2, StepFacts DEF WriterInv, InCall, MayStore, TypeOK
  <2>3. ASSUME NEW w \in Writers, CloseSlot(w) PROVE WriterInv'
    BY <2>3, StepFacts DEF WriterInv, InCall, CloseSlot, TypeOK
  <2>4. CASE UNCHANGED writerVars
    BY <2>4 DEF writerVars, WriterInv, InCall
  <2> QED
    BY <2>1, <2>2, <2>3, <2>4, RingSteps, StepFacts DEF OpenSlot, StoreCell
<1> QED
  BY <1>1, <1>2, Typing, PTL DEF Spec

\* A call has a ticket, and its ticket a slot of the ring.
LEMMA SlotOfWriter ==
    ASSUME TypeOK, NEW w \in Writers, InCall(w)
    PROVE  /\ wticket[w] \in Nat \ {0}
           /\ WriterSlot(w) \in Slots
  BY SlotInRange DEF TypeOK, InCall, WriterSlot

\* Two calls of client::breadcrumb in one slot are both on record as overlapped.
THEOREM OverlapTheorem == Spec => []OverlapInv
<1>1. Init => OverlapInv
  BY DEF Init, OverlapInv, InCall
<1>2. TypeOK /\ OverlapInv /\ [Next]_vars => OverlapInv'
  <2> SUFFICES ASSUME TypeOK, OverlapInv, [Next]_vars PROVE OverlapInv'
    OBVIOUS
  <2>1. ASSUME NEW u \in Writers, Claim(u) PROVE OverlapInv'
    <3> SUFFICES ASSUME NEW v \in Writers, NEW w \in Writers, v # w,
                        InCall(v)', InCall(w)', (WriterSlot(v) = WriterSlot(w))'
                 PROVE  wticket'[v] \in overlapped'
      BY DEF OverlapInv
    <3> DEFINE t == breadcrumb_ticket + 1
    <3>1. /\ wticket \in [Writers -> Nat]
          /\ wticket' = [wticket EXCEPT ![u] = t]
          /\ overlapped \subseteq overlapped'
      BY <2>1 DEF Claim, TypeOK
    <3>2. Rivals(t) # {} =>
             t \in overlapped' /\ \A x \in Rivals(t) : wticket[x] \in overlapped'
      BY <2>1 DEF Claim
    <3>3. CASE v = u
      <4>1. w \in Rivals(t)
        BY <3>1, <3>3 DEF Rivals, InCall, WriterSlot
      <4> QED
        BY <3>1, <3>2, <3>3, <4>1
    <3>4. CASE w = u
      <4>1. v \in Rivals(t)
        BY <3>1, <3>4 DEF Rivals, InCall, WriterSlot
      <4> QED
        BY <3>1, <3>2, <3>4, <4>1
    <3>5. CASE v # u /\ w # u
      BY <3>1, <3>5 DEF OverlapInv, InCall, WriterSlot
    <3> QED
      BY <3>3, <3>4, <3>5
  <2>2. CASE UNCHANGED <<wticket, overlapped>>
    BY <2>2 DEF OverlapInv, InCall, WriterSlot
  <2>3. ASSUME NEW u \in Writers, CloseSlot(u) PROVE OverlapInv'
    <3>1. /\ wticket \in [Writers -> Nat]
          /\ wticket' = [wticket EXCEPT ![u] = 0]
          /\ overlapped' = overlapped
      BY <2>3 DEF CloseSlot, TypeOK
    <3> QED
      BY <3>1 DEF OverlapInv, InCall, WriterSlot
  <2> QED
    BY <2>1, <2>2, <2>3, RingSteps DEF OpenSlot, StoreCell, writerVars
<1> QED
  BY <1>1, <1>2, Typing, PTL DEF Spec

\* A commit word never runs ahead of the tickets handed out: no slot shows the value
\* of a call of client::breadcrumb that has not begun.
THEOREM CommitTheorem == Spec => []CommitInv
<1>1. Init => CommitInv
  BY CommitWords DEF Init, CommitInv, InCall
<1>2. TypeOK /\ WriterInv /\ CommitInv /\ [Next]_vars => CommitInv'
  <2> SUFFICES ASSUME TypeOK, WriterInv, CommitInv, [Next]_vars PROVE CommitInv'
    OBVIOUS
  <2>0. /\ breadcrumb_ticket \in Nat
        /\ wticket \in [Writers -> Nat]
        /\ commit \in [Slots -> Nat]
        /\ \A w \in Writers : wticket[w] <= breadcrumb_ticket
    BY DEF TypeOK, WriterInv
  <2>1. ASSUME NEW u \in Writers, Claim(u) PROVE CommitInv'
    <3> DEFINE t == breadcrumb_ticket + 1
    <3>1. /\ wticket' = [wticket EXCEPT ![u] = t]
          /\ breadcrumb_ticket' = t
          /\ commit' = commit
      BY <2>1 DEF Claim
    <3>2. OddCommit(breadcrumb_ticket) < EvenCommit(t) /\ EvenCommit(t) < OddCommit(t)
      BY <2>0 DEF OddCommit, EvenCommit
    <3>3. SlotOf(t) \in Slots
      BY <2>0, SlotInRange
    <3>4. \A s \in Slots : commit[s] < EvenCommit(t)
      BY <2>0, <3>2, CommitWords DEF CommitInv
    <3>5. \A s \in Slots : commit'[s] <= OddCommit(t)
      BY <2>0, <3>1, <3>2, <3>4, CommitWords
    <3>6. ASSUME NEW w \in Writers, InCall(w)'
          PROVE  (commit[WriterSlot(w)] # EvenCommit(wticket[w]))'
      <4>1. CASE w = u
        <5>1. wticket'[w] = t /\ WriterSlot(w)' = SlotOf(t)
          BY <2>0, <3>1, <4>1 DEF WriterSlot
        <5>2. commit[SlotOf(t)] < EvenCommit(t) /\ commit[SlotOf(t)] \in Nat
          BY <2>0, <3>3, <3>4
        <5> QED
          BY <3>1, <5>1, <5>2
      <4>2. CASE w # u
        BY <2>0, <3>1, <3>6, <4>2 DEF CommitInv, InCall, WriterSlot
      <4> QED
        BY <4>1, <4>2
    <3> QED
      BY <3>1, <3>5, <3>6 DEF CommitInv
  <2>2. CASE UNCHANGED <<breadcrumb_ticket, wticket, commit>>
    BY <2>2 DEF CommitInv, InCall, WriterSlot
  <2>3. ASSUME NEW u \in Writers, OpenSlot(u) PROVE CommitInv'
    <3>1. InCall(u)
      BY <2>3 DEF OpenSlot, MayStore, WriterInv
    <3>2. /\ breadcrumb_ticket' = breadcrumb_ticket
          /\ wticket' = wticket
          /\ commit' = [commit EXCEPT ![WriterSlot(u)] = OddCommit(wticket[u])]
      BY <2>3 DEF OpenSlot
    <3>3. OddCommit(wticket[u]) <= OddCommit(breadcrumb_ticket)
      BY <2>0, CommitWords
    <3>4. \A s \in Slots : commit'[s] <= OddCommit(breadcrumb_ticket)
      BY <2>0, <3>2, <3>3 DEF CommitInv
    <3>5. ASSUME NEW w \in Writers, InCall(w)
          PROVE  commit'[WriterSlot(w)] # EvenCommit(wticket[w])
      BY <2>0, <3>2, <3>5, SlotOfWriter, CommitWords DEF CommitInv
    <3> QED
      BY <3>2, <3>4, <3>5 DEF CommitInv, InCall, WriterSlot
  <2>4. ASSUME NEW u \in Writers, CloseSlot(u) PROVE CommitInv'
    <3>1. InCall(u)
      BY <2>4 DEF CloseSlot, MayStore, WriterInv
    <3>2. /\ breadcrumb_ticket' = breadcrumb_ticket
          /\ wticket' = [wticket EXCEPT ![u] = 0]
          /\ commit' = [commit EXCEPT ![WriterSlot(u)] = EvenCommit(wticket[u])]
      BY <2>4 DEF CloseSlot
    <3>3. /\ EvenCommit(wticket[u]) < OddCommit(breadcrumb_ticket)
          /\ EvenCommit(wticket[u]) \in Nat
          /\ OddCommit(breadcrumb_ticket) \in Nat
      BY <2>0, CommitWords
    <3>4. \A s \in Slots : commit'[s] <= OddCommit(breadcrumb_ticket)
      BY <2>0, <3>2, <3>3 DEF CommitInv
    <3>5. ASSUME NEW w \in Writers, w # u, InCall(w)
          PROVE  commit'[WriterSlot(w)] # EvenCommit(wticket[w])
      <4>1. wticket[w] # wticket[u]
        BY <3>1, <3>5 DEF WriterInv
      <4>2. EvenCommit(wticket[u]) # EvenCommit(wticket[w])
        BY <2>0, <4>1, CommitWords
      <4> QED
        BY <2>0, <3>2, <3>5, <4>2, SlotOfWriter DEF CommitInv
    <3>6. ASSUME NEW w \in Writers, InCall(w)'
          PROVE  w # u /\ InCall(w) /\ wticket'[w] = wticket[w]
      BY <2>0, <3>2, <3>6 DEF InCall
    <3> QED
      BY <3>2, <3>4, <3>5, <3>6 DEF CommitInv, WriterSlot
  <2> QED
    BY <2>1, <2>2, <2>3, <2>4, RingSteps DEF StoreCell, writerVars
<1> QED
  BY <1>1, <1>2, Typing, WriterTheorem, PTL DEF Spec

\* In program order a call that shares its slot with nobody holds it closed, with the
\* fields it has stored so far, from its opening store on.
THEOREM OpenTheorem ==
    ASSUME ProgramOrder
    PROVE  Spec => []OpenInv
<1>1. Init => OpenInv
  BY DEF Init, OpenInv, InCall
<1>2. TypeOK /\ WriterInv /\ OverlapInv /\ OpenInv /\ [Next]_vars => OpenInv'
  <2> SUFFICES ASSUME TypeOK, WriterInv, OverlapInv, OpenInv, [Next]_vars,
                      NEW w \in Writers, InCall(w)', wticket'[w] \notin overlapped',
                      Open \notin wtodo'[w]
               PROVE  /\ (commit[WriterSlot(w)] = OddCommit(wticket[w]))'
                      /\ \A c \in Cells \ wtodo'[w] :
                            (cell[WriterSlot(w)][c] = wticket[w])'
    BY DEF OpenInv
  <2>0. /\ wticket \in [Writers -> Nat]
        /\ wtodo \in [Writers -> SUBSET Steps]
        /\ commit \in [Slots -> Nat]
        /\ cell \in [Slots -> [Cells -> Nat]]
    BY DEF TypeOK
  \* Another call that stores into the slot would be on record.
  <2>a. ASSUME NEW u \in Writers, u # w, InCall(u), InCall(w),
               wticket[w] \notin overlapped
        PROVE  WriterSlot(u) # WriterSlot(w)
    BY <2>a DEF OverlapInv
  <2>1. ASSUME NEW u \in Writers, Claim(u)
        PROVE  u # w /\ wticket'[w] = wticket[w] /\ wtodo'[w] = wtodo[w]
               /\ overlapped \subseteq overlapped' /\ UNCHANGED <<commit, cell>>
    BY <2>0, <2>1, StepFacts DEF Claim
  <2>2. ASSUME NEW u \in Writers, OpenSlot(u)
        PROVE  /\ commit'[WriterSlot(w)] = OddCommit(wticket[w])
               /\ \A c \in Cells \ wtodo'[w] : cell'[WriterSlot(w)][c] = wticket[w]
    <3>1. InCall(u) /\ InCall(w) /\ wticket[w] \notin overlapped
      BY <2>2 DEF OpenSlot, MayStore, WriterInv, InCall
    <3>2. CASE u = w
      <4>1. \A c \in Cells : c \in wtodo[w]
        BY <2>2, <3>2, StepFacts DEF OpenSlot, MayStore, WriterInv, StoredBefore
      <4>2. wtodo'[w] = wtodo[w] \ {Open}
        BY <2>0, <2>2, <3>2 DEF OpenSlot
      <4>3. commit'[WriterSlot(w)] = OddCommit(wticket[w])
        BY <2>0, <2>2, <3>1, <3>2, SlotOfWriter DEF OpenSlot
      <4> QED
        BY <4>1, <4>2, <4>3, StepFacts
    <3>3. CASE u # w
      <4>1. WriterSlot(u) # WriterSlot(w)
        BY <2>a, <3>1, <3>3
      <4>2. wtodo'[w] = wtodo[w] /\ cell' = cell
        BY <2>0, <2>2, <3>3 DEF OpenSlot
      <4>3. commit'[WriterSlot(w)] = commit[WriterSlot(w)]
        BY <2>0, <2>2, <4>1, <3>1, SlotOfWriter DEF OpenSlot
      <4> QED
        BY <3>1, <4>2, <4>3 DEF OpenInv
    <3> QED
      BY <3>2, <3>3
  <2>3. ASSUME NEW u \in Writers, NEW d \in Cells, StoreCell(u, d)
        PROVE  /\ commit'[WriterSlot(w)] = OddCommit(wticket[w])
               /\ \A c \in Cells \ wtodo'[w] : cell'[WriterSlot(w)][c] = wticket[w]
    <3>1. InCall(u) /\ InCall(w) /\ wticket[w] \notin overlapped /\ commit' = commit
      BY <2>3 DEF StoreCell, MayStore, WriterInv, InCall
    <3>2. CASE u = w
      <4>1. wtodo'[w] = wtodo[w] \ {d} /\ Open \notin wtodo[w]
        BY <2>0, <2>3, <3>2, StepFacts DEF StoreCell
      <4>2. /\ cell'[WriterSlot(w)][d] = wticket[w]
            /\ \A c \in Cells \ {d} : cell'[WriterSlot(w)][c] = cell[WriterSlot(w)][c]
        BY <2>0, <2>3, <3>1, <3>2, SlotOfWriter DEF StoreCell
      <4> QED
        BY <3>1, <4>1, <4>2 DEF OpenInv
    <3>3. CASE u # w
      <4>1. WriterSlot(u) # WriterSlot(w)
        BY <2>a, <3>1, <3>3
      <4>2. wtodo'[w] = wtodo[w]
        BY <2>0, <2>3, <3>3 DEF StoreCell
      <4>3. cell'[WriterSlot(w)] = cell[WriterSlot(w)]
        BY <2>0, <2>3, <4>1, <3>1, SlotOfWriter DEF StoreCell
      <4> QED
        BY <3>1, <4>2, <4>3 DEF OpenInv
    <3> QED
      BY <3>2, <3>3
  <2>4. ASSUME NEW u \in Writers, CloseSlot(u)
        PROVE  /\ commit'[WriterSlot(w)] = OddCommit(wticket[w])
               /\ \A c \in Cells \ wtodo'[w] : cell'[WriterSlot(w)][c] = wticket[w]
    <3>1. InCall(u) /\ u # w /\ wticket'[w] = wticket[w]
      BY <2>0, <2>4 DEF CloseSlot, MayStore, WriterInv, InCall
    <3>2. InCall(w) /\ wticket[w] \notin overlapped
      BY <2>4, <3>1 DEF CloseSlot, InCall
    <3>3. WriterSlot(u) # WriterSlot(w)
      BY <2>a, <3>1, <3>2
    <3>4. wtodo'[w] = wtodo[w] /\ cell' = cell
      BY <2>0, <2>4, <3>1 DEF CloseSlot
    <3>5. commit'[WriterSlot(w)] = commit[WriterSlot(w)]
      BY <2>0, <2>4, <3>1, <3>2, <3>3, SlotOfWriter DEF CloseSlot
    <3> QED
      BY <3>2, <3>4, <3>5 DEF OpenInv
  <2>5. \A u \in Writers : OpenSlot(u) \/ (\E d \in Cells : StoreCell(u, d))
                              => UNCHANGED <<wticket, overlapped>>
    BY DEF OpenSlot, StoreCell
  <2>6. \A u \in Writers : CloseSlot(u) => wticket'[w] = wticket[w]
    BY <2>0 DEF CloseSlot, InCall
  <2>7. ASSUME NEW u \in Writers, Claim(u)
        PROVE  /\ (commit[WriterSlot(w)] = OddCommit(wticket[w]))'
               /\ \A c \in Cells \ wtodo'[w] :
                            (cell[WriterSlot(w)][c] = wticket[w])'
    BY <2>1, <2>7 DEF OpenInv, InCall, WriterSlot
  <2>8. CASE UNCHANGED writerVars
    BY <2>8 DEF OpenInv, InCall, WriterSlot, writerVars
  <2> QED
    BY <2>2, <2>3, <2>4, <2>5, <2>6, <2>7, <2>8, RingSteps DEF WriterSlot
<1> QED
  BY <1>1, <1>2, Typing, WriterTheorem, OverlapTheorem, PTL DEF Spec

\* In program order a slot that shows the even commit word of a call that shared it
\* with nobody holds all the fields of that call, and nobody has begun to change them.
THEOREM ClosedTheorem ==
    ASSUME ProgramOrder
    PROVE  Spec => []ClosedInv
<1>1. Init => ClosedInv
  BY DEF Init, ClosedInv
<1>2. TypeOK /\ WriterInv /\ OverlapInv /\ CommitInv /\ OpenInv /\ ClosedInv
        /\ [Next]_vars => ClosedInv'
  <2> SUFFICES ASSUME TypeOK, WriterInv, OverlapInv, CommitInv, OpenInv, ClosedInv,
                      [Next]_vars,
                      NEW t \in 1 .. breadcrumb_ticket', t \notin overlapped',
                      commit'[SlotOf(t)] = EvenCommit(t)
               PROVE  /\ \A c \in Cells : cell'[SlotOf(t)][c] = t
                      /\ \A w \in Rivals(t)' : Open \in wtodo'[w]
    BY DEF ClosedInv
  <2> DEFINE goal == /\ \A c \in Cells : cell'[SlotOf(t)][c] = t
                     /\ \A w \in Rivals(t)' : Open \in wtodo'[w]
  <2>0. /\ breadcrumb_ticket \in Nat
        /\ wticket \in [Writers -> Nat]
        /\ wtodo \in [Writers -> SUBSET Steps]
        /\ commit \in [Slots -> Nat]
        /\ cell \in [Slots -> [Cells -> Nat]]
    BY DEF TypeOK
  <2>1. ASSUME NEW u \in Writers, Claim(u) PROVE goal
    <3>1. /\ breadcrumb_ticket' = breadcrumb_ticket + 1
          /\ overlapped \subseteq overlapped'
          /\ wticket' = [wticket EXCEPT ![u] = breadcrumb_ticket + 1]
          /\ wtodo' = [wtodo EXCEPT ![u] = Steps]
          /\ UNCHANGED <<commit, cell>>
      BY <2>1 DEF Claim
    <3>2. t \in Nat \ {0} /\ SlotOf(t) \in Slots
      BY <2>0, <3>1, SlotInRange
    <3>3. EvenCommit(t) <= OddCommit(breadcrumb_ticket)
      BY <3>1, <3>2 DEF CommitInv
    <3>4. t \in 1 .. breadcrumb_ticket
      BY <2>0, <3>1, <3>2, <3>3 DEF EvenCommit, OddCommit
    <3>5. /\ \A c \in Cells : cell[SlotOf(t)][c] = t
          /\ \A w \in Rivals(t) : Open \in wtodo[w]
      BY <3>1, <3>4 DEF ClosedInv
    <3>6. \A w \in Rivals(t)' : w = u \/ w \in Rivals(t)
      BY <2>0, <3>1 DEF Rivals, InCall, WriterSlot
    <3> QED
      BY <2>0, <3>1, <3>5, <3>6, StepFacts DEF Rivals
  <2>2. ASSUME NEW u \in Writers, OpenSlot(u) PROVE goal
    <3>1. /\ InCall(u)
          /\ UNCHANGED <<breadcrumb_ticket, wticket, overlapped, cell>>
          /\ commit' = [commit EXCEPT ![WriterSlot(u)] = OddCommit(wticket[u])]
          /\ wtodo' = [wtodo EXCEPT ![u] = @ \ {Open}]
      BY <2>2 DEF OpenSlot, MayStore, WriterInv
    <3>2. t \in Nat /\ SlotOf(t) # WriterSlot(u)
      BY <2>0, <3>1, CommitWords, SlotOfWriter
    <3>3. commit[SlotOf(t)] = EvenCommit(t)
      BY <2>0, <3>1, <3>2
    <3>4. \A w \in Rivals(t)' : w \in Rivals(t) /\ w # u
      BY <3>1, <3>2 DEF Rivals, InCall, WriterSlot
    <3> QED
      BY <2>0, <3>1, <3>3, <3>4 DEF ClosedInv, Rivals
  <2>3. ASSUME NEW u \in Writers, NEW d \in Cells, StoreCell(u, d) PROVE goal
    <3>1. /\ InCall(u)
          /\ UNCHANGED <<breadcrumb_ticket, wticket, overlapped, commit>>
          /\ cell' = [cell EXCEPT ![WriterSlot(u)][d] = wticket[u]]
          /\ wtodo' = [wtodo EXCEPT ![u] = @ \ {d}]
          /\ Open \notin wtodo[u]
      BY <2>3, StepFacts DEF StoreCell, MayStore, WriterInv, StoredBefore
    <3>2. /\ \A c \in Cells : cell[SlotOf(t)][c] = t
          /\ \A w \in Rivals(t) : Open \in wtodo[w]
      BY <3>1 DEF ClosedInv
    <3>3. WriterSlot(u) # SlotOf(t)
      BY <3>1, <3>2 DEF Rivals
    <3>4. cell'[SlotOf(t)] = cell[SlotOf(t)]
      <4>1. t \in Nat \ {0}
        BY <2>0, <3>1
      <4> QED
        BY <2>0, <3>1, <3>3, <4>1, SlotInRange
    <3>5. \A w \in Rivals(t)' : w \in Rivals(t) /\ w # u
      BY <3>1, <3>3 DEF Rivals, InCall, WriterSlot
    <3> QED
      BY <2>0, <3>1, <3>2, <3>4, <3>5 DEF Rivals
  <2>4. ASSUME NEW u \in Writers, CloseSlot(u) PROVE goal
    <3>1. /\ InCall(u)
          /\ UNCHANGED <<breadcrumb_ticket, overlapped, cell>>
          /\ commit' = [commit EXCEPT ![WriterSlot(u)] = EvenCommit(wticket[u])]
          /\ wtodo' = [wtodo EXCEPT ![u] = {}]
          /\ wticket' = [wticket EXCEPT ![u] = 0]
          /\ \A i \in wtodo[u] : i = Close
      BY <2>4, StepFacts
         DEF CloseSlot, MayStore, WriterInv, StoredBefore, Cells, Steps, TypeOK
    <3>2. \A w \in Rivals(t)' : w \in Rivals(t) /\ w # u
      BY <2>0, <3>1 DEF Rivals, InCall, WriterSlot
    <3>3. t \in Nat \ {0} /\ SlotOf(t) \in Slots
      BY <2>0, <3>1, SlotInRange
    <3>4. CASE WriterSlot(u) = SlotOf(t)
      <4>1. wticket[u] = t
        BY <2>0, <3>1, <3>3, <3>4, CommitWords, SlotOfWriter
      <4>2. \A c \in Cells : cell[SlotOf(t)][c] = t
        BY <3>1, <3>4, <4>1, StepFacts DEF OpenInv
      <4>3. Rivals(t)' = {}
        BY <3>1, <3>2, <3>4, <4>1 DEF OverlapInv, Rivals
      <4> QED
        BY <3>1, <4>2, <4>3
    <3>5. CASE WriterSlot(u) # SlotOf(t)
      <4>1. commit[SlotOf(t)] = EvenCommit(t)
        BY <2>0, <3>1, <3>3, <3>5
      <4> QED
        BY <2>0, <3>1, <3>2, <4>1 DEF ClosedInv, Rivals
    <3> QED
      BY <3>4, <3>5
  <2>5. CASE UNCHANGED writerVars
    BY <2>5 DEF ClosedInv, writerVars, Rivals, InCall, WriterSlot
  <2> QED
    BY <2>1, <2>2, <2>3, <2>4, <2>5, RingSteps
<1> QED
  BY <1>1, <1>2, Typing, WriterTheorem, OverlapTheorem, CommitTheorem, OpenTheorem, PTL
     DEF Spec

-----------------------------------------------------------------------------
(***************************************************************************)
(* What a reader has loaded, and what it reports.                          *)
(***************************************************************************)

\* The order of the loads of read_breadcrumb.
LEMMA ReadFacts == /\ \A i \in Steps : ~LoadedBefore(Close, i)
                   /\ \A c \in Cells : LoadedBefore(Open, c)
                   /\ LoadedBefore(Open, Close)
                   /\ ProgramOrder => \A c \in Cells : LoadedBefore(c, Close)
  BY DEF Open, Close, Steps, Cells, LoadedBefore

\* What read_breadcrumb has loaded so far are fields of the call it looks for, unless
\* the slot has been closed since and its second load of the commit word will tell.
THEOREM ReaderTheorem ==
    ASSUME ProgramOrder
    PROVE  Spec => []ReaderInv
<1>1. Init => ReaderInv
  BY DEF Init, ReaderInv
<1>2. TypeOK /\ WriterInv /\ CommitInv /\ ClosedInv /\ ReaderInv /\ [Next]_vars
        => ReaderInv'
  <2> SUFFICES ASSUME TypeOK, WriterInv, CommitInv, ClosedInv, ReaderInv, [Next]_vars
               PROVE  ReaderInv'
    OBVIOUS
  <2>0. /\ breadcrumb_ticket \in Nat
        /\ wticket \in [Writers -> Nat]
        /\ commit \in [Slots -> Nat]
        /\ cell \in [Slots -> [Cells -> Nat]]
        /\ newest \in [Readers -> Nat]
        /\ cursor \in [Readers -> Nat]
        /\ rtodo \in [Readers -> SUBSET Steps]
        /\ seen \in [Readers -> [Cells -> Nat]]
    BY DEF TypeOK
  \* A writer step never brings a finished ticket's commit word back.
  <2>1. ASSUME NEW w \in Writers, WriterStep(w) PROVE ReaderInv'
    <3>1. /\ UNCHANGED readerVars
          /\ overlapped \subseteq overlapped'
          /\ breadcrumb_ticket' \in Nat
          /\ breadcrumb_ticket <= breadcrumb_ticket'
      BY <2>0, <2>1 DEF WriterStep, Claim, OpenSlot, StoreCell, CloseSlot
    <3>2. \A v \in Writers : \A t \in 1 .. breadcrumb_ticket :
              wticket'[v] = t => wticket[v] = t
      BY <2>0, <2>1 DEF WriterStep, Claim, OpenSlot, StoreCell, CloseSlot
    <3>3. ASSUME NEW t \in 1 .. breadcrumb_ticket, \A v \in Writers : wticket[v] # t,
                 commit'[SlotOf(t)] = EvenCommit(t)
          PROVE  commit[SlotOf(t)] = EvenCommit(t)
      <4>1. t \in Nat /\ SlotOf(t) \in Slots
        BY <2>0, SlotInRange
      <4>2. CASE OpenSlot(w)
        BY <2>0, <3>3, <4>1, <4>2, CommitWords DEF OpenSlot
      <4>3. CASE CloseSlot(w)
        BY <2>0, <3>3, <4>1, <4>3, CommitWords DEF CloseSlot
      <4> QED
        BY <2>1, <3>3, <4>2, <4>3 DEF WriterStep, Claim, StoreCell
    <3> SUFFICES ASSUME NEW r \in Readers, cursor[r] # 0, ReadOK(r)
                 PROVE  ReadOK(r)'
      BY <3>1 DEF ReaderInv, readerVars
    <3>4. cursor[r] \in 1 .. breadcrumb_ticket
      BY <2>0 DEF ReadOK
    <3>5. (Open \notin rtodo[r] => \A v \in Writers : wticket[v] # cursor[r])'
      BY <3>1, <3>2, <3>4 DEF ReadOK, readerVars
    <3>6. Open \notin rtodo[r] /\ (SlotCommit(r) = Expected(r))'
             => SlotCommit(r) = Expected(r)
      BY <3>1, <3>3, <3>4 DEF ReadOK, readerVars, SlotCommit, Expected
    <3> QED
      BY <2>0, <3>1, <3>5, <3>6 DEF ReadOK, readerVars
  \* Reader r's own steps: the other readers and the ring stay as they are.
  <2>2. ASSUME NEW r \in Readers, UNCHANGED writerVars,
               \A x \in Readers \ {r} : /\ cursor'[x] = cursor[x]
                                        /\ newest'[x] = newest[x]
                                        /\ rtodo'[x] = rtodo[x]
                                        /\ seen'[x] = seen[x],
               cursor'[r] # 0 => ReadOK(r)'
        PROVE  ReaderInv'
    BY <2>2 DEF ReaderInv, ReadOK, writerVars, SlotCommit, Expected
  \* At the start of a ticket nothing has been loaded.
  <2>3. ASSUME NEW r \in Readers, UNCHANGED writerVars, rtodo'[r] = Steps,
               cursor'[r] <= newest'[r], newest'[r] <= breadcrumb_ticket
        PROVE  ReadOK(r)'
    BY <2>3, StepFacts DEF ReadOK, writerVars
  <2>4. ASSUME NEW r \in Readers, BeginSnapshot(r) PROVE ReaderInv'
    <3>1. /\ UNCHANGED writerVars
          /\ newest' = [newest EXCEPT ![r] = breadcrumb_ticket]
          /\ cursor' = [cursor EXCEPT ![r] =
                           IF breadcrumb_ticket = 0 THEN 0 ELSE Oldest(breadcrumb_ticket)]
          /\ rtodo' = [rtodo EXCEPT ![r] = Steps]
          /\ seen' = seen
      BY <2>4 DEF BeginSnapshot
    <3>2. breadcrumb_ticket # 0 => Oldest(breadcrumb_ticket) <= breadcrumb_ticket
      BY <2>0 DEF Oldest
    <3>3. cursor'[r] <= newest'[r] /\ newest'[r] <= breadcrumb_ticket /\ rtodo'[r] = Steps
      BY <2>0, <3>1, <3>2
    <3> QED
      BY <2>0, <2>2, <2>3, <3>1, <3>3
  <2>5. ASSUME NEW r \in Readers, cursor[r] # 0, NextTicket(r), newest' = newest,
               seen' = seen, UNCHANGED writerVars
        PROVE  ReaderInv'
    <3>1. /\ cursor' = [cursor EXCEPT ![r] =
                           IF cursor[r] = newest[r] THEN 0 ELSE cursor[r] + 1]
          /\ rtodo' = [rtodo EXCEPT ![r] = Steps]
      BY <2>5 DEF NextTicket
    <3>2. cursor[r] <= newest[r] /\ newest[r] <= breadcrumb_ticket
      BY <2>5 DEF ReaderInv, ReadOK
    <3>a. cursor[r] # newest[r] => cursor[r] + 1 <= newest[r]
      <4>1. cursor[r] \in Nat /\ newest[r] \in Nat
        BY <2>0, <2>5
      <4> QED
        BY <4>1, <3>2
    <3>b. /\ cursor'[r] = IF cursor[r] = newest[r] THEN 0 ELSE cursor[r] + 1
          /\ newest'[r] = newest[r]
          /\ rtodo'[r] = Steps
      BY <2>0, <2>5, <3>1
    <3>3. cursor'[r] <= newest'[r] /\ newest'[r] <= breadcrumb_ticket /\ rtodo'[r] = Steps
      BY <2>0, <3>2, <3>a, <3>b
    <3>4. ReadOK(r)'
      BY <2>3, <2>5, <3>3
    <3>5. \A x \in Readers \ {r} : cursor'[x] = cursor[x] /\ rtodo'[x] = rtodo[x]
      BY <2>0, <3>1
    <3> QED
      BY <2>2, <2>5, <3>4, <3>5
  <2>6. ASSUME NEW r \in Readers, NEW i \in {Open, Close}, LoadCommit(r, i)
        PROVE  ReaderInv'
    <3>1. CASE SkipTicket(r)
      BY <2>5, <2>6, <3>1 DEF LoadCommit, SkipTicket
    <3>2. CASE /\ SlotCommit(r) = Expected(r)
               /\ rtodo' = [rtodo EXCEPT ![r] = @ \ {i}]
               /\ UNCHANGED <<cursor, seen, breadcrumbs>>
      <4>1. /\ UNCHANGED writerVars /\ newest' = newest /\ cursor[r] # 0
            /\ ReadOK(r) /\ MayLoad(r, i)
        BY <2>6 DEF LoadCommit, ReaderInv
      <4>2. rtodo'[r] = rtodo[r] \ {i} /\ rtodo[r] \subseteq Steps
        BY <2>0, <3>2
      <4>3. \A j \in rtodo'[r] : \A k \in Steps : LoadedBefore(j, k) => k \in rtodo'[r]
        BY <4>1, <4>2 DEF ReadOK, MayLoad
      <4>4. cursor[r] \in 1 .. breadcrumb_ticket
        BY <2>0, <4>1 DEF ReadOK
      <4>5. \A w \in Writers : wticket[w] # cursor[r]
        BY <2>0, <3>2, <4>4
           DEF CommitInv, SlotCommit, Expected, InCall, WriterSlot
      <4>6. CASE i = Open
        <5>1. \A j \in Steps : j # Open => j \in rtodo'[r]
          BY <4>1, <4>2, <4>6, StepFacts, ReadFacts DEF ReadOK, MayLoad
        <5>2. ReadOK(r)'
          BY <3>2, <4>1, <4>3, <4>5, <5>1, StepFacts DEF ReadOK, writerVars
        <5> QED
          BY <2>0, <2>2, <3>2, <4>1, <5>2
      <4>7. CASE i = Close
        <5>1. \A j \in rtodo[r] : j = Close
          BY <4>1, <4>2, <4>7, StepFacts, ReadFacts DEF MayLoad
        <5>2. cursor[r] \notin overlapped => \A c \in Cells : seen[r][c] = cursor[r]
          BY <3>2, <4>1, <5>1, StepFacts DEF ReadOK
        <5>3. seen[r][1] = cursor[r]
          BY <4>1, <5>1, StepFacts DEF ReadOK
        <5>4. ReadOK(r)'
          BY <3>2, <4>1, <4>3, <4>5, <5>2, <5>3 DEF ReadOK, writerVars
        <5> QED
          BY <2>0, <2>2, <3>2, <4>1, <5>4
      <4> QED
        BY <4>6, <4>7
    <3> QED
      BY <2>6, <3>1, <3>2 DEF LoadCommit
  <2>7. ASSUME NEW r \in Readers, NEW c \in Cells, LoadCell(r, c) PROVE ReaderInv'
    <3> DEFINE value == cell[SlotOf(cursor[r])][c]
    <3>1. CASE SkipTicket(r)
      BY <2>5, <2>7, <3>1 DEF LoadCell, SkipTicket
    <3>2. CASE /\ c = 1 => value = cursor[r]
               /\ seen' = [seen EXCEPT ![r][c] = value]
               /\ rtodo' = [rtodo EXCEPT ![r] = @ \ {c}]
               /\ UNCHANGED <<cursor, breadcrumbs>>
      <4>1. /\ UNCHANGED writerVars /\ newest' = newest /\ cursor[r] # 0
            /\ ReadOK(r) /\ MayLoad(r, c)
        BY <2>7 DEF LoadCell, ReaderInv
      <4>2. rtodo'[r] = rtodo[r] \ {c} /\ rtodo[r] \subseteq Steps
        BY <2>0, <3>2
      <4>3. \A j \in rtodo'[r] : \A k \in Steps : LoadedBefore(j, k) => k \in rtodo'[r]
        BY <4>1, <4>2 DEF ReadOK, MayLoad
      <4>4. Open \notin rtodo[r] /\ Close \in rtodo[r]
        BY <4>1, <4>2, StepFacts, ReadFacts DEF ReadOK, MayLoad
      <4>5. cursor[r] \in 1 .. breadcrumb_ticket
        BY <2>0, <4>1 DEF ReadOK
      <4>6. cursor[r] \notin overlapped /\ SlotCommit(r) = Expected(r)
               => value = cursor[r]
        BY <4>5 DEF ClosedInv, SlotCommit, Expected
      <4>7. seen'[r][c] = value /\ \A d \in Cells \ {c} : seen'[r][d] = seen[r][d]
        BY <2>0, <3>2
      <4>8. ReadOK(r)'
        <5>1. (1 \notin rtodo[r] => seen[r][1] = cursor[r])'
          BY <3>2, <4>1, <4>2, <4>7, StepFacts DEF ReadOK
        <5>2. (Open \notin rtodo[r] /\ SlotCommit(r) = Expected(r))'
                 => Open \notin rtodo[r] /\ SlotCommit(r) = Expected(r)
          BY <3>2, <4>1, <4>4 DEF SlotCommit, Expected, writerVars
        <5>3. cursor[r] \notin overlapped /\ Open \notin rtodo[r]
                 /\ SlotCommit(r) = Expected(r)
              => \A d \in Cells \ rtodo'[r] : seen'[r][d] = cursor[r]
          BY <4>1, <4>2, <4>6, <4>7 DEF ReadOK
        <5>4. Close \in rtodo'[r]
          BY <4>2, <4>4, StepFacts
        <5> QED
          BY <3>2, <4>1, <4>3, <4>4, <5>1, <5>2, <5>3, <5>4 DEF ReadOK, writerVars
      <4> QED
        BY <2>0, <2>2, <3>2, <4>1, <4>8
    <3> QED
      BY <2>7, <3>1, <3>2 DEF LoadCell
  <2>8. ASSUME NEW r \in Readers, PushBack(r) PROVE ReaderInv'
    BY <2>5, <2>8 DEF PushBack
  <2>9. CASE UNCHANGED vars
    BY <2>9 DEF vars, ReaderInv, ReadOK, SlotCommit, Expected
  <2> QED
    BY <2>1, <2>4, <2>6, <2>7, <2>8, <2>9 DEF Next, ReadStep
<1> QED
  BY <1>1, <1>2, Typing, WriterTheorem, CommitTheorem, ClosedTheorem, PTL DEF Spec

\* In program order a reported breadcrumb carries the fields of one call unless
\* its call shared its slot with another call.
THEOREM IntactTheorem ==
    ASSUME ProgramOrder
    PROVE  Spec => []IntactUnlessOverlapped
<1>1. Init => IntactUnlessOverlapped
  BY DEF Init, IntactUnlessOverlapped, Reported
<1>2. TypeOK /\ ReaderInv /\ IntactUnlessOverlapped /\ [Next]_vars
        => IntactUnlessOverlapped'
  <2> SUFFICES ASSUME TypeOK, ReaderInv, IntactUnlessOverlapped, [Next]_vars
               PROVE  IntactUnlessOverlapped'
    OBVIOUS
  <2>1. CASE breadcrumbs' = breadcrumbs /\ overlapped \subseteq overlapped'
    BY <2>1 DEF IntactUnlessOverlapped, Reported, Intact
  <2>2. ASSUME NEW r \in Readers, BeginSnapshot(r) PROVE IntactUnlessOverlapped'
    <3>1. /\ breadcrumbs'[r] = <<>>
          /\ \A x \in Readers \ {r} : breadcrumbs'[x] = breadcrumbs[x]
          /\ overlapped' = overlapped
      BY <2>2 DEF BeginSnapshot, writerVars, TypeOK
    <3>2. /\ Reported(r)' = {}
          /\ \A x \in Readers \ {r} : Reported(x)' = Reported(x)
      BY <3>1 DEF Reported
    <3> QED
      BY <3>1, <3>2 DEF IntactUnlessOverlapped, Intact
  <2>3. ASSUME NEW r \in Readers, PushBack(r) PROVE IntactUnlessOverlapped'
    <3>1. /\ breadcrumbs' = [breadcrumbs EXCEPT ![r] = Append(@, seen[r])]
          /\ overlapped' = overlapped
          /\ ReadOK(r)
          /\ rtodo[r] = {}
      BY <2>3 DEF PushBack, writerVars, ReaderInv
    <3>2. seen[r][1] \notin overlapped => Intact(seen[r])
      BY <3>1, StepFacts DEF ReadOK, Intact
    <3>3. breadcrumbs[r] \in Seq([Cells -> Nat]) /\ seen[r] \in [Cells -> Nat]
      BY DEF TypeOK
    <3>4. Reported(r)' = Reported(r) \cup {seen[r]}
      <4>1. breadcrumbs'[r] = Append(breadcrumbs[r], seen[r])
        BY <3>1 DEF TypeOK
      <4> QED
        BY <3>3, <4>1 DEF Reported
    <3>5. \A x \in Readers \ {r} : Reported(x)' = Reported(x)
      BY <3>1 DEF Reported, TypeOK
    <3> QED
      BY <3>1, <3>2, <3>4, <3>5 DEF IntactUnlessOverlapped, Intact
  <2>4. ASSUME NEW w \in Writers, WriterStep(w)
        PROVE  breadcrumbs' = breadcrumbs /\ overlapped \subseteq overlapped'
    BY <2>4 DEF WriterStep, Claim, OpenSlot, StoreCell, CloseSlot, readerVars
  <2>5. ASSUME NEW r \in Readers, ReadStep(r), ~PushBack(r)
        PROVE  breadcrumbs' = breadcrumbs /\ overlapped \subseteq overlapped'
    BY <2>5 DEF ReadStep, LoadCommit, LoadCell, SkipTicket, writerVars
  <2> QED
    BY <2>1, <2>2, <2>3, <2>4, <2>5 DEF Next, vars
<1> QED
  BY <1>1, <1>2, Typing, ReaderTheorem, PTL DEF Spec

-----------------------------------------------------------------------------
(***************************************************************************)
(* The ring retains the newest entries, for either ordering of accesses: a *)
(* ticket's slot is left alone until its number is handed out again.       *)
(***************************************************************************)

\* Division with remainder.
LEMMA DivMod ==
    ASSUME NEW a \in Nat, NEW c \in Nat \ {0}
    PROVE  /\ a \div c \in Nat
           /\ a % c \in Nat
           /\ a = c * (a \div c) + (a % c)
  OBVIOUS

\* Multiples are as far apart as their factors say.
LEMMA Multiples ==
    ASSUME NEW c \in Nat, NEW p \in Nat, NEW q \in Nat
    PROVE  /\ c * p \in Nat
           /\ p < q => c * p + c <= c * q
           /\ q <= p => c * q <= c * p
<1>1. c * p \in Nat
  OBVIOUS
<1>2. ASSUME p < q PROVE c * p + c <= c * q
  <2>1. q - p - 1 \in Nat
    BY <1>2
  <2>2. PICK d \in Nat : q = p + 1 + d
    BY <2>1
  <2>3. c * q = c * p + c + c * d
    BY <2>2
  <2>4. c * d \in Nat
    OBVIOUS
  <2> QED
    BY <1>1, <2>3, <2>4
<1>3. ASSUME q <= p PROVE c * q <= c * p
  <2>1. p - q \in Nat
    BY <1>3
  <2>2. PICK d \in Nat : p = q + d
    BY <2>1
  <2>3. c * p = c * q + c * d
    BY <2>2
  <2>4. c * d \in Nat /\ c * q \in Nat
    OBVIOUS
  <2> QED
    BY <2>3, <2>4
<1> QED
  BY <1>1, <1>2, <1>3

\* Two tickets of one slot are at least Capacity apart.
LEMMA SlotsApart ==
    ASSUME NEW s \in Nat \ {0}, NEW t \in Nat \ {0}, s < t, SlotOf(s) = SlotOf(t)
    PROVE  s + Capacity <= t
<1> DEFINE p == (s - 1) \div Capacity
           q == (t - 1) \div Capacity
           rest == (s - 1) % Capacity
<1>1. s - 1 \in Nat /\ t - 1 \in Nat /\ rest = (t - 1) % Capacity
  BY DEF SlotOf
<1>2. /\ p \in Nat /\ q \in Nat /\ rest \in Nat
      /\ s - 1 = Capacity * p + rest
      /\ t - 1 = Capacity * q + rest
  BY <1>1, DivMod
<1> HIDE DEF p, q, rest
<1>3. Capacity * p \in Nat /\ Capacity * q \in Nat
  BY <1>2, Multiples
<1>4. p < q
  <2>1. CASE q <= p
    <3>1. Capacity * q <= Capacity * p
      BY <1>2, <2>1, Multiples
    <3> QED
      BY <1>2, <1>3, <3>1
  <2> QED
    BY <1>2, <2>1
<1>5. Capacity * p + Capacity <= Capacity * q
  BY <1>2, <1>4, Multiples
<1> QED
  BY <1>2, <1>3, <1>5

\* What a call that shares its slot with nobody has stored is still there.
StoredInv ==
    \A w \in Writers :
        InCall(w) /\ wticket[w] \notin overlapped =>
            \A c \in Cells \ wtodo[w] : cell[WriterSlot(w)][c] = wticket[w]

\* A ticket of a slot in which an older call is still in progress is on record.
LaterInv ==
    \A w \in Writers : InCall(w) =>
        \A t \in 1 .. breadcrumb_ticket :
            wticket[w] < t /\ SlotOf(t) = WriterSlot(w) => t \in overlapped

\* The slot of a ticket that is written, was alone and is not handed out again shows
\* the ticket, in its commit word as in the slot.
KeptInv ==
    \A t \in Written \ overlapped :
        t + Capacity > breadcrumb_ticket =>
            /\ commit[SlotOf(t)] = EvenCommit(t)
            /\ cell[SlotOf(t)][1] = t

\* What client::breadcrumb has stored in a slot it shares with nobody is not changed
\* by another call, in whatever order the accesses take effect.
LEMMA StoredTheorem == Spec => []StoredInv
<1>1. Init => StoredInv
  BY DEF Init, StoredInv, InCall
<1>2. TypeOK /\ WriterInv /\ OverlapInv /\ StoredInv /\ [Next]_vars => StoredInv'
  <2> SUFFICES ASSUME TypeOK, WriterInv, OverlapInv, StoredInv, [Next]_vars,
                      NEW w \in Writers, InCall(w)', wticket'[w] \notin overlapped',
                      NEW c \in Cells \ wtodo'[w]
               PROVE  (cell[WriterSlot(w)][c] = wticket[w])'
    BY DEF StoredInv
  <2>0. /\ wticket \in [Writers -> Nat]
        /\ wtodo \in [Writers -> SUBSET Steps]
        /\ cell \in [Slots -> [Cells -> Nat]]
    BY DEF TypeOK
  <2>1. ASSUME NEW u \in Writers, Claim(u) PROVE (cell[WriterSlot(w)][c] = wticket[w])'
    <3>1. /\ u # w /\ wticket'[w] = wticket[w] /\ wtodo'[w] = wtodo[w]
          /\ overlapped \subseteq overlapped' /\ cell' = cell
      BY <2>0, <2>1, StepFacts DEF Claim
    <3> QED
      BY <3>1 DEF StoredInv, InCall, WriterSlot
  <2>2. ASSUME NEW u \in Writers, OpenSlot(u) PROVE (cell[WriterSlot(w)][c] = wticket[w])'
    <3>1. UNCHANGED <<wticket, overlapped, cell>> /\ wtodo' = [wtodo EXCEPT ![u] = @ \ {Open}]
      BY <2>2 DEF OpenSlot
    <3>2. c \notin wtodo[w]
      BY <2>0, <3>1, StepFacts
    <3> QED
      BY <3>1, <3>2 DEF StoredInv, InCall, WriterSlot
  <2>3. ASSUME NEW u \in Writers, NEW d \in Cells, StoreCell(u, d)
        PROVE  (cell[WriterSlot(w)][c] = wticket[w])'
    <3>1. /\ InCall(u) /\ InCall(w) /\ wticket[w] \notin overlapped
          /\ UNCHANGED <<wticket, overlapped>>
          /\ cell' = [cell EXCEPT ![WriterSlot(u)][d] = wticket[u]]
          /\ wtodo' = [wtodo EXCEPT ![u] = @ \ {d}]
      BY <2>3 DEF StoreCell, MayStore, WriterInv, InCall
    <3>2. CASE u = w
      <4>1. c = d \/ c \notin wtodo[w]
        BY <2>0, <3>1, <3>2
      <4>2. /\ cell'[WriterSlot(w)][d] = wticket[w]
            /\ c # d => cell'[WriterSlot(w)][c] = cell[WriterSlot(w)][c]
        BY <2>0, <3>1, <3>2, SlotOfWriter
      <4> QED
        BY <3>1, <4>1, <4>2 DEF StoredInv, WriterSlot
    <3>3. CASE u # w
      <4>1. WriterSlot(u) # WriterSlot(w)
        BY <3>1, <3>3 DEF OverlapInv
      <4>2. wtodo'[w] = wtodo[w] /\ cell'[WriterSlot(w)] = cell[WriterSlot(w)]
        BY <2>0, <3>1, <3>3, <4>1, SlotOfWriter
      <4> QED
        BY <3>1, <4>2 DEF StoredInv, WriterSlot
    <3> QED
      BY <3>2, <3>3
  <2>4. ASSUME NEW u \in Writers, CloseSlot(u) PROVE (cell[WriterSlot(w)][c] = wticket[w])'
    <3>1. /\ u # w /\ wticket'[w] = wticket[w] /\ wtodo'[w] = wtodo[w]
          /\ UNCHANGED <<overlapped, cell>>
      BY <2>0, <2>4 DEF CloseSlot, InCall
    <3> QED
      BY <3>1 DEF StoredInv, InCall, WriterSlot
  <2>5. CASE UNCHANGED writerVars
    BY <2>5 DEF StoredInv, InCall, WriterSlot, writerVars
  <2> QED
    BY <2>1, <2>2, <2>3, <2>4, <2>5, RingSteps
<1> QED
  BY <1>1, <1>2, Typing, WriterTheorem, OverlapTheorem, PTL DEF Spec

\* A call of client::breadcrumb that begins in the slot of one still in progress is on
\* record, whichever of them ends first.
LEMMA LaterTheorem == Spec => []LaterInv
<1>1. Init => LaterInv
  BY DEF Init, LaterInv, InCall
<1>2. TypeOK /\ WriterInv /\ LaterInv /\ [Next]_vars => LaterInv'
  <2> SUFFICES ASSUME TypeOK, WriterInv, LaterInv, [Next]_vars,
                      NEW w \in Writers, InCall(w)', NEW t \in 1 .. breadcrumb_ticket',
                      wticket'[w] < t, SlotOf(t) = WriterSlot(w)'
               PROVE  t \in overlapped'
    BY DEF LaterInv
  <2>0. breadcrumb_ticket \in Nat /\ wticket \in [Writers -> Nat]
    BY DEF TypeOK
  <2>1. ASSUME NEW u \in Writers, Claim(u) PROVE t \in overlapped'
    <3>1. /\ breadcrumb_ticket' = breadcrumb_ticket + 1
          /\ wticket' = [wticket EXCEPT ![u] = breadcrumb_ticket + 1]
          /\ overlapped \subseteq overlapped'
          /\ Rivals(breadcrumb_ticket + 1) # {} => breadcrumb_ticket + 1 \in overlapped'
      BY <2>1 DEF Claim
    <3>2. w # u
      BY <2>0, <3>1
    <3>3. InCall(w) /\ wticket'[w] = wticket[w]
      BY <2>0, <3>1, <3>2 DEF InCall
    <3>4. CASE t = breadcrumb_ticket + 1
      <4>1. w \in Rivals(t)
        BY <3>3 DEF Rivals, WriterSlot
      <4> QED
        BY <3>1, <3>4, <4>1
    <3>5. CASE t \in 1 .. breadcrumb_ticket
      BY <3>1, <3>3, <3>5 DEF LaterInv, WriterSlot
    <3> QED
      BY <2>0, <3>1, <3>4, <3>5
  <2>2. CASE UNCHANGED <<breadcrumb_ticket, wticket, overlapped>>
    BY <2>2 DEF LaterInv, InCall, WriterSlot
  <2>3. ASSUME NEW u \in Writers, CloseSlot(u) PROVE t \in overlapped'
    <3>1. /\ w # u /\ wticket'[w] = wticket[w]
          /\ UNCHANGED <<breadcrumb_ticket, overlapped>>
      BY <2>0, <2>3 DEF CloseSlot, InCall
    <3> QED
      BY <3>1 DEF LaterInv, InCall, WriterSlot
  <2> QED
    BY <2>1, <2>2, <2>3, RingSteps DEF OpenSlot, StoreCell, writerVars
<1> QED
  BY <1>1, <1>2, Typing, WriterTheorem, PTL DEF Spec

\* A ticket that is written stays so, and becomes so when its call closes the slot.
LEMMA WrittenStep ==
    ASSUME TypeOK, WriterInv, [Next]_vars
    PROVE  /\ Written \subseteq Written'
           /\ \A t \in Written' \ Written :
                 \E u \in Writers : CloseSlot(u) /\ wticket[u] = t
<1> USE DEF TypeOK
<1>1. ASSUME NEW u \in Writers, Claim(u) PROVE Written' = Written
  <2>1. /\ breadcrumb_ticket' = breadcrumb_ticket + 1
        /\ wticket' = [wticket EXCEPT ![u] = breadcrumb_ticket + 1]
        /\ ~InCall(u)
    BY <1>1 DEF Claim
  <2>2. \A t \in 1 .. breadcrumb_ticket :
            \A w \in Writers : wticket'[w] = t <=> wticket[w] = t
    BY <2>1 DEF InCall
  <2>3. wticket'[u] = breadcrumb_ticket'
    BY <2>1
  <2>4. 1 .. breadcrumb_ticket' = (1 .. breadcrumb_ticket) \cup {breadcrumb_ticket'}
    BY <2>1
  <2> QED
    BY <2>2, <2>3, <2>4 DEF Written
<1>2. ASSUME NEW u \in Writers, CloseSlot(u)
      PROVE  /\ Written \subseteq Written'
             /\ \A t \in Written' \ Written : wticket[u] = t
  <2>1. breadcrumb_ticket' = breadcrumb_ticket /\ wticket' = [wticket EXCEPT ![u] = 0]
    BY <1>2 DEF CloseSlot
  <2>2. \A t \in 1 .. breadcrumb_ticket : \A w \in Writers :
            /\ wticket'[w] = t => wticket[w] = t
            /\ wticket[w] = t /\ w # u => wticket'[w] = t
    BY <2>1
  <2> QED
    BY <2>1, <2>2 DEF Written
<1>3. CASE UNCHANGED <<breadcrumb_ticket, wticket>>
  BY <1>3 DEF Written
<1> QED
  BY <1>1, <1>2, <1>3, RingSteps DEF OpenSlot, StoreCell, writerVars

\* The newest Capacity tickets keep their slots: what is written and was alone in its
\* slot stays readable until the number of its slot is handed out again.
LEMMA KeptTheorem == Spec => []KeptInv
<1>1. Init => KeptInv
  BY DEF Init, KeptInv, Written
<1>2. TypeOK /\ WriterInv /\ StoredInv /\ LaterInv /\ KeptInv /\ [Next]_vars => KeptInv'
  <2> SUFFICES ASSUME TypeOK, WriterInv, StoredInv, LaterInv, KeptInv, [Next]_vars,
                      NEW t \in Written' \ overlapped', t + Capacity > breadcrumb_ticket'
               PROVE  /\ commit'[SlotOf(t)] = EvenCommit(t)
                      /\ cell'[SlotOf(t)][1] = t
    BY DEF KeptInv
  <2> DEFINE goal == commit'[SlotOf(t)] = EvenCommit(t) /\ cell'[SlotOf(t)][1] = t
  <2>0. /\ breadcrumb_ticket \in Nat
        /\ wticket \in [Writers -> Nat]
        /\ wtodo \in [Writers -> SUBSET Steps]
        /\ commit \in [Slots -> Nat]
        /\ cell \in [Slots -> [Cells -> Nat]]
    BY DEF TypeOK
  <2>a. /\ breadcrumb_ticket' \in Nat
        /\ breadcrumb_ticket <= breadcrumb_ticket'
        /\ overlapped \subseteq overlapped'
        /\ t \in Nat \ {0} /\ SlotOf(t) \in Slots
    <3>1. breadcrumb_ticket' \in {breadcrumb_ticket, breadcrumb_ticket + 1}
      BY RingSteps DEF Claim, OpenSlot, StoreCell, CloseSlot, writerVars
    <3>2. breadcrumb_ticket' \in Nat /\ breadcrumb_ticket <= breadcrumb_ticket'
      BY <2>0, <3>1
    <3>3. t \in Nat \ {0}
      BY <3>2 DEF Written
    <3>4. overlapped \subseteq overlapped'
      BY RingSteps DEF Claim, OpenSlot, StoreCell, CloseSlot, writerVars
    <3> QED
      BY <3>2, <3>3, <3>4, SlotInRange
  \* A call that is at its stores in the slot has an older ticket: t is on record.
  <2>b. ASSUME t \in Written, NEW u \in Writers, InCall(u) PROVE WriterSlot(u) # SlotOf(t)
    <3> SUFFICES ASSUME WriterSlot(u) = SlotOf(t) PROVE FALSE
      OBVIOUS
    <3>1. /\ t \in 1 .. breadcrumb_ticket /\ wticket[u] # t
          /\ wticket[u] \in Nat \ {0} /\ wticket[u] <= breadcrumb_ticket
      BY <2>0, <2>b DEF Written, WriterInv, InCall
    <3>2. ~(t < wticket[u])
      <4>1. SUFFICES ASSUME t < wticket[u] PROVE FALSE
        OBVIOUS
      <4>2. t + Capacity <= wticket[u]
        BY <2>a, <3>1, <4>1, SlotsApart DEF WriterSlot
      <4> QED
        BY <2>0, <2>a, <3>1, <4>2
    <3>3. wticket[u] < t
      BY <2>a, <3>1, <3>2
    <3> QED
      BY <2>a, <2>b, <3>1, <3>3 DEF LaterInv
  <2>1. CASE t \notin Written
    <3>1. PICK u \in Writers : CloseSlot(u) /\ wticket[u] = t
      BY <2>1, WrittenStep
    <3>2. /\ commit' = [commit EXCEPT ![SlotOf(t)] = EvenCommit(t)]
          /\ cell' = cell /\ InCall(u) /\ WriterSlot(u) = SlotOf(t)
          /\ 1 \notin wtodo[u]
      BY <2>a, <3>1, StepFacts DEF CloseSlot, MayStore, StoredBefore, WriterSlot, InCall
    <3>3. cell[SlotOf(t)][1] = t
      BY <2>a, <3>1, <3>2, StepFacts DEF StoredInv
    <3> QED
      BY <2>0, <2>a, <3>2, <3>3
  <2>2. CASE t \in Written
    <3>1. commit[SlotOf(t)] = EvenCommit(t) /\ cell[SlotOf(t)][1] = t
      BY <2>0, <2>a, <2>2 DEF KeptInv
    <3>2. ASSUME NEW u \in Writers, OpenSlot(u) PROVE goal
      <4>1. /\ InCall(u) /\ cell' = cell
            /\ commit' = [commit EXCEPT ![WriterSlot(u)] = OddCommit(wticket[u])]
        BY <3>2 DEF OpenSlot, MayStore, WriterInv
      <4> QED
        BY <2>0, <2>2, <2>a, <2>b, <3>1, <4>1
    <3>3. ASSUME NEW u \in Writers, NEW c \in Cells, StoreCell(u, c) PROVE goal
      <4>1. /\ InCall(u) /\ commit' = commit
            /\ cell' = [cell EXCEPT ![WriterSlot(u)][c] = wticket[u]]
        BY <3>3 DEF StoreCell, MayStore, WriterInv
      <4>2. cell'[SlotOf(t)] = cell[SlotOf(t)]
        BY <2>0, <2>2, <2>a, <2>b, <4>1
      <4> QED
        BY <3>1, <4>1, <4>2
    <3>4. ASSUME NEW u \in Writers, CloseSlot(u) PROVE goal
      <4>1. /\ InCall(u) /\ cell' = cell
            /\ commit' = [commit EXCEPT ![WriterSlot(u)] = EvenCommit(wticket[u])]
        BY <3>4 DEF CloseSlot, MayStore, WriterInv
      <4> QED
        BY <2>0, <2>2, <2>a, <2>b, <3>1, <4>1
    <3>5. ASSUME UNCHANGED <<commit, cell>> PROVE goal
      BY <3>1, <3>5
    <3> QED
      BY <3>2, <3>3, <3>4, <3>5, RingSteps DEF Claim, writerVars
  <2> QED
    BY <2>1, <2>2
<1> QED
  BY <1>1, <1>2, Typing, WriterTheorem, StoredTheorem, LaterTheorem, PTL DEF Spec

\* Where a snapshot is, and that a loaded ticket is the one it looks for.
CursorInv ==
    \A r \in Readers :
        /\ settled[r] \subseteq Written
        /\ \A b \in Reported(r) : b[1] \in Written
        /\ cursor[r] # 0 =>
              /\ cursor[r] <= newest[r]
              /\ newest[r] <= breadcrumb_ticket
              /\ Open \notin rtodo[r] => cursor[r] \in Written
              /\ 1 \notin rtodo[r] => seen[r][1] = cursor[r]

\* A breadcrumb that was there when the snapshot began, and still is, has been
\* reported or is yet to come.
PendingInv ==
    \A r \in Readers : \A t \in settled[r] \ overlapped :
        t + Capacity > breadcrumb_ticket =>
            \/ \E b \in Reported(r) : b[1] = t
            \/ cursor[r] # 0 /\ cursor[r] <= t /\ t <= newest[r]

\* The steps of a snapshot, by what they make of the ticket that is looked for.
LEMMA SnapshotSteps ==
    ASSUME [Next]_vars
    PROVE  \/ UNCHANGED readerVars
           \/ \E r \in Readers :
                 /\ UNCHANGED writerVars
                 /\ \/ BeginSnapshot(r)
                    \/ /\ cursor[r] # 0
                       /\ UNCHANGED <<newest, settled>>
                       /\ \/ SkipTicket(r)
                          \/ PushBack(r)
                          \/ /\ UNCHANGED <<cursor, breadcrumbs, seen>>
                             /\ SlotCommit(r) = Expected(r)
                             /\ \E i \in {Open, Close} : rtodo' = [rtodo EXCEPT ![r] = @ \ {i}]
                          \/ \E c \in Cells :
                                LET value == cell[SlotOf(cursor[r])][c]
                                IN  /\ UNCHANGED <<cursor, breadcrumbs>>
                                    /\ c = 1 => value = cursor[r]
                                    /\ seen' = [seen EXCEPT ![r][c] = value]
                                    /\ rtodo' = [rtodo EXCEPT ![r] = @ \ {c}]
<1>1. ASSUME NEW w \in Writers, WriterStep(w) PROVE UNCHANGED readerVars
  BY <1>1 DEF WriterStep, Claim, OpenSlot, StoreCell, CloseSlot
<1>2. UNCHANGED vars => UNCHANGED readerVars
  BY DEF vars, readerVars
<1> QED
  BY <1>1, <1>2 DEF Next, BeginSnapshot, ReadStep, LoadCommit, LoadCell, PushBack

\* What a snapshot reports after it has appended what it has loaded.
LEMMA ReportedStep ==
    ASSUME TypeOK, NEW r \in Readers, PushBack(r)
    PROVE  Reported(r)' = Reported(r) \cup {seen[r]}
<1>1. breadcrumbs[r] \in Seq([Cells -> Nat]) /\ seen[r] \in [Cells -> Nat]
  BY DEF TypeOK
<1>2. breadcrumbs'[r] = Append(breadcrumbs[r], seen[r])
  BY DEF PushBack, TypeOK
<1>3. /\ Len(breadcrumbs'[r]) = Len(breadcrumbs[r]) + 1
      /\ Len(breadcrumbs[r]) \in Nat
      /\ \A i \in 1 .. Len(breadcrumbs[r]) : breadcrumbs'[r][i] = breadcrumbs[r][i]
      /\ breadcrumbs'[r][Len(breadcrumbs[r]) + 1] = seen[r]
  BY <1>1, <1>2
<1>4. 1 .. Len(breadcrumbs'[r])
        = (1 .. Len(breadcrumbs[r])) \cup {Len(breadcrumbs[r]) + 1}
  BY <1>3
<1>5. Len(breadcrumbs[r]) + 1 \in 1 .. Len(breadcrumbs'[r])
  BY <1>3
<1> QED
  BY <1>3, <1>4, <1>5 DEF Reported

\* A snapshot looks at the tickets there were when it began, and reports only those
\* whose call was over.
LEMMA CursorTheorem == Spec => []CursorInv
<1>1. Init => CursorInv
  BY DEF Init, CursorInv, Reported
<1>2. TypeOK /\ WriterInv /\ CommitInv /\ CursorInv /\ [Next]_vars => CursorInv'
  <2> SUFFICES ASSUME TypeOK, WriterInv, CommitInv, CursorInv, [Next]_vars PROVE CursorInv'
    OBVIOUS
  <2>0. /\ breadcrumb_ticket \in Nat
        /\ newest \in [Readers -> Nat]
        /\ cursor \in [Readers -> Nat]
        /\ rtodo \in [Readers -> SUBSET Steps]
        /\ seen \in [Readers -> [Cells -> Nat]]
        /\ breadcrumbs \in [Readers -> Seq([Cells -> Nat])]
        /\ settled \in [Readers -> SUBSET Nat]
    BY DEF TypeOK
  <2>1. Written \subseteq Written'
    BY WrittenStep
  <2>2. CASE UNCHANGED readerVars
    <3>1. breadcrumb_ticket' \in {breadcrumb_ticket, breadcrumb_ticket + 1}
      BY RingSteps DEF Claim, OpenSlot, StoreCell, CloseSlot, writerVars
    <3>2. \A r \in Readers : newest[r] <= breadcrumb_ticket => newest[r] <= breadcrumb_ticket'
      BY <2>0, <3>1
    <3>3. \A r \in Readers : Reported(r)' = Reported(r)
      BY <2>2 DEF Reported, readerVars
    <3> QED
      BY <2>1, <2>2, <3>2, <3>3 DEF CursorInv, readerVars
  <2>3. ASSUME UNCHANGED writerVars, NEW r \in Readers,
               \A x \in Readers \ {r} :
                  /\ cursor'[x] = cursor[x] /\ newest'[x] = newest[x]
                  /\ rtodo'[x] = rtodo[x] /\ seen'[x] = seen[x]
                  /\ breadcrumbs'[x] = breadcrumbs[x] /\ settled'[x] = settled[x],
               settled'[r] \subseteq Written,
               \A b \in Reported(r)' : b[1] \in Written,
               cursor'[r] # 0 =>
                  /\ cursor'[r] <= newest'[r]
                  /\ newest'[r] <= breadcrumb_ticket
                  /\ Open \notin rtodo'[r] => cursor'[r] \in Written
                  /\ 1 \notin rtodo'[r] => seen'[r][1] = cursor'[r]
        PROVE  CursorInv'
    <3>1. Written' = Written /\ breadcrumb_ticket' = breadcrumb_ticket
      BY <2>3 DEF Written, writerVars
    <3>2. \A x \in Readers \ {r} : Reported(x)' = Reported(x)
      BY <2>3 DEF Reported
    <3> QED
      BY <2>3, <3>1, <3>2 DEF CursorInv
  <2>4. ASSUME UNCHANGED writerVars, NEW r \in Readers, BeginSnapshot(r) PROVE CursorInv'
    <3>1. /\ newest' = [newest EXCEPT ![r] = breadcrumb_ticket]
          /\ cursor' = [cursor EXCEPT ![r] =
                           IF breadcrumb_ticket = 0 THEN 0 ELSE Oldest(breadcrumb_ticket)]
          /\ rtodo' = [rtodo EXCEPT ![r] = Steps]
          /\ breadcrumbs' = [breadcrumbs EXCEPT ![r] = <<>>]
          /\ settled' = [settled EXCEPT ![r] = Written]
          /\ seen' = seen
      BY <2>4 DEF BeginSnapshot
    <3>2. breadcrumb_ticket # 0 => Oldest(breadcrumb_ticket) <= breadcrumb_ticket
      BY <2>0 DEF Oldest
    <3>3. Reported(r)' = {}
      BY <2>0, <3>1 DEF Reported
    <3>4. Open \in rtodo'[r] /\ 1 \in rtodo'[r] /\ settled'[r] = Written
      BY <2>0, <3>1, StepFacts
    <3>5. cursor'[r] # 0 => cursor'[r] <= newest'[r] /\ newest'[r] <= breadcrumb_ticket
      BY <2>0, <3>1, <3>2
    <3>6. \A x \in Readers \ {r} :
              /\ cursor'[x] = cursor[x] /\ newest'[x] = newest[x]
              /\ rtodo'[x] = rtodo[x] /\ seen'[x] = seen[x]
              /\ breadcrumbs'[x] = breadcrumbs[x] /\ settled'[x] = settled[x]
      BY <2>0, <3>1
    <3> QED
      BY <2>3, <2>4, <3>3, <3>4, <3>5, <3>6
  <2>5. ASSUME UNCHANGED writerVars, NEW r \in Readers, cursor[r] # 0, NextTicket(r),
               UNCHANGED <<newest, settled, seen>>,
               \A x \in Readers \ {r} : breadcrumbs'[x] = breadcrumbs[x],
               \A b \in Reported(r)' : b[1] \in Written
        PROVE  CursorInv'
    <3>1. /\ cursor' = [cursor EXCEPT ![r] =
                           IF cursor[r] = newest[r] THEN 0 ELSE cursor[r] + 1]
          /\ rtodo' = [rtodo EXCEPT ![r] = Steps]
      BY <2>5 DEF NextTicket
    <3>2. cursor[r] \in Nat /\ newest[r] \in Nat /\ cursor[r] <= newest[r]
          /\ newest[r] <= breadcrumb_ticket /\ settled[r] \subseteq Written
      BY <2>0, <2>5 DEF CursorInv
    <3>3. cursor'[r] # 0 => cursor'[r] = cursor[r] + 1 /\ cursor[r] # newest[r]
      BY <2>0, <3>1
    <3>4. cursor'[r] # 0 => cursor'[r] <= newest'[r] /\ newest'[r] <= breadcrumb_ticket
      BY <2>5, <3>2, <3>3
    <3>5. Open \in rtodo'[r] /\ 1 \in rtodo'[r]
      BY <2>0, <3>1, StepFacts
    <3>6. \A x \in Readers \ {r} : cursor'[x] = cursor[x] /\ rtodo'[x] = rtodo[x]
      BY <2>0, <3>1
    <3> QED
      BY <2>3, <2>5, <3>2, <3>4, <3>5, <3>6
  <2>6. ASSUME UNCHANGED writerVars, NEW r \in Readers, cursor[r] # 0, SkipTicket(r),
               UNCHANGED <<newest, settled>>
        PROVE  CursorInv'
    <3>1. Reported(r)' = Reported(r)
      BY <2>6 DEF SkipTicket, Reported
    <3> QED
      BY <2>5, <2>6, <3>1 DEF SkipTicket, CursorInv
  <2>7. ASSUME UNCHANGED writerVars, NEW r \in Readers, PushBack(r) PROVE CursorInv'
    <3>1. /\ cursor[r] # 0 /\ rtodo[r] = {} /\ NextTicket(r)
          /\ UNCHANGED <<newest, settled, seen>>
          /\ \A x \in Readers \ {r} : breadcrumbs'[x] = breadcrumbs[x]
      BY <2>0, <2>7 DEF PushBack
    <3>2. seen[r][1] \in Written
      BY <3>1 DEF CursorInv
    <3>3. \A b \in Reported(r)' : b[1] \in Written
      BY <2>7, <3>2, ReportedStep DEF CursorInv
    <3> QED
      BY <2>5, <2>7, <3>1, <3>3
  <2>8. ASSUME UNCHANGED writerVars, NEW r \in Readers, cursor[r] # 0,
               UNCHANGED <<newest, settled, cursor, breadcrumbs, seen>>,
               SlotCommit(r) = Expected(r),
               NEW i \in {Open, Close}, rtodo' = [rtodo EXCEPT ![r] = @ \ {i}]
        PROVE  CursorInv'
    <3>1. cursor[r] \in 1 .. breadcrumb_ticket
      BY <2>0, <2>8 DEF CursorInv
    <3>2. cursor[r] \in Written
      BY <2>8, <3>1 DEF CommitInv, SlotCommit, Expected, InCall, WriterSlot, Written
    <3>3. Reported(r)' = Reported(r)
      BY <2>8 DEF Reported
    <3>4. 1 \notin rtodo'[r] => 1 \notin rtodo[r]
      BY <2>0, <2>8, StepFacts
    <3>5. \A x \in Readers \ {r} : rtodo'[x] = rtodo[x]
      BY <2>0, <2>8
    <3> QED
      BY <2>3, <2>8, <3>2, <3>3, <3>4, <3>5 DEF CursorInv
  <2>9. ASSUME UNCHANGED writerVars, NEW r \in Readers, cursor[r] # 0,
               UNCHANGED <<newest, settled, cursor, breadcrumbs>>,
               NEW c \in Cells, NEW value \in Nat, c = 1 => value = cursor[r],
               seen' = [seen EXCEPT ![r][c] = value],
               rtodo' = [rtodo EXCEPT ![r] = @ \ {c}]
        PROVE  CursorInv'
    <3>1. Reported(r)' = Reported(r)
      BY <2>9 DEF Reported
    <3>2. Open \notin rtodo'[r] => Open \notin rtodo[r]
      BY <2>0, <2>9, StepFacts
    <3>3. 1 \notin rtodo'[r] => seen'[r][1] = cursor[r]
      <4>1. CASE c = 1
        BY <2>0, <2>9, <4>1
      <4>2. CASE c # 1
        BY <2>0, <2>9, <4>2, StepFacts DEF CursorInv
      <4> QED
        BY <4>1, <4>2
    <3>4. \A x \in Readers \ {r} : rtodo'[x] = rtodo[x] /\ seen'[x] = seen[x]
      BY <2>0, <2>9
    <3> QED
      BY <2>3, <2>9, <3>1, <3>2, <3>3, <3>4 DEF CursorInv
  <2>10. \A r \in Readers, c \in Cells :
            cursor[r] # 0 => cell[SlotOf(cursor[r])][c] \in Nat
    BY SlotInRange DEF TypeOK
  <2> QED
    BY <2>2, <2>4, <2>6, <2>7, <2>8, <2>9, <2>10, SnapshotSteps
<1> QED
  BY <1>1, <1>2, Typing, WriterTheorem, CommitTheorem, PTL DEF Spec

\* No breadcrumb that stays readable is skipped: its slot shows its ticket whenever the
\* snapshot looks.
LEMMA PendingTheorem == Spec => []PendingInv
<1>1. Init => PendingInv
  BY DEF Init, PendingInv
<1>2. TypeOK /\ WriterInv /\ KeptInv /\ CursorInv /\ PendingInv /\ [Next]_vars => PendingInv'
  <2> SUFFICES ASSUME TypeOK, WriterInv, KeptInv, CursorInv, PendingInv, [Next]_vars,
                      NEW x \in Readers, NEW t \in settled'[x] \ overlapped',
                      t + Capacity > breadcrumb_ticket'
               PROVE  \/ \E b \in Reported(x)' : b[1] = t
                      \/ cursor'[x] # 0 /\ cursor'[x] <= t /\ t <= newest'[x]
    BY DEF PendingInv
  <2> DEFINE goal == \/ \E b \in Reported(x)' : b[1] = t
                     \/ cursor'[x] # 0 /\ cursor'[x] <= t /\ t <= newest'[x]
  <2>0. /\ breadcrumb_ticket \in Nat
        /\ newest \in [Readers -> Nat]
        /\ cursor \in [Readers -> Nat]
        /\ rtodo \in [Readers -> SUBSET Steps]
        /\ seen \in [Readers -> [Cells -> Nat]]
        /\ breadcrumbs \in [Readers -> Seq([Cells -> Nat])]
        /\ settled \in [Readers -> SUBSET Nat]
    BY DEF TypeOK
  <2>1. CASE UNCHANGED readerVars
    <3>1. /\ breadcrumb_ticket' \in {breadcrumb_ticket, breadcrumb_ticket + 1}
          /\ overlapped \subseteq overlapped'
      BY RingSteps DEF Claim, OpenSlot, StoreCell, CloseSlot, writerVars
    <3>2. t \in settled[x] \ overlapped /\ t \in Nat
      BY <2>0, <2>1, <3>1 DEF readerVars
    <3>3. t + Capacity > breadcrumb_ticket
      BY <2>0, <3>1, <3>2
    <3>4. Reported(x)' = Reported(x)
      BY <2>1 DEF Reported, readerVars
    <3> QED
      BY <2>1, <3>2, <3>3, <3>4 DEF PendingInv, readerVars
  <2>2. ASSUME UNCHANGED writerVars, NEW r \in Readers, r # x,
               cursor'[x] = cursor[x], newest'[x] = newest[x], settled'[x] = settled[x],
               breadcrumbs'[x] = breadcrumbs[x]
        PROVE  goal
    <3>1. Reported(x)' = Reported(x)
      BY <2>2 DEF Reported
    <3> QED
      BY <2>2, <3>1 DEF PendingInv, writerVars
  <2>3. ASSUME UNCHANGED writerVars, BeginSnapshot(x) PROVE goal
    <3>1. /\ newest'[x] = breadcrumb_ticket
          /\ cursor'[x] = IF breadcrumb_ticket = 0 THEN 0 ELSE Oldest(breadcrumb_ticket)
          /\ settled'[x] = Written
          /\ breadcrumb_ticket' = breadcrumb_ticket
      BY <2>0, <2>3 DEF BeginSnapshot, writerVars
    <3>2. t \in 1 .. breadcrumb_ticket
      BY <3>1 DEF Written
    <3>3. Oldest(breadcrumb_ticket) <= t /\ Oldest(breadcrumb_ticket) # 0
      BY <2>0, <3>1, <3>2 DEF Oldest
    <3> QED
      BY <2>0, <3>1, <3>2, <3>3
  \* What is known when the snapshot looks for a ticket.
  <2>4. ASSUME UNCHANGED writerVars, UNCHANGED <<newest, settled>>
        PROVE  /\ t \in Written \ overlapped
               /\ t + Capacity > breadcrumb_ticket
               /\ t \in settled[x] \ overlapped
               /\ t \in Nat
    BY <2>0, <2>4 DEF CursorInv, writerVars
  <2>5. ASSUME UNCHANGED writerVars, UNCHANGED <<newest, settled>>, cursor[x] # 0,
               NextTicket(x), Reported(x) \subseteq Reported(x)',
               cursor[x] = t => \E b \in Reported(x)' : b[1] = t
        PROVE  goal
    <3>1. CASE \E b \in Reported(x) : b[1] = t
      BY <2>5, <3>1
    <3>2. CASE cursor[x] <= t /\ t <= newest[x] /\ cursor[x] # t
      <4>1. cursor'[x] = IF cursor[x] = newest[x] THEN 0 ELSE cursor[x] + 1
        BY <2>0, <2>5 DEF NextTicket
      <4>2. cursor[x] \in Nat /\ newest[x] \in Nat /\ t \in Nat
        BY <2>0, <2>4, <2>5
      <4>3. cursor[x] # newest[x] /\ cursor[x] + 1 <= t
        BY <3>2, <4>2
      <4> QED
        BY <2>5, <3>2, <4>1, <4>2, <4>3
    <3> QED
      BY <2>4, <2>5, <3>1, <3>2 DEF PendingInv
  <2>6. ASSUME UNCHANGED writerVars, UNCHANGED <<newest, settled>>, cursor[x] # 0,
               SkipTicket(x), cursor[x] # t
        PROVE  goal
    <3>1. Reported(x)' = Reported(x)
      BY <2>6 DEF SkipTicket, Reported
    <3> QED
      BY <2>5, <2>6, <3>1 DEF SkipTicket
  <2>7. ASSUME UNCHANGED writerVars, PushBack(x) PROVE goal
    <3>1. cursor[x] # 0 /\ rtodo[x] = {} /\ NextTicket(x) /\ UNCHANGED <<newest, settled>>
      BY <2>7 DEF PushBack
    <3>2. Reported(x)' = Reported(x) \cup {seen[x]} /\ seen[x][1] = cursor[x]
      BY <2>7, <3>1, ReportedStep DEF CursorInv
    <3> QED
      BY <2>5, <2>7, <3>1, <3>2
  <2>8. ASSUME UNCHANGED writerVars, UNCHANGED <<newest, settled, cursor, breadcrumbs>>
        PROVE  goal
    <3>1. Reported(x)' = Reported(x)
      BY <2>8 DEF Reported
    <3> QED
      BY <2>4, <2>8, <3>1 DEF PendingInv
  \* The ticket that is looked for is not t when the slot does not show it.
  <2>9. ASSUME NEW r \in Readers, ReadStep(r), SkipTicket(r), UNCHANGED writerVars,
               UNCHANGED <<newest, settled>>, r = x, cursor[x] # 0,
               \/ SlotCommit(r) # Expected(r)
               \/ cell[SlotOf(cursor[r])][1] # cursor[r]
        PROVE  goal
    <3>1. cursor[x] # t
      BY <2>4, <2>9 DEF KeptInv, SlotCommit, Expected
    <3> QED
      BY <2>6, <2>9, <3>1
  <2>10. ASSUME NEW r \in Readers, ReadStep(r) PROVE goal
    <3>1. /\ UNCHANGED writerVars /\ UNCHANGED <<newest, settled>> /\ cursor[r] # 0
          /\ \/ PushBack(r)
             \/ UNCHANGED <<cursor, breadcrumbs>>
             \/ /\ SkipTicket(r)
                /\ \/ SlotCommit(r) # Expected(r)
                   \/ cell[SlotOf(cursor[r])][1] # cursor[r]
      BY <2>10 DEF ReadStep, LoadCommit, LoadCell, PushBack
    <3>2. CASE r = x
      BY <2>7, <2>8, <2>9, <2>10, <3>1, <3>2
    <3>3. CASE r # x
      <4>1. cursor'[x] = cursor[x] /\ breadcrumbs'[x] = breadcrumbs[x]
        BY <2>0, <3>1, <3>3 DEF PushBack, SkipTicket, NextTicket
      <4> QED
        BY <2>2, <3>1, <3>3, <4>1
    <3> QED
      BY <3>2, <3>3
  <2>11. ASSUME NEW r \in Readers, BeginSnapshot(r) PROVE goal
    <3>1. UNCHANGED writerVars
      BY <2>11 DEF BeginSnapshot
    <3>2. CASE r # x
      <4>1. /\ cursor'[x] = cursor[x] /\ newest'[x] = newest[x]
            /\ settled'[x] = settled[x] /\ breadcrumbs'[x] = breadcrumbs[x]
        BY <2>0, <2>11, <3>2 DEF BeginSnapshot
      <4> QED
        BY <2>2, <3>1, <3>2, <4>1
    <3> QED
      BY <2>3, <2>11, <3>1, <3>2
  <2>12. ASSUME NEW w \in Writers, WriterStep(w) PROVE UNCHANGED readerVars
    BY <2>12 DEF WriterStep, Claim, OpenSlot, StoreCell, CloseSlot
  <2> QED
    BY <2>1, <2>10, <2>11, <2>12 DEF Next, vars, readerVars
<1> QED
  BY <1>1, <1>2, Typing, WriterTheorem, KeptTheorem, CursorTheorem, PTL DEF Spec

\* A finished snapshot holds every breadcrumb that was fully written before it began,
\* shared its slot with no other call and whose slot was not handed out again: for any
\* number of threads and watchers and in whatever order the accesses take effect.
THEOREM SettledReportedTheorem == Spec => []SettledReported
<1>1. PendingInv => SettledReported
  BY DEF PendingInv, SettledReported
<1> QED
  BY <1>1, PendingTheorem, PTL

-----------------------------------------------------------------------------
(***************************************************************************)
(* One publishing thread: no two calls ever share a slot.                  *)
(***************************************************************************)

\* One thread of the observed process calls client::breadcrumb.
OneWriter == \A v, w \in Writers : v = w

\* No call ever shared its slot.
NoOverlap == overlapped = {}

\* With one publishing thread no two calls of client::breadcrumb share a slot.
THEOREM NothingOverlaps ==
    ASSUME OneWriter
    PROVE  Spec => []NoOverlap
<1>1. Init => NoOverlap
  BY DEF Init, NoOverlap
<1>2. NoOverlap /\ [Next]_vars => NoOverlap'
  <2> SUFFICES ASSUME overlapped = {}, [Next]_vars PROVE overlapped' = {}
    BY DEF NoOverlap
  <2>1. ASSUME NEW w \in Writers, Claim(w) PROVE overlapped' = {}
    <3>1. Rivals(breadcrumb_ticket + 1) = {}
      BY <2>1 DEF OneWriter, Claim, Rivals
    <3> QED
      BY <2>1, <3>1 DEF Claim
  <2> QED
    BY <2>1, RingSteps DEF OpenSlot, StoreCell, CloseSlot, writerVars
<1> QED
  BY <1>1, <1>2, PTL DEF Spec

\* With one publishing thread in program order every reported breadcrumb carries
\* the fields of one single call.
THEOREM SingleWriterIntact ==
    ASSUME ProgramOrder, OneWriter
    PROVE  Spec => [](\A r \in Readers : \A b \in Reported(r) : Intact(b))
<1>1. NoOverlap /\ IntactUnlessOverlapped
         => \A r \in Readers : \A b \in Reported(r) : Intact(b)
  BY DEF IntactUnlessOverlapped, NoOverlap
<1> QED
  BY <1>1, NothingOverlaps, IntactTheorem, PTL

\* With one publishing thread in program order the slot is closed to readers from
\* before the first field changes until after the last one has.
THEOREM SingleWriterClosed ==
    ASSUME ProgramOrder, OneWriter
    PROVE  Spec => []SlotClosedWhileStoring
<1>1. TypeOK /\ WriterInv /\ NoOverlap /\ OpenInv => SlotClosedWhileStoring
  <2> SUFFICES ASSUME TypeOK, WriterInv, overlapped = {}, OpenInv,
                      NEW w \in Writers, Storing(w)
               PROVE  commit[WriterSlot(w)] % 2 = 1
    BY DEF SlotClosedWhileStoring, NoOverlap
  <2>1. Open \notin wtodo[w]
    BY StepFacts DEF Storing, WriterInv, StoredBefore
  <2>2. commit[WriterSlot(w)] = 2 * wticket[w] + 1
    BY <2>1 DEF OpenInv, Storing, OddCommit
  <2>3. wticket[w] \in Nat
    BY DEF TypeOK
  <2> QED
    BY <2>2, <2>3
<1> QED
  BY <1>1, Typing, WriterTheorem, NothingOverlaps, OpenTheorem, PTL
=============================================================================
