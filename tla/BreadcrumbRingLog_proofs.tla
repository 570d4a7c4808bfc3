----------------------- MODULE BreadcrumbRingLog_proofs -----------------------
(***************************************************************************)
(* With one publishing thread in program order the ring implements the     *)
(* log, step by step: for every capacity, every number of payload fields   *)
(* and all watchers together.                                              *)
(***************************************************************************)
EXTENDS BreadcrumbRingLog, BreadcrumbRing_proofs

\* The one call in progress is that of the newest ticket.
LastInv == \A w \in Writers : InCall(w) => wticket[w] = breadcrumb_ticket

\* Every reported breadcrumb is of one call.
AllIntact == \A r \in Readers : \A b \in Reported(r) : Intact(b)

\* With one publishing thread no ticket is handed out during a call.
LEMMA LastTheorem ==
    ASSUME OneWriter
    PROVE  Spec => []LastInv
<1>1. Init => LastInv
  BY DEF Init, LastInv, InCall
<1>2. TypeOK /\ LastInv /\ [Next]_vars => LastInv'
  <2> SUFFICES ASSUME TypeOK, LastInv, [Next]_vars, NEW w \in Writers, InCall(w)'
               PROVE  wticket'[w] = breadcrumb_ticket'
    BY DEF LastInv
  <2>0. wticket \in [Writers -> Nat]
    BY DEF TypeOK
  <2>1. ASSUME NEW u \in Writers, Claim(u) PROVE wticket'[w] = breadcrumb_ticket'
    <3>1. u = w
      BY DEF OneWriter
    <3> QED
      BY <2>0, <2>1, <3>1 DEF Claim
  <2>2. ASSUME NEW u \in Writers, CloseSlot(u) PROVE FALSE
    <3>1. u = w
      BY DEF OneWriter
    <3> QED
      BY <2>0, <2>2, <3>1 DEF CloseSlot, InCall
  <2>3. CASE UNCHANGED <<breadcrumb_ticket, wticket>>
    BY <2>3 DEF LastInv, InCall
  <2> QED
    BY <2>1, <2>2, <2>3, RingSteps DEF OpenSlot, StoreCell, writerVars
<1> QED
  BY <1>1, <1>2, Typing, PTL DEF Spec

\* The entries recorded are the tickets written: all, or all but that of the call.
RecordedInv ==
    /\ breadcrumb_ticket \in Nat
    /\ Recorded \in Nat
    /\ Written = 1 .. Recorded
    /\ IF \E w \in Writers : InCall(w) THEN breadcrumb_ticket = Recorded + 1
                                       ELSE breadcrumb_ticket = Recorded

\* The entries recorded are those of the calls of client::breadcrumb that are over.
LEMMA RecordedIsWritten ==
    ASSUME OneWriter, TypeOK, WriterInv, LastInv
    PROVE  RecordedInv
<1> USE DEF RecordedInv
<1>0. breadcrumb_ticket \in Nat /\ wticket \in [Writers -> Nat]
  BY RingAssumption DEF TypeOK
<1>1. CASE \A w \in Writers : ~InCall(w)
  <2>1. Written = 1 .. breadcrumb_ticket
    BY <1>0, <1>1 DEF Written, InCall
  <2> QED
    BY <1>0, <1>1, <2>1 DEF Recorded
<1>2. ASSUME NEW w \in Writers, InCall(w)
      PROVE  /\ breadcrumb_ticket = Recorded + 1
             /\ Recorded \in Nat
             /\ Written = 1 .. Recorded
  <2>1. wticket[w] = breadcrumb_ticket /\ breadcrumb_ticket # 0
    BY <1>2 DEF LastInv, InCall
  <2>2. Written = (1 .. breadcrumb_ticket) \ {breadcrumb_ticket}
    BY <1>0, <2>1 DEF Written, OneWriter
  <2>3. breadcrumb_ticket \in 1 .. breadcrumb_ticket
    BY <1>0, <2>1
  <2>4. Recorded = breadcrumb_ticket - 1
    BY <2>2, <2>3 DEF Recorded
  <2> QED
    BY <1>0, <2>1, <2>2, <2>4
<1> QED
  BY <1>0, <1>1, <1>2

-----------------------------------------------------------------------------
\* What the steps are about.
StepInv == /\ TypeOK /\ WriterInv /\ RecordedInv /\ CursorInv
           /\ NoOverlap /\ AllIntact /\ SettledReported

\* All of it holds throughout.
LEMMA StepInvariant ==
    ASSUME ProgramOrder, OneWriter
    PROVE  Spec => []StepInv
<1>1. Spec => []AllIntact
  BY SingleWriterIntact DEF AllIntact
<1>2. TypeOK /\ WriterInv /\ LastInv => RecordedInv
  BY RecordedIsWritten
<1> QED
  BY <1>1, <1>2, Typing, WriterTheorem, LastTheorem, CursorTheorem, NothingOverlaps,
     SettledReportedTheorem, PTL DEF StepInv

\* The log's view of a reader that a step leaves alone.
LEMMA SameView ==
    ASSUME NEW r \in Readers, cursor'[r] = cursor[r], settled'[r] = settled[r],
           breadcrumbs'[r] = breadcrumbs[r]
    PROVE  Due(r)' = Due(r) /\ Report(r)' = Report(r)
<1>1. Reported(r)' = Reported(r)
  BY DEF Reported
<1> QED
  BY <1>1 DEF Due, Report, Entry, Intact

\* Counting is one to one.
LEMMA SameSuccessor == \A m, n \in Nat : m + 1 = n + 1 => m = n
OBVIOUS

\* A call begins to record an entry and ends to; its stores to the slot are not seen.
LEMMA WriterImplements ==
    ASSUME OneWriter, StepInv, StepInv', NEW w \in Writers, WriterStep(w)
    PROVE  Log!BeginRecord \/ Log!EndRecord \/ UNCHANGED Log!logVars
<1>1. \A r \in Readers : Due(r)' = Due(r) /\ Report(r)' = Report(r)
  <2>1. UNCHANGED readerVars
    BY DEF WriterStep, Claim, OpenSlot, StoreCell, CloseSlot
  <2> QED
    BY <2>1, SameView DEF readerVars
<1>2. UNCHANGED <<[r \in Readers |-> Due(r)], [r \in Readers |-> Report(r)]>>
  BY <1>1
<1>3. /\ breadcrumb_ticket \in Nat /\ Recorded \in Nat
      /\ InCall(w) => breadcrumb_ticket = Recorded + 1
      /\ ~InCall(w) => breadcrumb_ticket = Recorded
  BY DEF StepInv, RecordedInv, OneWriter
<1>4. /\ breadcrumb_ticket' \in Nat /\ Recorded' \in Nat
      /\ InCall(w)' => breadcrumb_ticket' = Recorded' + 1
      /\ ~InCall(w)' => breadcrumb_ticket' = Recorded'
  BY DEF StepInv, RecordedInv, OneWriter
<1>5. CASE Claim(w)
  <2>0. /\ ~InCall(w) /\ breadcrumb_ticket < MaxTickets
        /\ breadcrumb_ticket' = breadcrumb_ticket + 1
        /\ wticket'[w] = breadcrumb_ticket + 1
    BY <1>5 DEF Claim, StepInv, TypeOK
  <2>1. InCall(w)'
    BY <1>3, <2>0 DEF InCall
  <2>2. breadcrumb_ticket = Recorded /\ Recorded' = Recorded
    <3>1. breadcrumb_ticket = Recorded /\ breadcrumb_ticket' = Recorded' + 1
      BY <1>3, <1>4, <2>0, <2>1
    <3>2. Recorded + 1 = Recorded' + 1
      BY <2>0, <3>1
    <3> QED
      BY <1>3, <1>4, <3>1, <3>2, SameSuccessor
  <2>3. Log!BeginRecord
    BY <1>2, <2>0, <2>2 DEF Log!BeginRecord
  <2> QED
    BY <2>3
<1>6. CASE CloseSlot(w)
  <2>1. /\ InCall(w) /\ ~InCall(w)'
        /\ breadcrumb_ticket' = breadcrumb_ticket
    BY <1>6 DEF CloseSlot, InCall, MayStore, StepInv, TypeOK, WriterInv
  <2>2. Recorded < breadcrumb_ticket /\ Recorded' = breadcrumb_ticket
    BY <1>3, <1>4, <2>1
  <2>3. Log!EndRecord
    BY <1>2, <2>1, <2>2 DEF Log!EndRecord
  <2> QED
    BY <2>3
<1>7. CASE UNCHANGED <<breadcrumb_ticket, wticket>>
  <2>1. InCall(w)' <=> InCall(w)
    BY <1>7 DEF InCall
  <2>2. Recorded' = Recorded
    <3>1. CASE InCall(w)
      <4>1. breadcrumb_ticket = Recorded + 1 /\ breadcrumb_ticket' = Recorded' + 1
        BY <1>3, <1>4, <2>1, <3>1
      <4>2. /\ Recorded + 1 = Recorded' + 1
            /\ Recorded \in Nat /\ Recorded' \in Nat
        BY <1>3, <1>4, <1>7, <4>1
      <4> QED
        BY <4>1, <4>2, SameSuccessor
    <3>2. CASE ~InCall(w)
      BY <1>3, <1>4, <1>7, <2>1, <3>2
    <3> QED
      BY <3>1, <3>2
  <2> QED
    BY <1>2, <1>7, <2>2 DEF Log!logVars
<1> QED
  BY <1>5, <1>6, <1>7 DEF WriterStep, OpenSlot, StoreCell

\* The loads of a snapshot are one read of the log, which takes place when it ends.
LEMMA ReaderImplements ==
    ASSUME StepInv, StepInv', NEW r \in Readers, BeginSnapshot(r) \/ ReadStep(r)
    PROVE  \/ Log!BeginRead(r) \/ Log!EndRead(r) \/ Log!ReadEmpty(r)
           \/ UNCHANGED Log!logVars
<1> DEFINE due == [x \in Readers |-> Due(x)]
           report == [x \in Readers |-> Report(x)]
<1>a. breadcrumb_ticket \in Nat /\ Recorded \in Nat /\ breadcrumb_ticket >= Recorded
  <2>1. breadcrumb_ticket \in {Recorded, Recorded + 1}
    BY DEF StepInv, RecordedInv
  <2> QED
    BY <2>1 DEF StepInv, RecordedInv
<1>0. /\ breadcrumb_ticket \in 0 .. MaxTickets
      /\ Recorded \in Nat
      /\ Written = 1 .. Recorded
      /\ Recorded <= breadcrumb_ticket
      /\ cursor \in [Readers -> Nat]
      /\ breadcrumbs \in [Readers -> Seq([Cells -> Nat])]
      /\ settled \in [Readers -> SUBSET Nat]
      /\ newest \in [Readers -> Nat]
  BY <1>a DEF StepInv, TypeOK, RecordedInv
<1>1. UNCHANGED writerVars
  BY DEF BeginSnapshot, ReadStep, LoadCommit, LoadCell, PushBack
<1>2. breadcrumb_ticket' = breadcrumb_ticket /\ Written' = Written /\ Recorded' = Recorded
  BY <1>1 DEF Recorded, Written, writerVars
<1>3. \A x \in Readers \ {r} : /\ cursor'[x] = cursor[x]
                              /\ settled'[x] = settled[x]
                              /\ breadcrumbs'[x] = breadcrumbs[x]
  BY <1>0 DEF BeginSnapshot, ReadStep, LoadCommit, LoadCell, PushBack, SkipTicket, NextTicket
<1>4. /\ due' = [due EXCEPT ![r] = Due(r)']
      /\ report' = [report EXCEPT ![r] = Report(r)']
  BY <1>3, SameView
\* A snapshot in progress is due something, even if that is nothing.
<1>5. /\ cursor[r] # 0 => Due(r) # None
      /\ cursor'[r] # 0 => Due(r)' # None
  <2>1. settled[r] \subseteq Written /\ settled'[r] \subseteq Written
    BY <1>2 DEF StepInv, CursorInv
  <2>2. Written \subseteq 1 .. MaxTickets
    BY <1>0, RingAssumption
  <2> QED
    BY <2>1, <2>2, NoneAssumption DEF Due
<1>6. CASE BeginSnapshot(r)
  <2>1. /\ cursor[r] = 0
        /\ cursor'[r] = IF breadcrumb_ticket = 0 THEN 0 ELSE Oldest(breadcrumb_ticket)
        /\ settled'[r] = Written
        /\ breadcrumbs'[r] = <<>>
    BY <1>0, <1>6 DEF BeginSnapshot
  <2>2. Report(r)' = {} /\ Due(r) = None
    BY <2>1 DEF Report, Reported, Due
  <2>3. CASE breadcrumb_ticket = 0
    <3>1. Due(r)' = Due(r)
      BY <2>1, <2>3 DEF Due
    <3> QED
      BY <1>2, <1>4, <2>2, <2>3, <3>1 DEF Log!ReadEmpty
  <2>4. CASE breadcrumb_ticket # 0
    <3>1. Oldest(breadcrumb_ticket) # 0
      BY <1>0, RingAssumption DEF Oldest
    <3>2. Due(r)' = 1 .. Recorded
      BY <1>0, <2>1, <2>4, <3>1 DEF Due
    <3> QED
      BY <1>2, <1>4, <2>2, <3>2 DEF Log!BeginRead
  <2> QED
    BY <2>3, <2>4
<1>7. CASE ReadStep(r)
  <2>1. cursor[r] # 0 /\ settled'[r] = settled[r]
    BY <1>7 DEF ReadStep, LoadCommit, LoadCell, PushBack
  <2>2. CASE cursor'[r] # 0
    <3>1. Due(r)' = Due(r) /\ Report(r)' = Report(r)
      BY <2>1, <2>2 DEF Due, Report
    <3> QED
      BY <1>2, <1>4, <3>1 DEF Log!logVars
  <2>3. CASE cursor'[r] = 0
    <3> DEFINE entries == Report(r)'
    <3>1. Due(r)' = None /\ Due(r) = settled[r]
      BY <2>1, <2>3 DEF Due
    <3>2. \A b \in Reported(r)' : (Entry(b) = b[1])' /\ b[1] \in Written
      BY <1>2 DEF StepInv, AllIntact, CursorInv, Entry
    <3>3. entries = {b[1] : b \in Reported(r)'}
      BY <2>3, <3>2 DEF Report
    <3>4. entries \in SUBSET (1 .. Recorded)
      BY <1>0, <3>2, <3>3
    <3>5. \A e \in settled[r] : e + Capacity > breadcrumb_ticket => e \in entries
      BY <1>2, <2>1, <2>3, <3>3 DEF StepInv, SettledReported, NoOverlap
    <3>6. Log!EndRead(r)
      BY <1>2, <1>4, <1>5, <2>1, <3>1, <3>4, <3>5 DEF Log!EndRead, Log!Kept
    <3> QED
      BY <3>6
  <2> QED
    BY <2>2, <2>3
<1> QED
  BY <1>6, <1>7

\* The first state is that of an empty log.
LEMMA InitImplements == Init => Log!LogInit
<1> SUFFICES ASSUME Init PROVE Log!LogInit
  OBVIOUS
<1>1. Written = {} /\ 1 .. breadcrumb_ticket = {} /\ breadcrumb_ticket = 0
  BY DEF Init, Written
<1>2. Recorded = 0
  BY <1>1 DEF Recorded
<1>3. \A r \in Readers : Due(r) = None /\ Report(r) = {}
  BY DEF Init, Due, Report, Reported
<1> QED
  BY <1>1, <1>2, <1>3 DEF Log!LogInit

\* With one publishing thread in program order every step of the ring is a step of the
\* log or none: a snapshot looks as if it had been taken from complete entries.
THEOREM ImplementsLogSteps ==
    ASSUME ProgramOrder, OneWriter
    PROVE  Spec => Log!LogInit /\ [][Log!LogNext]_(Log!logVars)
<1>1. StepInv /\ StepInv' /\ [Next]_vars => [Log!LogNext]_(Log!logVars)
  <2> SUFFICES ASSUME StepInv, StepInv', [Next]_vars
               PROVE  Log!LogNext \/ UNCHANGED Log!logVars
    OBVIOUS
  <2>1. ASSUME NEW w \in Writers, WriterStep(w) PROVE Log!LogNext \/ UNCHANGED Log!logVars
    BY <2>1, WriterImplements DEF Log!LogNext
  <2>2. ASSUME NEW r \in Readers, BeginSnapshot(r) \/ ReadStep(r)
        PROVE  Log!LogNext \/ UNCHANGED Log!logVars
    BY <2>2, ReaderImplements DEF Log!LogNext
  <2>3. CASE UNCHANGED vars
    <3>1. Recorded' = Recorded
      BY <2>3 DEF vars, Recorded, Written
    <3>2. \A r \in Readers : Due(r)' = Due(r) /\ Report(r)' = Report(r)
      BY <2>3, SameView DEF vars
    <3> QED
      BY <2>3, <3>1, <3>2 DEF vars, Log!logVars
  <2> QED
    BY <2>1, <2>2, <2>3 DEF Next
<1> QED
  BY <1>1, InitImplements, StepInvariant, PTL DEF Spec
=============================================================================
