-------------------------- MODULE Observation_proofs --------------------------
(***************************************************************************)
(* The CPU share and the memory trend of Observation, for every capacity,  *)
(* window and delay.  The trend is the longest end of the history that     *)
(* fits, because what does not fit once never fits again; it shows a leak, *)
(* and shows it no more after a plateau.                                   *)
(***************************************************************************)
EXTENDS Observation, FiniteSetTheorems, SequenceTheorems, WellFoundedInduction, TLAPS

-----------------------------------------------------------------------------
(***************************************************************************)
(* The deque.                                                              *)
(***************************************************************************)

\* A set of naturals has a least element.
LEMMA Least ==
  ASSUME NEW T \in SUBSET Nat, T # {}
  PROVE  \E m \in T : \A n \in T : m <= n
<1> DEFINE R == {ss \in Nat \X Nat : ss[1] < ss[2]}
<1>1. IsWellFoundedOn(R, Nat)
  BY NatLessThanWellFounded DEF OpToRel
<1>2. PICK m \in T : \A n \in T : <<n, m>> \notin R
  BY <1>1, WFMin
<1>3. \A n \in T : ~(n < m)
  BY <1>2
<1> QED BY <1>2, <1>3

\* The end of s that begins at i fits.
Within(s, i) ==
    /\ Len(s) - i + 1 <= Room
    /\ Len(s) - i + 1 > 2 => s[Len(s)].timestamp_ns - s[i].timestamp_ns <= Window

\* Room is a number, at least two.
LEMMA RoomType == Room \in Nat /\ Room >= 2 /\ (Room = Capacity \/ Room = 2)
BY TrendAssumption DEF Room

\* The end of a sequence, element by element.
LEMMA EndOf ==
  ASSUME NEW s \in Seq(Points), NEW i \in 1 .. Len(s) + 1
  PROVE  /\ SubSeq(s, i, Len(s)) \in Seq(Points)
         /\ Len(SubSeq(s, i, Len(s))) = Len(s) - i + 1
         /\ \A j \in 1 .. Len(s) - i + 1 : SubSeq(s, i, Len(s))[j] = s[i + j - 1]
<1>1. Len(s) \in Nat
  BY LenProperties
<1>2. \A j \in i .. Len(s) : s[j] \in Points
  BY <1>1, ElementOfSeq
<1>3. i \in Int /\ Len(s) \in Int
  BY <1>1
<1>4. /\ SubSeq(s, i, Len(s)) \in Seq(Points)
      /\ Len(SubSeq(s, i, Len(s))) = IF i <= Len(s) THEN Len(s) - i + 1 ELSE 0
      /\ \A j \in 1 .. Len(s) - i + 1 : SubSeq(s, i, Len(s))[j] = s[i + j - 1]
  BY <1>2, <1>3, SubSeqProperties
<1> QED BY <1>1, <1>4

\* Fits is about the end of a sequence what Within is about its start.
LEMMA FitsIsWithin ==
  ASSUME NEW s \in Seq(Points), NEW i \in 1 .. Len(s)
  PROVE  Fits(SubSeq(s, i, Len(s))) <=> Within(s, i)
<1> DEFINE e == SubSeq(s, i, Len(s))
<1>1. Len(s) \in Nat
  BY LenProperties
<1>2. /\ Len(e) = Len(s) - i + 1
      /\ \A j \in 1 .. Len(s) - i + 1 : e[j] = s[i + j - 1]
  BY <1>1, EndOf
<1>3. e[1] = s[i] /\ e[Len(e)] = s[Len(s)]
  <2>1. e[1] = s[i + 1 - 1]
    BY <1>1, <1>2
  <2>2. e[Len(s) - i + 1] = s[i + (Len(s) - i + 1) - 1]
    BY <1>1, <1>2
  <2>3. i + 1 - 1 = i /\ i + (Len(s) - i + 1) - 1 = Len(s)
    BY <1>1
  <2> QED BY <2>1, <2>2, <2>3, <1>2
<1> HIDE DEF e
<1>4. Fits(e) <=> Within(s, i)
  BY <1>2, <1>3 DEF Fits, Within, Span
<1> QED BY <1>4 DEF e

\* What pop_front leaves: the longest end that fits, never nothing.
LEMMA TrimmedIsEnd ==
  ASSUME NEW p \in Seq(Points), p # <<>>
  PROVE  \E m \in 1 .. Len(p) :
            /\ Trimmed(p) = SubSeq(p, m, Len(p))
            /\ Within(p, m)
            /\ \A i \in 1 .. m - 1 : ~Within(p, i)
<1> DEFINE T == {i \in DOMAIN p : Fits(SubSeq(p, i, Len(p)))}
<1>1. Len(p) \in Nat /\ Len(p) # 0 /\ DOMAIN p = 1 .. Len(p)
  BY EmptySeq, LenProperties
<1>2. \A i \in 1 .. Len(p) : i \in T <=> Within(p, i)
  BY <1>1, FitsIsWithin
<1>3. Len(p) \in T
  <2>1. Within(p, Len(p))
    BY <1>1, RoomType DEF Within
  <2> QED BY <1>1, <1>2, <2>1
<1>4. T \in SUBSET Nat
  BY <1>1
<1> HIDE DEF T
<1>5. \E m \in T : \A n \in T : m <= n
  BY <1>3, <1>4, Least
<1>6. Min(T) \in T /\ \A n \in T : Min(T) <= n
  BY <1>5 DEF Min
<1>7. Trimmed(p) = SubSeq(p, Min(T), Len(p))
  BY DEF Trimmed, T
<1>8. Min(T) \in 1 .. Len(p)
  BY <1>1, <1>6 DEF T
<1>9. \A i \in 1 .. Min(T) - 1 : ~Within(p, i)
  <2> TAKE i \in 1 .. Min(T) - 1
  <2>1. i \in 1 .. Len(p) /\ ~(Min(T) <= i)
    BY <1>1, <1>8
  <2>2. i \notin T
    BY <1>6, <2>1
  <2> QED BY <1>2, <2>1, <2>2
<1> QED BY <1>2, <1>6, <1>7, <1>8, <1>9

\* The deque stays one, within its capacity.
LEMMA AddType ==
  ASSUME NEW p \in Seq(Points), NEW point \in Points, Len(p) <= Room
  PROVE  Add(p, point) \in Seq(Points) /\ Len(Add(p, point)) <= Room
<1> DEFINE q == Append(p, point)
<1>1. q \in Seq(Points) /\ Len(q) = Len(p) + 1 /\ Len(p) \in Nat
  BY AppendProperties, LenProperties
<1>2. q # <<>>
  BY <1>1
<1> HIDE DEF q
<1>3. PICK m \in 1 .. Len(q) : Trimmed(q) = SubSeq(q, m, Len(q)) /\ Within(q, m)
  BY <1>1, <1>2, TrimmedIsEnd
<1>4. Trimmed(q) \in Seq(Points) /\ Len(Trimmed(q)) = Len(q) - m + 1
  <2>1. m \in 1 .. Len(q) + 1
    BY <1>1
  <2> QED BY <1>1, <1>3, <2>1, EndOf
<1>5. Len(Trimmed(q)) <= Room
  BY <1>3, <1>4 DEF Within
<1>6. Add(p, point) = p \/ Add(p, point) = Trimmed(q)
  BY DEF Add, q
<1> QED BY <1>4, <1>5, <1>6

-----------------------------------------------------------------------------
(***************************************************************************)
(* Types.                                                                  *)
(***************************************************************************)

\* The capacity of the deque, as TypeOK and as AddType say it.
LEMMA RoomIsCapacity ==
  ASSUME NEW n \in Nat
  PROVE  n <= Capacity \/ n <= 2 <=> n <= Room
BY TrendAssumption DEF Room

\* What the parts of the state are made of.
LEMMA Records ==
  /\ NoSample \in Samples
  /\ NoShare \in [ticks : Nat, elapsed : Nat]
  /\ TypeOK => Point \in Points
  /\ \A p : Summary(p) \in {0, 1}
<1>1. NoSample \in Samples
  BY DEF NoSample, Samples
<1>2. NoShare \in [ticks : Nat, elapsed : Nat]
  BY DEF NoShare
<1>3. ASSUME TypeOK PROVE Point \in Points
  BY <1>3 DEF TypeOK, Point, Points, Samples
<1>4. \A p : Summary(p) \in {0, 1}
  BY DEF Summary
<1> QED BY <1>1, <1>2, <1>3, <1>4

\* A CPU share is of non-negative numbers.
LEMMA ShareType ==
  ASSUME TypeOK
  PROVE  CpuPercent \in [ticks : Nat, elapsed : Nat]
<1>1. sample \in Samples /\ previous \in Samples
  BY DEF TypeOK
<1>2. CASE HasBaseline
  <2>1. UsedTicks \in Nat /\ sample.sampled_at_ns - previous.sampled_at_ns \in Nat
    BY <1>1, <1>2 DEF HasBaseline, UsedTicks, Samples
  <2> QED BY <1>2, <2>1 DEF CpuPercent
<1>3. CASE ~HasBaseline
  BY <1>3, Records DEF CpuPercent
<1> QED BY <1>2, <1>3

\* The bounded events are counted.
LEMMA EventsType ==
  ASSUME TypeOK, NEW n \in Nat, Events(n)
  PROVE  events' \in Nat
BY DEF TypeOK, Events

\* Types are preserved.
LEMMA TypesStep ==
  ASSUME TypeOK, [Next]_vars
  PROVE  TypeOK'
<1> USE ObservationAssumption
<1>1. ASSUME NEW rss \in 0 .. MaxRss, ReadStatus(rss) PROVE TypeOK'
  <2>1. sample' \in Samples
    BY <1>1 DEF ReadStatus, Samples, NoSample
  <2>2. (IF points = <<>> \/ rss = points[Len(points)].rss_bytes THEN 0 ELSE 1) \in Nat
    OBVIOUS
  <2>3. events' \in Nat
    BY <1>1, <2>2, EventsType DEF ReadStatus
  <2> QED BY <1>1, <2>1, <2>3 DEF ReadStatus, TypeOK, process, owner
<1>2. CASE ReadStat
  <2>1. sample' \in Samples
    BY <1>2 DEF ReadStat, TypeOK, Samples
  <2> QED BY <1>2, <2>1 DEF ReadStat, TypeOK, process, owner, history
<1>3. CASE Stamp
  <2>1. sample' \in Samples
    BY <1>3 DEF Stamp, TypeOK, Samples
  <2> QED BY <1>3, <2>1 DEF Stamp, TypeOK, process, owner, history
<1>4. CASE FailSample
  <2>1. sample' \in Samples /\ events' \in Nat /\ began' \in Nat
    BY <1>4, Records DEF FailSample, TypeOK, Events
  <2> QED BY <1>4, <2>1 DEF FailSample, TypeOK, process, owner
<1>5. ASSUME NEW status \in {"sample_unavailable", "exited"}, Reject(status) PROVE TypeOK'
  <2>1. /\ sample' \in Samples /\ previous' \in Samples
        /\ latest' \in [status : {"not_attached", "sampled", "sample_unavailable", "exited"},
                        sample : Samples, cpu_percent : [ticks : Nat, elapsed : Nat],
                        sustained_growth : {0, 1}]
    BY <1>5, Records DEF Reject, Done, PreviousReset, Observation
  <2> QED BY <1>5, <2>1 DEF Reject, Done, TypeOK, process
<1>6. CASE AcceptSample
  <2>1. Point \in Points /\ Len(points) \in Nat
    BY Records, LenProperties DEF TypeOK
  <2>2. points' \in Seq(Points) /\ Len(points') <= Room
    BY <1>6, <2>1, AddType, RoomIsCapacity DEF AcceptSample, TypeOK
  <2>3. Len(points') <= Capacity \/ Len(points') <= 2
    BY <2>2, LenProperties, RoomIsCapacity
  <2>4. latest' \in [status : {"not_attached", "sampled", "sample_unavailable", "exited"},
                     sample : Samples, cpu_percent : [ticks : Nat, elapsed : Nat],
                     sustained_growth : {0, 1}]
    BY <1>6, Records, ShareType DEF AcceptSample, Observation, TypeOK
  <2>5. accepted' \in Seq(Points)
    BY <1>6, <2>1, AppendProperties DEF AcceptSample, TypeOK
  <2>6. sample' \in Samples /\ previous' \in Samples
    BY <1>6, Records DEF AcceptSample, Done, TypeOK
  <2> QED BY <1>6, <2>2, <2>3, <2>4, <2>5, <2>6 DEF AcceptSample, Done, TypeOK, process
<1>7. ASSUME NEW used \in {0, 1}, Tick(used) PROVE TypeOK'
  <2>1. clock' \in Nat /\ cpu_ticks' \in Nat
    BY <1>7 DEF Tick, TypeOK
  <2>2. (IF stage = "idle" THEN used ELSE used + 1) \in Nat
    OBVIOUS
  <2>3. events' \in Nat
    BY <1>7, <2>2, EventsType DEF Tick
  <2> QED BY <1>7, <2>1, <2>3 DEF Tick, TypeOK, poll, owner
<1>8. CASE Exit
  BY <1>8 DEF Exit, TypeOK, poll, owner, history
<1>9. CASE UNCHANGED vars
  BY <1>9 DEF vars, TypeOK
<1> QED BY <1>1, <1>2, <1>3, <1>4, <1>5, <1>6, <1>7, <1>8, <1>9
        DEF Next, AcceptUnavailable, AcceptExit

\* The state of an observation stays within its types, and its deque within its
\* capacity, for every capacity and window.
THEOREM TypeCorrect == Spec => []TypeOK
<1>1. Init => TypeOK
  BY Records, EmptySeq DEF Init, TypeOK, Observation
<1>2. TypeOK /\ [Next]_vars => TypeOK'
  BY TypesStep
<1> QED BY <1>1, <1>2, PTL DEF Spec

-----------------------------------------------------------------------------
(***************************************************************************)
(* The CPU share.                                                          *)
(***************************************************************************)

\* A poll begins after the one before has ended, and takes PollDelay at most.
Timing ==
    /\ clock >= 1
    /\ previous.sampled_at_ns <= clock
    /\ stage # "idle" =>
          /\ previous.sampled_at_ns <= began
          /\ 1 <= began
          /\ began <= clock
          /\ clock <= began + PollDelay
    /\ Exists(sample) =>
          /\ stage = "sampled"
          /\ began <= sample.sampled_at_ns
          /\ sample.sampled_at_ns <= clock

\* The time up to which sample has seen the process.
Until == IF Exists(sample) THEN sample.sampled_at_ns ELSE clock

\* The process has used no more time than has passed since it was looked at.
Used ==
    /\ Exists(previous) =>
          cpu_ticks <= previous.cpu_ticks + (clock - previous.sampled_at_ns) + PollDelay
    /\ stage = "stamp" \/ Exists(sample) => cpu_ticks <= sample.cpu_ticks + (clock - began)
    /\ Exists(previous) /\ (stage = "stamp" \/ Exists(sample)) =>
          sample.cpu_ticks <= previous.cpu_ticks + (Until - previous.sampled_at_ns) + PollDelay

\* The sample a share is taken against is that of the latest observation.
Baseline == Exists(previous) => latest.status = "sampled" /\ latest.sample = previous

CpuInv == TypeOK /\ Timing /\ Used /\ Baseline /\ CpuNotInflated

\* The numbers of the invariant.
LEMMA Numbers ==
  ASSUME TypeOK
  PROVE  /\ clock \in Nat /\ cpu_ticks \in Nat /\ began \in Nat /\ PollDelay \in Nat
         /\ sample.sampled_at_ns \in Nat /\ sample.cpu_ticks \in Nat
         /\ previous.sampled_at_ns \in Nat /\ previous.cpu_ticks \in Nat
BY ObservationAssumption DEF TypeOK, Samples

\* No sample does not exist.
LEMMA NoSampleFields == NoSample.sampled_at_ns = 0 /\ ~Exists(NoSample)
BY DEF NoSample, Exists

\* No share is of no time.
LEMMA NoShareFields == NoShare.ticks = 0 /\ NoShare.elapsed = 0
BY DEF NoShare

\* The order of the times is preserved.
LEMMA TimingStep ==
  ASSUME CpuInv, [Next]_vars
  PROVE  Timing'
<1> USE Numbers, NoSampleFields DEF CpuInv
<1>1. ASSUME NEW rss \in 0 .. MaxRss, ReadStatus(rss) PROVE Timing'
  <2>1. sample'.sampled_at_ns = 0
    BY <1>1 DEF ReadStatus, NoSample
  <2> QED BY <1>1, <2>1 DEF ReadStatus, Timing, Exists, owner
<1>2. CASE ReadStat
  <2>1. sample'.sampled_at_ns = sample.sampled_at_ns
    BY <1>2 DEF ReadStat, TypeOK, Samples
  <2> QED BY <1>2, <2>1 DEF ReadStat, Timing, Exists, owner
<1>3. CASE Stamp
  <2>1. sample'.sampled_at_ns = clock
    BY <1>3 DEF Stamp, TypeOK, Samples
  <2> QED BY <1>3, <2>1 DEF Stamp, Timing, Exists, owner
<1>4. CASE FailSample
  <2>1. sample'.sampled_at_ns = 0
    BY <1>4 DEF FailSample
  <2>2. CASE stage = "idle"
    BY <1>4, <2>1, <2>2 DEF FailSample, Timing, Exists, owner
  <2>3. CASE stage = "stat"
    BY <1>4, <2>1, <2>3 DEF FailSample, Timing, Exists, owner
  <2> QED BY <1>4, <2>2, <2>3 DEF FailSample
<1>5. ASSUME NEW status, Reject(status) PROVE Timing'
  BY <1>5 DEF Reject, Done, PreviousReset, Timing, Exists
<1>6. CASE AcceptSample
  BY <1>6 DEF AcceptSample, Done, Timing, Exists
<1>7. ASSUME NEW used \in {0, 1}, Tick(used) PROVE Timing'
  BY <1>7 DEF Tick, Timing, Exists, poll, owner
<1>8. CASE Exit
  BY <1>8 DEF Exit, Timing, Exists, poll, owner
<1>9. CASE UNCHANGED vars
  BY <1>9 DEF vars, Timing, Exists
<1> QED BY <1>1, <1>2, <1>3, <1>4, <1>5, <1>6, <1>7, <1>8, <1>9
        DEF Next, AcceptUnavailable, AcceptExit

\* What the process has used since is bounded.
LEMMA UsedStep ==
  ASSUME CpuInv, [Next]_vars
  PROVE  Used'
<1> USE Numbers, NoSampleFields DEF CpuInv
<1>1. ASSUME NEW rss \in 0 .. MaxRss, ReadStatus(rss) PROVE Used'
  <2>1. sample'.sampled_at_ns = 0
    BY <1>1 DEF ReadStatus, NoSample
  <2> QED BY <1>1, <2>1 DEF ReadStatus, Used, Exists, owner, process
<1>2. CASE ReadStat
  <2>1. sample'.sampled_at_ns = sample.sampled_at_ns /\ sample'.cpu_ticks = cpu_ticks
    BY <1>2 DEF ReadStat, TypeOK, Samples
  <2> QED BY <1>2, <2>1 DEF ReadStat, Used, Until, Timing, Exists, owner, process
<1>3. CASE Stamp
  <2>1. sample'.sampled_at_ns = clock /\ sample'.cpu_ticks = sample.cpu_ticks
    BY <1>3 DEF Stamp, TypeOK, Samples
  <2> QED BY <1>3, <2>1 DEF Stamp, Used, Until, Timing, Exists, owner, process
<1>4. CASE FailSample
  BY <1>4 DEF FailSample, Used, Exists, owner, process
<1>5. ASSUME NEW status, Reject(status) PROVE Used'
  BY <1>5 DEF Reject, Done, PreviousReset, Used, Exists
<1>6. CASE AcceptSample
  BY <1>6 DEF AcceptSample, Done, Used, Timing, Exists, process
<1>7. ASSUME NEW used \in {0, 1}, Tick(used) PROVE Used'
  <2>1. /\ clock' = clock + 1 /\ cpu_ticks' = cpu_ticks + used /\ used <= 1 /\ used \in Nat
        /\ UNCHANGED <<previous, sample, stage, began>>
    BY <1>7 DEF Tick, poll, owner
  <2>2. ASSUME Exists(previous)
        PROVE  cpu_ticks + used
                 <= previous.cpu_ticks + (clock + 1 - previous.sampled_at_ns) + PollDelay
    BY <2>1, <2>2 DEF Used
  <2>3. ASSUME stage = "stamp" \/ Exists(sample)
        PROVE  cpu_ticks + used <= sample.cpu_ticks + (clock + 1 - began)
    BY <2>1, <2>3 DEF Used
  <2>4. Until \in Nat /\ Until' \in Nat /\ Until <= Until'
    BY <2>1 DEF Until, Exists
  <2>5. ASSUME Exists(previous), stage = "stamp" \/ Exists(sample)
        PROVE  sample.cpu_ticks
                 <= previous.cpu_ticks + (Until' - previous.sampled_at_ns) + PollDelay
    <3>1. sample.cpu_ticks <= previous.cpu_ticks + (Until - previous.sampled_at_ns) + PollDelay
      BY <2>5 DEF Used
    <3> QED BY <2>4, <3>1
  <2>6. Exists(previous)' = Exists(previous) /\ Exists(sample)' = Exists(sample)
    BY <2>1 DEF Exists
  <2> QED BY <2>1, <2>2, <2>3, <2>5, <2>6 DEF Used
<1>8. CASE Exit
  BY <1>8 DEF Exit, Used, Until, Exists, poll, owner
<1>9. CASE UNCHANGED vars
  BY <1>9 DEF vars, Used, Until, Exists
<1> QED BY <1>1, <1>2, <1>3, <1>4, <1>5, <1>6, <1>7, <1>8, <1>9
        DEF Next, AcceptUnavailable, AcceptExit

\* Only accept_sample changes what the next share is taken against.
LEMMA OwnerStep ==
  ASSUME [Next]_vars
  PROVE  \/ UNCHANGED owner
         \/ AcceptSample
         \/ \E status \in {"sample_unavailable", "exited"} : Reject(status)
<1>1. ASSUME NEW rss \in 0 .. MaxRss, ReadStatus(rss) PROVE UNCHANGED owner
  BY <1>1 DEF ReadStatus
<1>2. ASSUME NEW used \in {0, 1}, Tick(used) PROVE UNCHANGED owner
  BY <1>2 DEF Tick
<1>3. CASE ReadStat \/ Stamp \/ FailSample \/ Exit
  BY <1>3 DEF ReadStat, Stamp, FailSample, Exit
<1>4. CASE UNCHANGED vars
  BY <1>4 DEF vars, owner
<1> QED BY <1>1, <1>2, <1>3, <1>4 DEF Next, AcceptUnavailable, AcceptExit

\* The baseline and the bound of the latest share.
LEMMA LatestStep ==
  ASSUME CpuInv, [Next]_vars
  PROVE  Baseline' /\ CpuNotInflated'
<1> USE Numbers, NoSampleFields DEF CpuInv
<1>1. CASE UNCHANGED owner
  BY <1>1 DEF owner, Baseline, CpuNotInflated, Exists
<1>2. ASSUME NEW status, Reject(status) PROVE Baseline' /\ CpuNotInflated'
  <2>1. latest'.cpu_percent = NoShare /\ previous' = NoSample
    BY <1>2 DEF Reject, Observation, PreviousReset
  <2> QED BY <2>1, NoShareFields DEF Baseline, CpuNotInflated, Exists
<1>3. CASE AcceptSample
  <2>1. /\ latest'.cpu_percent = CpuPercent
        /\ latest'.status = "sampled"
        /\ latest'.sample = sample
        /\ previous' = sample
    BY <1>3 DEF AcceptSample, Observation
  <2>2. CpuPercent.ticks <= CpuPercent.elapsed + PollDelay
    <3>1. CASE HasBaseline
      <4>1. /\ CpuPercent.ticks = sample.cpu_ticks - previous.cpu_ticks
            /\ CpuPercent.elapsed = sample.sampled_at_ns - previous.sampled_at_ns
        BY <3>1 DEF CpuPercent, UsedTicks
      <4>2. Exists(previous) /\ Exists(sample)
        BY <1>3, <3>1 DEF HasBaseline, AcceptSample
      <4> QED BY <4>1, <4>2 DEF Used, Until
    <3>2. CASE ~HasBaseline
      BY <3>2, NoShareFields DEF CpuPercent
    <3> QED BY <3>1, <3>2
  <2> QED BY <2>1, <2>2 DEF Baseline, CpuNotInflated
<1> QED BY <1>1, <1>2, <1>3, OwnerStep

\* The invariant behind the CPU share.
LEMMA CpuInvariant == Spec => []CpuInv
<1>1. Init => CpuInv
  <2> SUFFICES ASSUME Init PROVE CpuInv
    OBVIOUS
  <2>1. TypeOK
    BY Records, EmptySeq DEF Init, TypeOK, Observation
  <2>2. latest.cpu_percent = NoShare
    BY DEF Init, Observation
  <2>3. Timing /\ Used /\ Baseline
    BY NoSampleFields DEF Init, Timing, Used, Baseline, Exists
  <2>4. CpuNotInflated
    BY <2>2, NoShareFields, ObservationAssumption DEF CpuNotInflated
  <2> QED BY <2>1, <2>3, <2>4 DEF CpuInv
<1>2. CpuInv /\ [Next]_vars => CpuInv'
  BY TypesStep, TimingStep, UsedStep, LatestStep DEF CpuInv
<1> QED BY <1>1, <1>2, PTL DEF Spec

\* However the polls are delayed, a process is never charged more CPU time than it can
\* have used in the interval and the one poll before it.
THEOREM CpuNotInflatedAlways == Spec => []CpuNotInflated
<1>1. CpuInv => CpuNotInflated
  BY DEF CpuInv
<1> QED BY <1>1, CpuInvariant, PTL

ShareStep ==
    latest' # latest /\ latest'.cpu_percent # NoShare =>
       /\ latest.status = "sampled"
       /\ latest'.cpu_percent.ticks = latest'.sample.cpu_ticks - latest.sample.cpu_ticks
       /\ latest'.cpu_percent.elapsed
             = latest'.sample.sampled_at_ns - latest.sample.sampled_at_ns

\* A step that reports a share reports it against the latest observation.
LEMMA ShareStepHolds ==
  ASSUME CpuInv, [Next]_vars
  PROVE  ShareStep
<1> SUFFICES ASSUME latest' # latest, latest'.cpu_percent # NoShare PROVE
       /\ latest.status = "sampled"
       /\ latest'.cpu_percent.ticks = latest'.sample.cpu_ticks - latest.sample.cpu_ticks
       /\ latest'.cpu_percent.elapsed
             = latest'.sample.sampled_at_ns - latest.sample.sampled_at_ns
  BY DEF ShareStep
<1>1. AcceptSample
  <2>1. ASSUME NEW status, Reject(status) PROVE FALSE
    BY <2>1 DEF Reject, Observation
  <2> QED BY <2>1, OwnerStep DEF owner
<1>2. latest'.cpu_percent = CpuPercent /\ latest'.sample = sample
  BY <1>1 DEF AcceptSample, Observation
<1>3. HasBaseline
  BY <1>2 DEF CpuPercent
<1>4. latest.status = "sampled" /\ latest.sample = previous
  BY <1>3 DEF HasBaseline, CpuInv, Baseline
<1> QED BY <1>2, <1>3, <1>4 DEF CpuPercent, UsedTicks

\* A share is always that between two consecutive observations.
THEOREM CpuBetweenObservationsAlways == Spec => CpuBetweenObservations
<1>1. CpuInv /\ [Next]_vars => [ShareStep]_vars
  BY ShareStepHolds
<1>2. Spec => [][ShareStep]_vars
  BY <1>1, CpuInvariant, PTL DEF Spec
<1>3. [][ShareStep]_vars => CpuBetweenObservations
  BY PTL DEF ShareStep, CpuBetweenObservations
<1> QED BY <1>2, <1>3

-----------------------------------------------------------------------------
(***************************************************************************)
(* The trend.                                                              *)
(***************************************************************************)

Sorted(s) ==
    \A i \in 1 .. Len(s), j \in 1 .. Len(s) : i < j => s[i].timestamp_ns < s[j].timestamp_ns

\* The ends of s that fit are those that begin at m or later.
FitFrom(s, m) == \A i \in 1 .. Len(s) : Within(s, i) <=> m <= i

\* Time stamps are numbers.
LEMMA StampType ==
  ASSUME NEW s \in Seq(Points)
  PROVE  \A i \in 1 .. Len(s) : s[i].timestamp_ns \in Nat
<1> TAKE i \in 1 .. Len(s)
<1>1. s[i] \in Points
  BY ElementOfSeq
<1> QED BY <1>1 DEF Points

\* A sequence and one more element.
LEMMA OneMore ==
  ASSUME NEW s \in Seq(Points), NEW e \in Points
  PROVE  /\ Append(s, e) \in Seq(Points)
         /\ Len(Append(s, e)) = Len(s) + 1
         /\ Len(s) \in Nat
         /\ \A i \in 1 .. Len(s) : Append(s, e)[i] = s[i]
         /\ Append(s, e)[Len(s) + 1] = e
BY AppendProperties, LenProperties

\* A shorter end of what fits fits.
LEMMA WithinLater ==
  ASSUME NEW s \in Seq(Points), Sorted(s),
         NEW i \in 1 .. Len(s), NEW j \in 1 .. Len(s), i <= j, Within(s, i)
  PROVE  Within(s, j)
<1>1. /\ Len(s) \in Nat
      /\ s[i].timestamp_ns \in Nat /\ s[j].timestamp_ns \in Nat
      /\ s[Len(s)].timestamp_ns \in Nat
  BY LenProperties, StampType
<1>2. s[i].timestamp_ns <= s[j].timestamp_ns
  BY <1>1 DEF Sorted
<1>3. Len(s) - j + 1 <= Len(s) - i + 1 /\ Len(s) - j + 1 \in Int /\ Len(s) - i + 1 \in Int
  BY <1>1
<1>4. Len(s) - j + 1 <= Room
  BY <1>3, RoomType DEF Within
<1>5. Len(s) - j + 1 > 2 => s[Len(s)].timestamp_ns - s[j].timestamp_ns <= Window
  <2> SUFFICES ASSUME Len(s) - j + 1 > 2
               PROVE  s[Len(s)].timestamp_ns - s[j].timestamp_ns <= Window
    OBVIOUS
  <2>1. Len(s) - i + 1 > 2
    BY <1>3
  <2>2. s[Len(s)].timestamp_ns - s[i].timestamp_ns <= Window
    BY <2>1 DEF Within
  <2>3. \A x, y, z, w \in Nat : x <= y /\ z - x <= w => z - y <= w
    OBVIOUS
  <2>4. Window \in Nat
    BY TrendAssumption
  <2> QED BY <1>1, <1>2, <2>2, <2>3, <2>4
<1> QED BY <1>4, <1>5 DEF Within

\* What does not fit does not fit either when a later point has come.
LEMMA WithinBefore ==
  ASSUME NEW s \in Seq(Points), NEW e \in Points, NEW i \in 1 .. Len(s),
         s[Len(s)].timestamp_ns < e.timestamp_ns, Within(Append(s, e), i)
  PROVE  Within(s, i)
<1> DEFINE a == Append(s, e)
<1>1. Len(a) = Len(s) + 1 /\ Len(s) \in Nat /\ a[i] = s[i] /\ a[Len(a)] = e
  BY OneMore
<1>2. s[i].timestamp_ns \in Nat /\ s[Len(s)].timestamp_ns \in Nat
  BY <1>1, StampType
<1>3. e.timestamp_ns \in Nat
  BY DEF Points
<1> HIDE DEF a
<1>4. Within(a, i)
  BY DEF a
<1>5. Len(s) - i + 1 <= Room
  BY <1>1, <1>4, RoomType DEF Within
<1>6. Len(s) - i + 1 > 2 => s[Len(s)].timestamp_ns - s[i].timestamp_ns <= Window
  <2> SUFFICES ASSUME Len(s) - i + 1 > 2
               PROVE  s[Len(s)].timestamp_ns - s[i].timestamp_ns <= Window
    OBVIOUS
  <2>1. Len(a) - i + 1 > 2
    BY <1>1
  <2>2. e.timestamp_ns - s[i].timestamp_ns <= Window
    BY <1>1, <1>4, <2>1 DEF Within
  <2>3. \A x, y, z, w \in Nat : y < z /\ z - x <= w => y - x <= w
    OBVIOUS
  <2>4. Window \in Nat
    BY TrendAssumption
  <2> QED BY <1>2, <1>3, <2>2, <2>3, <2>4
<1> QED BY <1>5, <1>6 DEF Within

\* What Within says of an end of s it says of s.
LEMMA WithinEnd ==
  ASSUME NEW s \in Seq(Points), NEW m \in 1 .. Len(s), NEW j \in 1 .. Len(s) - m + 1
  PROVE  Within(SubSeq(s, m, Len(s)), j) <=> Within(s, m + j - 1)
<1> DEFINE q == SubSeq(s, m, Len(s))
<1>1. Len(s) \in Nat
  BY LenProperties
<1>2. Len(q) = Len(s) - m + 1 /\ \A k \in 1 .. Len(s) - m + 1 : q[k] = s[m + k - 1]
  BY <1>1, EndOf
<1>3. q[j] = s[m + j - 1] /\ q[Len(q)] = s[Len(s)]
  <2> HIDE DEF q
  <2>0. Len(s) - m + 1 \in 1 .. Len(s) - m + 1
    BY <1>1
  <2>1. q[Len(q)] = s[m + (Len(s) - m + 1) - 1]
    BY <1>2, <2>0
  <2>2. m + (Len(s) - m + 1) - 1 = Len(s)
    BY <1>1
  <2> QED BY <1>2, <2>1, <2>2
<1> HIDE DEF q
<1>4. Within(q, j) <=> Within(s, m + j - 1)
  <2>1. Len(q) - j + 1 = Len(s) - (m + j - 1) + 1
    BY <1>1, <1>2
  <2> QED BY <1>3, <2>1 DEF Within
<1> QED BY <1>4 DEF q

\* An end of an end.
LEMMA EndOfEnd ==
  ASSUME NEW s \in Seq(Points), NEW m \in 1 .. Len(s), NEW j \in 1 .. Len(s) - m + 1
  PROVE  SubSeq(SubSeq(s, m, Len(s)), j, Len(SubSeq(s, m, Len(s))))
            = SubSeq(s, m + j - 1, Len(s))
<1> DEFINE q == SubSeq(s, m, Len(s))
<1>1. Len(s) \in Nat
  BY LenProperties
<1>2. q \in Seq(Points) /\ Len(q) = Len(s) - m + 1
  BY <1>1, EndOf
<1>3. SubSeq(q, j, Len(q)) = SubSeq(s, m + j - 1, m + Len(q) - 1)
  <2>1. m \in 1 .. Len(s) /\ Len(s) \in 1 .. Len(s)
    BY <1>1
  <2>2. j \in 1 .. Len(s) - m + 1 /\ Len(q) \in 1 .. Len(s) - m + 1
    BY <1>1, <1>2
  <2> QED BY <2>1, <2>2, SubSeqOfSubSeq
<1>4. m + Len(q) - 1 = Len(s)
  BY <1>1, <1>2
<1> QED BY <1>3, <1>4

\* Appending to an end appends to the whole.
LEMMA AppendToEnd ==
  ASSUME NEW s \in Seq(Points), NEW e \in Points, NEW m \in 1 .. Len(s) + 1
  PROVE  Append(SubSeq(s, m, Len(s)), e) = SubSeq(Append(s, e), m, Len(Append(s, e)))
<1> DEFINE a == Append(s, e)
           p == SubSeq(s, m, Len(s))
           q == SubSeq(a, m, Len(a))
<1>1. /\ a \in Seq(Points) /\ Len(a) = Len(s) + 1 /\ Len(s) \in Nat
      /\ \A i \in 1 .. Len(s) : a[i] = s[i]
      /\ a[Len(s) + 1] = e
  BY OneMore
<1>2. /\ p \in Seq(Points) /\ Len(p) = Len(s) - m + 1
      /\ \A j \in 1 .. Len(s) - m + 1 : p[j] = s[m + j - 1]
  BY EndOf
<1>3. /\ q \in Seq(Points) /\ Len(q) = Len(a) - m + 1
      /\ \A j \in 1 .. Len(a) - m + 1 : q[j] = a[m + j - 1]
  BY <1>1, EndOf
<1>4. /\ Append(p, e) \in Seq(Points) /\ Len(Append(p, e)) = Len(p) + 1
      /\ \A i \in 1 .. Len(p) : Append(p, e)[i] = p[i]
      /\ Append(p, e)[Len(p) + 1] = e
  BY <1>2, OneMore
<1> HIDE DEF a, p, q
<1>5. ASSUME NEW i \in 1 .. Len(Append(p, e)) PROVE Append(p, e)[i] = q[i]
  <2>1. CASE i <= Len(p)
    <3>1. i \in 1 .. Len(p) /\ i \in 1 .. Len(a) - m + 1 /\ m + i - 1 \in 1 .. Len(s)
      BY <1>1, <1>2, <1>4, <2>1
    <3> QED BY <1>1, <1>2, <1>3, <1>4, <3>1
  <2>2. CASE ~(i <= Len(p))
    <3>1. i = Len(p) + 1 /\ i \in 1 .. Len(a) - m + 1 /\ m + i - 1 = Len(s) + 1
      BY <1>1, <1>2, <1>4, <2>2
    <3> QED BY <1>1, <1>3, <1>4, <3>1
  <2> QED BY <2>1, <2>2
<1>6. Len(Append(p, e)) = Len(q)
  BY <1>1, <1>2, <1>3, <1>4
<1>7. Append(p, e) = q
  BY <1>3, <1>4, <1>5, <1>6, SeqEqual
<1> QED BY <1>7 DEF a, p, q

\* Of a history and one more point, the deque keeps again the longest end that fits.
LEMMA TrimmedIsTrend ==
  ASSUME NEW s \in Seq(Points), NEW e \in Points, NEW m \in 1 .. Len(s) + 1,
         FitFrom(s, m), Sorted(Append(s, e)),
         s # <<>> => s[Len(s)].timestamp_ns < e.timestamp_ns
  PROVE  \E n \in 1 .. Len(Append(s, e)) :
            /\ Trimmed(Append(SubSeq(s, m, Len(s)), e))
                  = SubSeq(Append(s, e), n, Len(Append(s, e)))
            /\ FitFrom(Append(s, e), n)
<1> DEFINE a == Append(s, e)
           q == SubSeq(a, m, Len(a))
<1>1. a \in Seq(Points) /\ Len(a) = Len(s) + 1 /\ Len(s) \in Nat
  BY OneMore
<1>2. q = Append(SubSeq(s, m, Len(s)), e)
  BY AppendToEnd
<1>3. m \in 1 .. Len(a)
  BY <1>1
<1>4. q \in Seq(Points) /\ Len(q) = Len(a) - m + 1
  BY <1>1, EndOf
<1>5. \A j \in 1 .. Len(a) - m + 1 :
         /\ Within(q, j) <=> Within(a, m + j - 1)
         /\ SubSeq(q, j, Len(q)) = SubSeq(a, m + j - 1, Len(a))
  BY <1>1, <1>3, WithinEnd, EndOfEnd
<1>6. \A i \in 1 .. Len(s) : Within(a, i) => m <= i
  <2> SUFFICES ASSUME NEW i \in 1 .. Len(s), Within(a, i) PROVE m <= i
    OBVIOUS
  <2>1. s # <<>>
    OBVIOUS
  <2>2. Within(s, i)
    BY <2>1, WithinBefore
  <2> QED BY <2>2 DEF FitFrom
<1>7. Sorted(a)
  OBVIOUS
<1> HIDE DEF a, q
<1>8. q # <<>>
  BY <1>1, <1>3, <1>4
<1>9. PICK f \in 1 .. Len(q) :
         /\ Trimmed(q) = SubSeq(q, f, Len(q))
         /\ Within(q, f)
         /\ \A i \in 1 .. f - 1 : ~Within(q, i)
  BY <1>4, <1>8, TrimmedIsEnd
<1> DEFINE n == m + f - 1
<1>10. n \in 1 .. Len(a) /\ f \in 1 .. Len(a) - m + 1
  BY <1>1, <1>3, <1>4
<1>11. Trimmed(q) = SubSeq(a, n, Len(a)) /\ Within(a, n)
  BY <1>5, <1>9, <1>10
<1>12. ASSUME NEW i \in 1 .. Len(a), n <= i PROVE Within(a, i)
  BY <1>1, <1>7, <1>10, <1>11, <1>12, WithinLater
<1>13. ASSUME NEW i \in 1 .. Len(a), Within(a, i) PROVE n <= i
  <2>1. CASE i < m
    <3>1. i \in 1 .. Len(s)
      BY <1>1, <1>3, <2>1
    <3>2. m <= i
      BY <1>6, <1>13, <3>1
    <3> QED BY <1>1, <1>3, <2>1, <3>2
  <2>2. CASE ~(i < m)
    <3>1. i - m + 1 \in 1 .. Len(a) - m + 1 /\ m + (i - m + 1) - 1 = i
      BY <1>1, <1>3, <2>2
    <3>2. Within(q, i - m + 1)
      BY <1>5, <1>13, <3>1
    <3>3. i - m + 1 \notin 1 .. f - 1
      BY <1>9, <3>2
    <3> QED BY <1>1, <1>3, <1>10, <3>1, <3>3
  <2> QED BY <2>1, <2>2
<1>14. FitFrom(a, n)
  <2> SUFFICES ASSUME NEW i \in 1 .. Len(a) PROVE Within(a, i) <=> n <= i
    BY DEF FitFrom
  <2> QED BY <1>12, <1>13
<1> HIDE DEF n
<1>15. \E k \in 1 .. Len(a) : Trimmed(q) = SubSeq(a, k, Len(a)) /\ FitFrom(a, k)
  BY <1>10, <1>11, <1>14 DEF n
<1> QED BY <1>2, <1>15 DEF a

\* The points are the end of the history that fits.
Trend ==
    \E m \in 1 .. Len(accepted) + 1 :
        points = SubSeq(accepted, m, Len(accepted)) /\ FitFrom(accepted, m)

\* Points are accepted in order, and before the poll under way began.
Ordered ==
    /\ Sorted(accepted)
    /\ \A i \in 1 .. Len(accepted) :
          /\ accepted[i].timestamp_ns <= clock
          /\ stage # "idle" => accepted[i].timestamp_ns <= began

TrendInv == CpuInv /\ Ordered /\ Trend

\* The point of the poll under way is no earlier than the history; when it is later,
\* it keeps it sorted.
LEMMA PointIsLater ==
  ASSUME TrendInv, AcceptSample
  PROVE  /\ Point \in Points /\ accepted \in Seq(Points) /\ points \in Seq(Points)
         /\ Point.timestamp_ns = sample.sampled_at_ns
         /\ \A i \in 1 .. Len(accepted) : accepted[i].timestamp_ns <= Point.timestamp_ns
<1>1. Point \in Points /\ accepted \in Seq(Points) /\ points \in Seq(Points)
  BY Records DEF TrendInv, CpuInv, TypeOK
<1>2. Point.timestamp_ns = sample.sampled_at_ns
  BY DEF Point
<1>3. began <= sample.sampled_at_ns /\ stage # "idle"
  BY DEF TrendInv, CpuInv, Timing, AcceptSample
<1>4. began \in Nat /\ sample.sampled_at_ns \in Nat
  BY Numbers DEF TrendInv, CpuInv
<1>5. ASSUME NEW i \in 1 .. Len(accepted)
      PROVE  accepted[i].timestamp_ns <= Point.timestamp_ns
  <2>1. accepted[i].timestamp_ns \in Nat
    BY <1>1, StampType
  <2>2. accepted[i].timestamp_ns <= began
    BY <1>3 DEF TrendInv, Ordered
  <2> QED BY <1>2, <1>3, <1>4, <2>1, <2>2
<1> QED BY <1>1, <1>2, <1>5

Known == \E i \in DOMAIN accepted : accepted[i].timestamp_ns = sample.sampled_at_ns

\* A sample that is new to the history is later than all of it.
LEMMA NewIsLater ==
  ASSUME TrendInv, AcceptSample, ~Known
  PROVE  /\ accepted' = Append(accepted, Point)
         /\ \A i \in 1 .. Len(accepted) : accepted[i].timestamp_ns < Point.timestamp_ns
         /\ Sorted(accepted')
<1>1. accepted' = Append(accepted, Point)
  BY DEF AcceptSample, Known
<1>2. /\ Point \in Points /\ accepted \in Seq(Points)
      /\ Point.timestamp_ns = sample.sampled_at_ns
      /\ \A i \in 1 .. Len(accepted) : accepted[i].timestamp_ns <= Point.timestamp_ns
  BY PointIsLater
<1>3. DOMAIN accepted = 1 .. Len(accepted) /\ Len(accepted) \in Nat
  BY <1>2, LenProperties
<1>4. ASSUME NEW i \in 1 .. Len(accepted)
      PROVE  accepted[i].timestamp_ns < Point.timestamp_ns
  <2>1. accepted[i].timestamp_ns # Point.timestamp_ns
    BY <1>2, <1>3 DEF Known
  <2>2. accepted[i].timestamp_ns \in Nat /\ Point.timestamp_ns \in Nat
    BY <1>2, StampType DEF Points
  <2>3. accepted[i].timestamp_ns <= Point.timestamp_ns
    BY <1>2
  <2> QED BY <2>1, <2>2, <2>3
<1>5. Sorted(Append(accepted, Point))
  <2> DEFINE a == Append(accepted, Point)
  <2>1. /\ Len(a) = Len(accepted) + 1
        /\ \A i \in 1 .. Len(accepted) : a[i] = accepted[i]
        /\ a[Len(accepted) + 1] = Point
    BY <1>2, OneMore
  <2> HIDE DEF a
  <2>2. ASSUME NEW i \in 1 .. Len(a), NEW j \in 1 .. Len(a), i < j
        PROVE  a[i].timestamp_ns < a[j].timestamp_ns
    <3>1. i \in 1 .. Len(accepted)
      BY <1>3, <2>1, <2>2
    <3>2. CASE j = Len(accepted) + 1
      BY <1>4, <2>1, <3>1, <3>2
    <3>3. CASE j # Len(accepted) + 1
      <4>1. j \in 1 .. Len(accepted)
        BY <1>3, <2>1, <3>3
      <4> QED BY <2>1, <2>2, <3>1, <4>1 DEF TrendInv, Ordered, Sorted
    <3> QED BY <3>2, <3>3
  <2>3. Sorted(a)
    BY <2>2 DEF Sorted
  <2> QED BY <2>3 DEF a
<1> QED BY <1>1, <1>4, <1>5

\* The newest point of the deque is the newest of the history.
LEMMA NewestIsKept ==
  ASSUME TrendInv
  PROVE  /\ points = <<>> <=> accepted = <<>>
         /\ points # <<>> => points[Len(points)] = accepted[Len(accepted)]
<1>1. accepted \in Seq(Points)
  BY DEF TrendInv, CpuInv, TypeOK
<1>2. PICK m \in 1 .. Len(accepted) + 1 :
         points = SubSeq(accepted, m, Len(accepted)) /\ FitFrom(accepted, m)
  BY DEF TrendInv, Trend
<1>3. /\ Len(points) = Len(accepted) - m + 1
      /\ \A j \in 1 .. Len(accepted) - m + 1 : points[j] = accepted[m + j - 1]
      /\ points \in Seq(Points)
  BY <1>1, <1>2, EndOf
<1>4. Len(accepted) \in Nat
  BY <1>1, LenProperties
<1>5. CASE Len(accepted) = 0
  <2>1. Len(points) = 0
    BY <1>3, <1>4, <1>5
  <2> QED BY <1>1, <1>3, <1>5, <2>1, EmptySeq
<1>6. CASE Len(accepted) # 0
  <2>1. Within(accepted, Len(accepted))
    BY <1>4, <1>6, RoomType DEF Within
  <2>2. m <= Len(accepted)
    BY <1>2, <1>4, <1>6, <2>1 DEF FitFrom
  <2>3. points[Len(accepted) - m + 1] = accepted[m + (Len(accepted) - m + 1) - 1]
    BY <1>3, <1>4, <2>2
  <2>4. m + (Len(accepted) - m + 1) - 1 = Len(accepted) /\ Len(accepted) - m + 1 # 0
    BY <1>4, <2>2
  <2> QED BY <1>3, <1>6, <2>3, <2>4
<1> QED BY <1>5, <1>6

\* The order of the history is preserved.
LEMMA OrderedStep ==
  ASSUME TrendInv, [Next]_vars
  PROVE  Ordered'
<1>1. /\ accepted \in Seq(Points) /\ Len(accepted) \in Nat
      /\ clock \in Nat /\ began \in Nat /\ sample.sampled_at_ns \in Nat
      /\ \A i \in 1 .. Len(accepted) : accepted[i].timestamp_ns \in Nat
  BY Numbers, LenProperties, StampType DEF TrendInv, CpuInv, TypeOK
<1> USE <1>1 DEF TrendInv, CpuInv
<1>2. ASSUME UNCHANGED accepted, clock' \in Nat, clock <= clock',
             stage' # "idle" => began' = clock \/ (stage # "idle" /\ began' = began)
      PROVE  Ordered'
  BY <1>2 DEF Ordered, Sorted
<1>3. ASSUME NEW rss \in 0 .. MaxRss, ReadStatus(rss) PROVE Ordered'
  BY <1>2, <1>3 DEF ReadStatus
<1>4. CASE ReadStat \/ Stamp \/ Exit
  BY <1>2, <1>4 DEF ReadStat, Stamp, Exit, history, poll
<1>5. CASE FailSample
  BY <1>2, <1>5 DEF FailSample
<1>6. ASSUME NEW status, Reject(status) PROVE Ordered'
  BY <1>2, <1>6 DEF Reject, Done
<1>7. CASE AcceptSample
  <2>1. stage' = "idle" /\ clock' = clock
    BY <1>7 DEF AcceptSample, Done
  <2>2. CASE Known
    <3>1. UNCHANGED accepted
      BY <1>7, <2>2 DEF AcceptSample, Known
    <3> QED BY <1>2, <2>1, <3>1
  <2>3. CASE ~Known
    <3>1. /\ accepted' = Append(accepted, Point)
          /\ Sorted(accepted')
      BY <1>7, <2>3, NewIsLater
    <3>2. Point \in Points /\ Point.timestamp_ns = sample.sampled_at_ns
      BY <1>7, PointIsLater
    <3>3. sample.sampled_at_ns <= clock
      BY <1>7 DEF AcceptSample, Timing
    <3>4. ASSUME NEW i \in 1 .. Len(accepted') PROVE accepted'[i].timestamp_ns <= clock
      <4>1. /\ Len(accepted') = Len(accepted) + 1
            /\ \A j \in 1 .. Len(accepted) : accepted'[j] = accepted[j]
            /\ accepted'[Len(accepted) + 1] = Point
        BY <3>1, <3>2, OneMore
      <4>2. CASE i \in 1 .. Len(accepted)
        BY <4>1, <4>2 DEF Ordered
      <4>3. CASE i = Len(accepted) + 1
        BY <3>2, <3>3, <4>1, <4>3
      <4> QED BY <4>1, <4>2, <4>3
    <3> QED BY <2>1, <3>1, <3>4 DEF Ordered
  <2> QED BY <2>2, <2>3
<1>8. ASSUME NEW used \in {0, 1}, Tick(used) PROVE Ordered'
  BY <1>2, <1>8 DEF Tick, poll
<1>9. CASE UNCHANGED vars
  BY <1>2, <1>9 DEF vars
<1> QED BY <1>3, <1>4, <1>5, <1>6, <1>7, <1>8, <1>9
        DEF Next, AcceptUnavailable, AcceptExit

\* The trend remains the end of the history that fits.
LEMMA TrendStep ==
  ASSUME TrendInv, [Next]_vars
  PROVE  Trend'
<1>1. ASSUME UNCHANGED <<points, accepted>> PROVE Trend'
  BY <1>1 DEF TrendInv, Trend, FitFrom, Within
<1>2. CASE AcceptSample
  <2>1. /\ Point \in Points /\ accepted \in Seq(Points) /\ points \in Seq(Points)
        /\ Point.timestamp_ns = sample.sampled_at_ns
        /\ \A i \in 1 .. Len(accepted) : accepted[i].timestamp_ns <= Point.timestamp_ns
        /\ points' = Add(points, Point)
    BY <1>2, PointIsLater DEF AcceptSample
  <2>2. DOMAIN accepted = 1 .. Len(accepted) /\ Len(accepted) \in Nat
    BY <2>1, LenProperties
  <2>3. /\ points = <<>> <=> accepted = <<>>
        /\ points # <<>> => points[Len(points)] = accepted[Len(accepted)]
    BY NewestIsKept
  <2>4. CASE Known
    <3>1. PICK i \in 1 .. Len(accepted) : accepted[i].timestamp_ns = Point.timestamp_ns
      BY <2>1, <2>2, <2>4 DEF Known
    <3>2. accepted # <<>> /\ Point.timestamp_ns <= accepted[Len(accepted)].timestamp_ns
      <4>1. /\ accepted[i].timestamp_ns \in Nat
            /\ accepted[Len(accepted)].timestamp_ns \in Nat
        BY <2>1, <2>2, StampType
      <4>2. accepted[i].timestamp_ns <= accepted[Len(accepted)].timestamp_ns
        <5>1. CASE i = Len(accepted)
          BY <4>1, <5>1
        <5>2. CASE i # Len(accepted)
          <6> DEFINE newest == Len(accepted)
          <6>1. newest \in Nat /\ i \in 1 .. newest /\ i # newest
            BY <2>2, <5>2
          <6> HIDE DEF newest
          <6>2. i < newest /\ newest \in 1 .. newest
            BY <6>1
          <6>3. i < Len(accepted) /\ Len(accepted) \in 1 .. Len(accepted)
            BY <6>2 DEF newest
          <6>4. Sorted(accepted)
            BY DEF TrendInv, Ordered
          <6>5. accepted[i].timestamp_ns < accepted[Len(accepted)].timestamp_ns
            BY <6>3, <6>4 DEF Sorted
          <6> QED BY <4>1, <6>5
        <5> QED BY <5>1, <5>2
      <4> QED BY <2>2, <3>1, <4>2
    <3>3. points' = points
      BY <2>1, <2>3, <3>2 DEF Add
    <3>4. accepted' = accepted
      BY <1>2, <2>4 DEF AcceptSample, Known
    <3> QED BY <1>1, <3>3, <3>4
  <2>5. CASE ~Known
    <3>1. /\ accepted' = Append(accepted, Point)
          /\ \A i \in 1 .. Len(accepted) : accepted[i].timestamp_ns < Point.timestamp_ns
          /\ Sorted(accepted')
      BY <1>2, <2>5, NewIsLater
    <3>2. accepted # <<>> => accepted[Len(accepted)].timestamp_ns < Point.timestamp_ns
      BY <2>1, <2>2, <3>1, EmptySeq
    <3>3. points' = Trimmed(Append(points, Point))
      <4>1. CASE points = <<>>
        BY <2>1, <4>1 DEF Add
      <4>2. CASE points # <<>>
        <5>1. accepted[Len(accepted)].timestamp_ns \in Nat /\ Point.timestamp_ns \in Nat
          BY <2>1, <2>2, <2>3, <4>2, StampType, EmptySeq DEF Points
        <5>2. ~(Point.timestamp_ns <= points[Len(points)].timestamp_ns)
          BY <2>3, <3>2, <4>2, <5>1
        <5> QED BY <2>1, <5>2 DEF Add
      <4> QED BY <4>1, <4>2
    <3>4. PICK m \in 1 .. Len(accepted) + 1 :
             points = SubSeq(accepted, m, Len(accepted)) /\ FitFrom(accepted, m)
      BY DEF TrendInv, Trend
    <3>5. PICK n \in 1 .. Len(accepted') :
             points' = SubSeq(accepted', n, Len(accepted')) /\ FitFrom(accepted', n)
      BY <2>1, <3>1, <3>2, <3>3, <3>4, TrimmedIsTrend
    <3>6. Len(accepted') \in Nat
      BY <2>1, <3>1, OneMore
    <3>7. n \in 1 .. Len(accepted') + 1
      BY <3>6
    <3>8. \E k \in 1 .. Len(accepted') + 1 :
             points' = SubSeq(accepted', k, Len(accepted')) /\ FitFrom(accepted', k)
      BY <3>5, <3>7
    <3> QED BY <3>8 DEF Trend, FitFrom, Within
  <2> QED BY <2>4, <2>5
<1>3. ASSUME NEW status, Reject(status) PROVE Trend'
  BY <1>1, <1>3 DEF Reject
<1>4. ASSUME NEW rss \in 0 .. MaxRss, ReadStatus(rss) PROVE Trend'
  BY <1>1, <1>4 DEF ReadStatus, owner
<1>5. CASE ReadStat \/ Stamp \/ FailSample \/ Exit
  BY <1>1, <1>5 DEF ReadStat, Stamp, FailSample, Exit, owner, history
<1>6. ASSUME NEW used \in {0, 1}, Tick(used) PROVE Trend'
  BY <1>1, <1>6 DEF Tick, owner
<1>7. CASE UNCHANGED vars
  BY <1>1, <1>7 DEF vars
<1> QED BY <1>2, <1>3, <1>4, <1>5, <1>6, <1>7 DEF Next, AcceptUnavailable, AcceptExit

\* The end of the history that fits is the window.
LEMMA TrendIsTheWindow == TrendInv => TrendIsWindow
<1> SUFFICES ASSUME TrendInv PROVE TrendIsWindow
  OBVIOUS
<1> DEFINE kept == {i \in DOMAIN accepted :
                       \/ Newest - i < 2
                       \/ Newest - i < Capacity /\ Age(i) <= Window}
<1>1. accepted \in Seq(Points)
  BY DEF TrendInv, CpuInv, TypeOK
<1>2. PICK m \in 1 .. Len(accepted) + 1 :
         points = SubSeq(accepted, m, Len(accepted)) /\ FitFrom(accepted, m)
  BY DEF TrendInv, Trend
<1>3. Newest = Len(accepted) /\ Newest \in Nat /\ DOMAIN accepted = 1 .. Newest
  BY <1>1, LenProperties DEF Newest
<1>4. kept = m .. Newest
  <2>1. ASSUME NEW i \in 1 .. Newest PROVE i \in kept <=> m <= i
    <3>1. Within(accepted, i) <=> m <= i
      BY <1>2, <1>3 DEF FitFrom
    <3>2. i \in kept <=> Within(accepted, i)
      BY <1>3, RoomType, TrendAssumption DEF Within, Age, Room
    <3> QED BY <3>1, <3>2
  <2>2. kept \subseteq 1 .. Newest
    BY <1>3
  <2> HIDE DEF kept
  <2>3. ASSUME NEW i PROVE i \in kept <=> i \in m .. Newest
    <3>1. i \in m .. Newest <=> i \in 1 .. Newest /\ m <= i
      BY <1>3
    <3> QED BY <2>1, <2>2, <3>1
  <2> QED BY <2>3
<1>5. Cardinality(kept) = Newest - m + 1
  <2>1. m \in Int /\ Newest \in Int
    BY <1>3
  <2>2. Cardinality(m .. Newest) = IF m > Newest THEN 0 ELSE Newest - m + 1
    BY <2>1, FS_Interval
  <2> HIDE DEF kept
  <2> QED BY <1>3, <1>4, <2>2
<1>6. /\ points \in Seq(Points)
      /\ Len(points) = Newest - m + 1
      /\ \A j \in 1 .. Newest - m + 1 : points[j] = accepted[m + j - 1]
  BY <1>1, <1>2, <1>3, EndOf
<1> HIDE DEF kept
<1>7. points = [i \in 1 .. Cardinality(kept) |-> accepted[Newest - Cardinality(kept) + i]]
  <2>1. points \in [1 .. Newest - m + 1 -> Points]
    BY <1>6, LenProperties
  <2>2. \A i \in 1 .. Newest - m + 1 :
           points[i] = accepted[Newest - (Newest - m + 1) + i]
    <3> TAKE i \in 1 .. Newest - m + 1
    <3>1. Newest - (Newest - m + 1) + i = m + i - 1
      BY <1>3
    <3> QED BY <1>6, <3>1
  <2>3. points = [i \in 1 .. Newest - m + 1 |-> accepted[Newest - (Newest - m + 1) + i]]
    BY <2>1, <2>2
  <2> QED BY <1>5, <2>3
<1> QED BY <1>7 DEF TrendIsWindow, kept

\* The trend and its history throughout.
LEMMA TrendInvariant == Spec => []TrendInv
<1>1. Init => Ordered /\ Trend
  <2> SUFFICES ASSUME Init PROVE Ordered /\ Trend
    OBVIOUS
  <2>1. accepted = <<>> /\ points = <<>> /\ Len(<<>>) = 0
    BY DEF Init
  <2>2. Ordered
    BY <2>1 DEF Ordered, Sorted
  <2>3. points = SubSeq(accepted, 1, Len(accepted)) /\ FitFrom(accepted, 1)
    <3>1. SubSeq(accepted, 1, 0) = <<>>
      BY SubSeqEmpty
    <3> QED BY <2>1, <3>1 DEF FitFrom
  <2> QED BY <2>1, <2>2, <2>3 DEF Trend
<1>2. CpuInv /\ CpuInv' /\ Ordered /\ Trend /\ [Next]_vars => Ordered' /\ Trend'
  BY OrderedStep, TrendStep DEF TrendInv
<1> QED BY <1>1, <1>2, CpuInvariant, PTL DEF Spec, TrendInv

\* The memory trend is, for every capacity and window, what the history of accepted
\* samples leaves of it: exactly the samples within both bounds, and the latest two.
THEOREM TrendIsWindowAlways == Spec => []TrendIsWindow
BY TrendInvariant, TrendIsTheWindow, PTL

-----------------------------------------------------------------------------
(***************************************************************************)
(* What the trend is summed up to.                                         *)
(***************************************************************************)

\* An observation, with or without a sample of its own, sums up the points there are.
SummaryInv == latest.sustained_growth = Summary(points)

\* It always does: nothing but an observation changes the points.
LEMMA SummaryTheorem == Spec => []SummaryInv
<1>1. Init => SummaryInv
  BY DEF Init, SummaryInv, Summary, SustainedGrowth, Observation
<1>2. SummaryInv /\ [Next]_vars => SummaryInv'
  <2> SUFFICES ASSUME SummaryInv, [Next]_vars PROVE SummaryInv'
    OBVIOUS
  <2>1. ASSUME NEW status, Reject(status) PROVE SummaryInv'
    <3>1. latest'.sustained_growth = Summary(points) /\ points' = points
      BY <2>1 DEF Reject, Observation
    <3> QED BY <3>1 DEF SummaryInv, Summary
  <2>2. CASE AcceptSample
    BY <2>2 DEF AcceptSample, Observation, SummaryInv, Summary
  <2>3. CASE UNCHANGED <<points, latest>>
    BY <2>3 DEF SummaryInv, Summary
  <2> QED
    BY <2>1, <2>2, <2>3
       DEF Next, ReadStatus, ReadStat, Stamp, FailSample, AcceptUnavailable, AcceptExit,
           Tick, Exit, owner, vars
<1> QED BY <1>1, <1>2, PTL DEF Spec

\* The points are the latest of the history, as many as there is room for.
LEMMA PointsAreLatest ==
  ASSUME TrendInv
  PROVE  /\ accepted \in Seq(Points) /\ points \in Seq(Points)
         /\ DOMAIN accepted = 1 .. Newest /\ Newest \in Nat
         /\ Len(points) \in Nat /\ Len(points) <= Newest /\ Len(points) <= Room
         /\ \A j \in 1 .. Len(points) : points[j] = accepted[Newest - Len(points) + j]
         /\ \A i \in 1 .. Newest : Within(accepted, i) <=> Newest - Len(points) < i
<1>1. accepted \in Seq(Points)
  BY DEF TrendInv, CpuInv, TypeOK
<1>2. PICK m \in 1 .. Len(accepted) + 1 :
         points = SubSeq(accepted, m, Len(accepted)) /\ FitFrom(accepted, m)
  BY DEF TrendInv, Trend
<1>3. Newest = Len(accepted) /\ Newest \in Nat /\ DOMAIN accepted = 1 .. Newest
  BY <1>1, LenProperties DEF Newest
<1>4. /\ points \in Seq(Points)
      /\ Len(points) = Newest - m + 1
      /\ \A j \in 1 .. Newest - m + 1 : points[j] = accepted[m + j - 1]
  BY <1>1, <1>2, <1>3, EndOf
<1>5. Len(points) \in Nat /\ Len(points) <= Newest /\ m = Newest - Len(points) + 1
  BY <1>3, <1>4
<1>6. Len(points) <= Room
  <2>1. CASE m \in 1 .. Newest
    <3>1. Within(accepted, m)
      BY <1>2, <1>3, <2>1 DEF FitFrom
    <3> QED BY <1>3, <1>4, <3>1 DEF Within
  <2>2. CASE m = Newest + 1
    BY <1>3, <1>4, <2>2, RoomType
  <2> QED BY <1>3, <2>1, <2>2
<1>7. ASSUME NEW j \in 1 .. Len(points) PROVE points[j] = accepted[Newest - Len(points) + j]
  <2>1. m + j - 1 = Newest - Len(points) + j
    BY <1>3, <1>5
  <2>2. j \in 1 .. Newest - m + 1
    BY <1>4
  <2> QED BY <1>4, <2>1, <2>2
<1>8. ASSUME NEW i \in 1 .. Newest
      PROVE  Within(accepted, i) <=> Newest - Len(points) < i
  <2>1. m <= i <=> Newest - Len(points) < i
    BY <1>3, <1>5
  <2> QED BY <1>2, <1>3, <2>1 DEF FitFrom
<1> QED BY <1>1, <1>3, <1>4, <1>5, <1>6, <1>7, <1>8

\* The middle of the points is in their later half.
LEMMA Middle ==
  ASSUME NEW n \in Nat, n >= 1
  PROVE  /\ n \div 2 + 1 \in 1 .. n
         /\ 2 * (n \div 2) <= n /\ n <= 2 * (n \div 2) + 1
OBVIOUS

\* Whatever the capacity and the window, the alarm is over once half of the latest
\* samples, as many as there is room for, are at one level.
THEOREM PlateauClearsAlways == Spec => []PlateauClears
<1>1. TrendInv /\ SummaryInv => PlateauClears
  <2> SUFFICES ASSUME TrendInv, SummaryInv, NEW k \in DOMAIN accepted,
                      \A i \in Newest - k + 1 .. Newest :
                          accepted[i].rss_bytes = accepted[Newest].rss_bytes,
                      2 * k >= Newest \/ 2 * k >= Room
               PROVE  latest.sustained_growth = 0
    BY DEF PlateauClears
  <2> DEFINE n == Len(points)
             middle == n \div 2 + 1
  <2>1. /\ k \in 1 .. Newest /\ Newest \in Nat
        /\ n \in Nat /\ n <= Newest /\ n <= Room /\ Room \in Nat
        /\ \A j \in 1 .. n : points[j] = accepted[Newest - n + j]
    BY PointsAreLatest, RoomType
  <2>2. n <= 2 * k
    BY <2>1
  <2>3. ASSUME n >= 4 PROVE ~BothHalvesRise(points)
    <3>1. middle \in 1 .. n /\ 2 * (n \div 2) <= n /\ n <= 2 * (n \div 2) + 1
      BY <2>1, <2>3, Middle
    <3> HIDE DEF middle
    <3>2. middle \in Nat /\ n + 1 <= 2 * middle /\ middle <= n
      BY <2>1, <3>1 DEF middle
    <3>3. /\ Newest - n + middle \in Newest - k + 1 .. Newest
          /\ Newest - n + n = Newest /\ n \in 1 .. n
      BY <2>1, <2>2, <2>3, <3>2
    <3>4. points[middle].rss_bytes = points[n].rss_bytes
      BY <2>1, <3>1, <3>3
    <3>5. points[n] \in Points
      BY <3>3, PointsAreLatest, ElementOfSeq
    <3>6. points[n].rss_bytes \in Nat
      BY <3>5 DEF Points
    <3> QED BY <3>4, <3>6 DEF BothHalvesRise, Midpoint, middle
  <2>4. ~SustainedGrowth(points)
    BY <2>3 DEF SustainedGrowth
  <2> QED BY <2>4 DEF SummaryInv, Summary
<1> QED BY <1>1, TrendInvariant, SummaryTheorem, PTL

-----------------------------------------------------------------------------
(***************************************************************************)
(* Sums.  MapThenSumSet adds up a set by taking away one element after the *)
(* other; that this is well defined, and that a sum of positive numbers is *)
(* positive, is shown for the smallest set for which it might fail.        *)
(***************************************************************************)

\* The element that is added next.
Pick(s) == CHOOSE x \in s : TRUE

\* What a sum of the values w over s is, given the sums g over smaller sets.
Sum(w, g, s) == IF s = {} THEN 0 ELSE w[Pick(s)] + g[s \ {Pick(s)}]

\* Taking away that element leaves a set smaller by one.
LEMMA Smaller ==
  ASSUME NEW s, IsFiniteSet(s), s # {}
  PROVE  /\ Pick(s) \in s /\ s \ {Pick(s)} \subseteq s
         /\ IsFiniteSet(s \ {Pick(s)})
         /\ Cardinality(s) \in Nat /\ Cardinality(s) >= 1
         /\ Cardinality(s \ {Pick(s)}) = Cardinality(s) - 1
<1>1. Pick(s) \in s
  BY DEF Pick
<1>2. /\ IsFiniteSet(s \ {Pick(s)})
      /\ Cardinality(s \ {Pick(s)}) = Cardinality(s) - 1
  BY <1>1, FS_RemoveElement
<1>3. Cardinality(s) \in Nat /\ Cardinality(s) # 0
  BY FS_CardinalityType, FS_EmptySet
<1> QED BY <1>1, <1>2, <1>3

\* The subsets of S of no more than n elements.
UpTo(S, n) == {s \in SUBSET S : Cardinality(s) <= n}

\* g gives the sums over all of them.
Sums(w, S, n, g) == g = [s \in UpTo(S, n) |-> Sum(w, g, s)]

\* If there are sums up to a size there are those of the next.
LEMMA SumsOfNext ==
  ASSUME NEW w, NEW S, IsFiniteSet(S), NEW n \in Nat, NEW g, Sums(w, S, n, g)
  PROVE  \E h : Sums(w, S, n + 1, h)
<1> DEFINE h == [s \in UpTo(S, n + 1) |-> Sum(w, g, s)]
<1>1. ASSUME NEW s \in UpTo(S, n + 1) PROVE Sum(w, h, s) = Sum(w, g, s)
  <2>1. CASE s = {}
    BY <2>1 DEF Sum
  <2>2. CASE s # {}
    <3> DEFINE r == s \ {Pick(s)}
    <3>1. IsFiniteSet(s) /\ s \subseteq S /\ Cardinality(s) <= n + 1
      BY FS_Subset DEF UpTo
    <3>2. /\ r \subseteq S
          /\ Cardinality(s) \in Nat /\ Cardinality(r) = Cardinality(s) - 1
      BY <2>2, <3>1, Smaller
    <3>3. r \in UpTo(S, n) /\ r \in UpTo(S, n + 1)
      BY <3>1, <3>2 DEF UpTo
    <3>4. g[r] = Sum(w, g, r) /\ h[r] = Sum(w, g, r)
      BY <3>3 DEF Sums
    <3> HIDE DEF r, h
    <3>5. h[r] = g[r]
      BY <3>4
    <3> QED BY <2>2, <3>5 DEF Sum, r
  <2> QED BY <2>1, <2>2
<1>2. h = [s \in UpTo(S, n + 1) |-> Sum(w, h, s)]
  BY <1>1
<1> QED BY <1>2 DEF Sums

\* There are sums over all subsets of a finite set.
LEMMA SumsExist ==
  ASSUME NEW w, NEW S, IsFiniteSet(S)
  PROVE  \E g : g = [s \in SUBSET S |-> Sum(w, g, s)]
<1> DEFINE T == {n \in Nat : ~ \E g : Sums(w, S, n, g)}
<1>1. \E g : Sums(w, S, 0, g)
  <2> DEFINE g == [s \in UpTo(S, 0) |-> 0]
  <2>1. ASSUME NEW s \in UpTo(S, 0) PROVE Sum(w, g, s) = 0
    <3>1. IsFiniteSet(s) /\ Cardinality(s) <= 0
      BY FS_Subset DEF UpTo
    <3>2. s # {} => Cardinality(s) \in Nat /\ Cardinality(s) >= 1
      BY <3>1, Smaller
    <3>3. s = {}
      BY <3>1, <3>2
    <3> QED BY <3>3 DEF Sum
  <2>2. g = [s \in UpTo(S, 0) |-> Sum(w, g, s)]
    BY <2>1
  <2> QED BY <2>2 DEF Sums
<1>2. T = {}
  <2> SUFFICES ASSUME T # {} PROVE FALSE
    OBVIOUS
  <2>1. PICK n \in T : \A m \in T : n <= m
    BY Least
  <2>2. n \in Nat /\ n # 0 /\ n - 1 \in Nat /\ n - 1 \notin T
    BY <1>1, <2>1
  <2>3. PICK g : Sums(w, S, n - 1, g)
    BY <2>2
  <2>4. \E h : Sums(w, S, (n - 1) + 1, h)
    BY <2>2, <2>3, SumsOfNext
  <2>5. (n - 1) + 1 = n
    BY <2>2
  <2> QED BY <2>1, <2>4, <2>5
<1>3. PICK g : Sums(w, S, Cardinality(S), g)
  <2>1. Cardinality(S) \in Nat
    BY FS_CardinalityType
  <2> QED BY <1>2, <2>1
<1>4. UpTo(S, Cardinality(S)) = SUBSET S
  <2>1. \A s \in SUBSET S : Cardinality(s) <= Cardinality(S)
    BY FS_Subset
  <2> QED BY <2>1 DEF UpTo
<1> QED BY <1>3, <1>4 DEF Sums

\* A sum of positive numbers is a positive number.
LEMMA SumIsPositive ==
  ASSUME NEW w, NEW S, IsFiniteSet(S), S # {},
         \A p \in S : w[p] \in Nat /\ w[p] > 0,
         NEW g, g = [s \in SUBSET S |-> Sum(w, g, s)]
  PROVE  g[S] \in Nat /\ g[S] > 0
<1> DEFINE Good(s) == g[s] \in Nat /\ (s # {} => g[s] > 0)
           T == {n \in Nat : \E s \in SUBSET S : Cardinality(s) = n /\ ~Good(s)}
<1>1. T = {}
  <2> SUFFICES ASSUME T # {} PROVE FALSE
    OBVIOUS
  <2>1. PICK n \in T : \A m \in T : n <= m
    BY Least
  <2>2. PICK s \in SUBSET S : Cardinality(s) = n /\ ~Good(s)
    BY <2>1
  <2>3. g[s] = Sum(w, g, s)
    BY <2>2
  <2>4. s # {}
    BY <2>2, <2>3 DEF Sum
  <2> DEFINE r == s \ {Pick(s)}
  <2>5. /\ Pick(s) \in S /\ r \in SUBSET S
        /\ Cardinality(r) = n - 1 /\ n - 1 \in Nat /\ n \in Nat
    <3>1. IsFiniteSet(s)
      BY FS_Subset
    <3>2. /\ Pick(s) \in s /\ Cardinality(s) \in Nat /\ Cardinality(s) >= 1
          /\ Cardinality(s \ {Pick(s)}) = Cardinality(s) - 1
      BY <2>4, <3>1, Smaller
    <3> QED BY <2>2, <3>2
  <2>6. n - 1 \notin T
    <3> HIDE DEF T
    <3> QED BY <2>1, <2>5
  <2>7. g[r] \in Nat
    BY <2>5, <2>6
  <2>8. g[s] = w[Pick(s)] + g[r]
    BY <2>3, <2>4 DEF Sum
  <2>9. w[Pick(s)] \in Nat /\ w[Pick(s)] > 0
    BY <2>5
  <2> HIDE DEF r
  <2> QED BY <2>2, <2>7, <2>8, <2>9
<1>2. Good(S)
  <2>1. Cardinality(S) \in Nat
    BY FS_CardinalityType
  <2> QED BY <1>1, <2>1
<1> QED BY <1>2

-----------------------------------------------------------------------------
(***************************************************************************)
(* Leaks.                                                                  *)
(***************************************************************************)

\* What rises from each place to the next rises over any distance, by one per place.
LEMMA RisesThroughout ==
  ASSUME NEW n \in Nat, NEW f, \A i \in 1 .. n : f[i] \in Nat,
         \A i \in 2 .. n : f[i] > f[i - 1]
  PROVE  \A i \in 1 .. n, j \in 1 .. n : i < j => f[j] >= f[i] + (j - i)
<1> DEFINE T == {d \in Nat : /\ d >= 1
                             /\ \E i \in 1 .. n : i + d \in 1 .. n /\ ~(f[i + d] >= f[i] + d)}
<1>1. T = {}
  <2> SUFFICES ASSUME T # {} PROVE FALSE
    OBVIOUS
  <2>1. PICK d \in T : \A e \in T : d <= e
    BY Least
  <2>2. PICK i \in 1 .. n : i + d \in 1 .. n /\ ~(f[i + d] >= f[i] + d)
    BY <2>1
  <2>3. d \in Nat /\ d >= 1
    BY <2>1
  <2>4. d - 1 \notin T
    <3> HIDE DEF T
    <3> QED BY <2>1, <2>3
  <2>5. i + d \in 2 .. n /\ (i + d) - 1 = i + (d - 1) /\ i + (d - 1) \in 1 .. n
    BY <2>2, <2>3
  <2>6. f[i + d] > f[i + (d - 1)]
    BY <2>5
  <2>7. f[i + (d - 1)] >= f[i] + (d - 1)
    <3>1. CASE d = 1
      <4>1. i + (d - 1) = i /\ f[i] + (d - 1) = f[i]
        BY <3>1
      <4> QED BY <4>1
    <3>2. CASE d # 1
      BY <2>3, <2>4, <2>5, <3>2
    <3> QED BY <3>1, <3>2
  <2>8. f[i + d] \in Nat /\ f[i + (d - 1)] \in Nat /\ f[i] \in Nat
    BY <2>2, <2>5
  <2> HIDE DEF T
  <2> QED BY <2>2, <2>3, <2>6, <2>7, <2>8
<1>2. ASSUME NEW i \in 1 .. n, NEW j \in 1 .. n, i < j PROVE f[j] >= f[i] + (j - i)
  <2>1. j - i \in Nat /\ j - i >= 1 /\ i + (j - i) = j
    <3> HIDE DEF T
    <3> QED BY <1>2
  <2>2. j - i \notin T
    BY <1>1
  <2> QED BY <1>2, <2>1, <2>2
<1> QED BY <1>2

\* Time and memory rise from each point to the next.
Rising(s) ==
    \A i \in 2 .. Len(s) : /\ s[i].timestamp_ns > s[i - 1].timestamp_ns
                           /\ s[i].rss_bytes > s[i - 1].rss_bytes

\* They rise from each point to every later one.
LEMMA RisingPairs ==
  ASSUME NEW s \in Seq(Points), Rising(s)
  PROVE  /\ Len(s) \in Nat
         /\ \A i \in 1 .. Len(s) : s[i].timestamp_ns \in Nat /\ s[i].rss_bytes \in Nat
         /\ \A i \in 1 .. Len(s), j \in 1 .. Len(s) : i < j =>
               /\ s[j].timestamp_ns >= s[i].timestamp_ns + (j - i)
               /\ s[j].rss_bytes >= s[i].rss_bytes + (j - i)
<1> DEFINE time == [i \in 1 .. Len(s) |-> s[i].timestamp_ns]
           rss == [i \in 1 .. Len(s) |-> s[i].rss_bytes]
<1>1. Len(s) \in Nat
  BY LenProperties
<1>2. \A i \in 1 .. Len(s) : s[i].timestamp_ns \in Nat /\ s[i].rss_bytes \in Nat
  <2> TAKE i \in 1 .. Len(s)
  <2>1. s[i] \in Points
    BY ElementOfSeq
  <2> QED BY <2>1 DEF Points
<1>3. \A i \in 2 .. Len(s) : i \in 1 .. Len(s) /\ i - 1 \in 1 .. Len(s)
  BY <1>1
<1>4. /\ \A i \in 1 .. Len(s) : time[i] \in Nat /\ rss[i] \in Nat
      /\ \A i \in 2 .. Len(s) : time[i] > time[i - 1] /\ rss[i] > rss[i - 1]
  BY <1>2, <1>3 DEF Rising
<1>5. \A i \in 1 .. Len(s), j \in 1 .. Len(s) : i < j => time[j] >= time[i] + (j - i)
  <2> HIDE DEF time
  <2> QED BY <1>1, <1>4, RisesThroughout
<1>6. \A i \in 1 .. Len(s), j \in 1 .. Len(s) : i < j => rss[j] >= rss[i] + (j - i)
  <2> HIDE DEF rss
  <2> QED BY <1>1, <1>4, RisesThroughout
<1> QED BY <1>1, <1>2, <1>5, <1>6

\* What is larger by one or more is larger.
LEMMA PositiveDifference ==
  ASSUME NEW x \in Nat, NEW y \in Nat, NEW d \in Nat, d >= 1, y >= x + d
  PROVE  y - x \in Nat /\ y - x > 0
OBVIOUS

\* A product of positive numbers is positive.
LEMMA PositiveProduct ==
  ASSUME NEW a \in Nat, NEW b \in Nat, a > 0, b > 0
  PROVE  a * b \in Nat /\ a * b > 0
OBVIOUS

\* The slope of points that rise is positive: all the pairs it sums over are.
LEMMA RisingSlope ==
  ASSUME NEW s \in Seq(Points), Rising(s), Len(s) >= 2
  PROVE  Slope(s) > 0
<1> DEFINE S == {p \in (1 .. Len(s)) \X (1 .. Len(s)) : p[1] < p[2]}
           w == [p \in S |-> (s[p[2]].timestamp_ns - s[p[1]].timestamp_ns)
                             * (s[p[2]].rss_bytes - s[p[1]].rss_bytes)]
           Value(g, t) ==
               IF t = {} THEN 0
               ELSE (s[Pick(t)[2]].timestamp_ns - s[Pick(t)[1]].timestamp_ns)
                    * (s[Pick(t)[2]].rss_bytes - s[Pick(t)[1]].rss_bytes)
                    + g[t \ {Pick(t)}]
           sums == CHOOSE g : g = [t \in SUBSET S |-> Value(g, t)]
<1>1. Slope(s) = sums[S]
  BY Zenon DEF Slope, MapThenSumSet, MapThenFoldSet, Pick
<1>2. IsFiniteSet(S) /\ S # {}
  <2>1. Len(s) \in Nat
    BY LenProperties
  <2>2. IsFiniteSet(1 .. Len(s))
    BY <2>1, FS_Interval
  <2>3. IsFiniteSet((1 .. Len(s)) \X (1 .. Len(s)))
    BY <2>2, FS_Product
  <2>4. <<1, 2>> \in S
    BY <2>1
  <2> QED BY <2>3, <2>4, FS_Subset
<1>3. \A p \in S : w[p] \in Nat /\ w[p] > 0
  <2> SUFFICES ASSUME NEW i \in 1 .. Len(s), NEW j \in 1 .. Len(s), i < j
               PROVE  w[<<i, j>>] \in Nat /\ w[<<i, j>>] > 0
    BY DEF S
  <2> DEFINE a == s[j].timestamp_ns - s[i].timestamp_ns
             b == s[j].rss_bytes - s[i].rss_bytes
  <2>1. a \in Nat /\ b \in Nat /\ a > 0 /\ b > 0
    <3> HIDE DEF w, S
    <3>1. /\ s[i].timestamp_ns \in Nat /\ s[i].rss_bytes \in Nat
          /\ s[j].timestamp_ns \in Nat /\ s[j].rss_bytes \in Nat
          /\ s[j].timestamp_ns >= s[i].timestamp_ns + (j - i)
          /\ s[j].rss_bytes >= s[i].rss_bytes + (j - i)
      BY RisingPairs
    <3>2. j - i \in Nat /\ j - i >= 1
      OBVIOUS
    <3> QED BY <3>1, <3>2, PositiveDifference
  <2>2. w[<<i, j>>] = a * b
    OBVIOUS
  <2> HIDE DEF a, b, w
  <2> QED BY <2>1, <2>2, PositiveProduct
<1>4. \A g : \A t \in SUBSET S : Value(g, t) = Sum(w, g, t)
  <2> TAKE g
  <2> TAKE t \in SUBSET S
  <2>1. CASE t = {}
    BY <2>1 DEF Sum
  <2>2. CASE t # {}
    <3>1. Pick(t) \in S
      BY <2>2 DEF Pick
    <3>2. w[Pick(t)] = (s[Pick(t)[2]].timestamp_ns - s[Pick(t)[1]].timestamp_ns)
                       * (s[Pick(t)[2]].rss_bytes - s[Pick(t)[1]].rss_bytes)
      BY <3>1
    <3> HIDE DEF w, S
    <3> QED BY <2>2, <3>2 DEF Sum
  <2> QED BY <2>1, <2>2
<1> HIDE DEF w, S, Value
<1>5. \A g : [t \in SUBSET S |-> Value(g, t)] = [t \in SUBSET S |-> Sum(w, g, t)]
  BY <1>4
<1>6. \E g : g = [t \in SUBSET S |-> Value(g, t)]
  <2>1. PICK g : g = [t \in SUBSET S |-> Sum(w, g, t)]
    BY <1>2, SumsExist
  <2>2. g = [t \in SUBSET S |-> Value(g, t)]
    BY <1>5, <2>1
  <2> QED BY <2>2
<1>7. sums = [t \in SUBSET S |-> Value(sums, t)]
  BY <1>6
<1> HIDE DEF sums
<1>8. sums = [t \in SUBSET S |-> Sum(w, sums, t)]
  BY <1>5, <1>7
<1>9. sums[S] > 0
  BY <1>2, <1>3, <1>8, SumIsPositive
<1> QED BY <1>1, <1>9

\* Points that rise throughout pass every test of summary.
LEMMA RisingIsSustained ==
  ASSUME NEW s \in Seq(Points), Rising(s), Len(s) >= 4, LongEnough(s)
  PROVE  SustainedGrowth(s)
<1> DEFINE n == Len(s)
<1>1. n \in Nat /\ n >= 4
  BY LenProperties
<1>2. \A i \in 1 .. n, j \in 1 .. n : i < j => s[j].rss_bytes > s[i].rss_bytes
  BY RisingPairs
<1>3. Increasing(s) = 2 .. n
  BY DEF Increasing, Rising
<1>4. Nondecreasing(s) = 2 .. n
  <2>1. \A i \in 2 .. n : i \in 1 .. n /\ i - 1 \in 1 .. n
    BY <1>1
  <2>2. \A i \in 2 .. n : s[i].rss_bytes >= s[i - 1].rss_bytes
    <3> TAKE i \in 2 .. n
    <3>1. s[i].rss_bytes \in Nat /\ s[i - 1].rss_bytes \in Nat
      BY <2>1, RisingPairs
    <3>2. s[i].rss_bytes > s[i - 1].rss_bytes
      BY DEF Rising
    <3> QED BY <3>1, <3>2
  <2> QED BY <2>2 DEF Nondecreasing
<1>5. Cardinality(2 .. n) = n - 1
  BY <1>1, FS_Interval
<1>6. /\ (n - 1) * 3 >= (n - 1) * 2 /\ n - 1 >= 2 /\ (n - 1) * 5 >= n - 1
  BY <1>1
<1>7. s[n].rss_bytes > s[1].rss_bytes
  BY <1>1, <1>2
<1>8. BothHalvesRise(s)
  <2> DEFINE middle == n \div 2 + 1
  <2>1. middle \in 1 .. n /\ 2 * (n \div 2) <= n /\ n <= 2 * (n \div 2) + 1
    BY <1>1, Middle
  <2>2. 1 < middle /\ middle < n
    BY <1>1, <2>1
  <2> HIDE DEF middle
  <2>3. s[middle].rss_bytes > s[1].rss_bytes /\ s[n].rss_bytes > s[middle].rss_bytes
    BY <1>1, <1>2, <2>1, <2>2
  <2> QED BY <2>3 DEF BothHalvesRise, Midpoint, middle
<1>9. Slope(s) > 0
  BY <1>1, RisingSlope
<1> QED BY <1>1, <1>3, <1>4, <1>5, <1>6, <1>7, <1>8, <1>9 DEF SustainedGrowth

\* The points of a leak: the deque keeps at least four of those within the window, no
\* others, and they span the time required, be it that of the window or, when the
\* capacity cuts it off, that of as many polls.
LEMMA LeakingPoints ==
  ASSUME TrendInv, Capacity >= 4, Capacity - 1 >= Required, Leaking
  PROVE  Len(points) >= 4 /\ Rising(points) /\ LongEnough(points)
<1> DEFINE n == Len(points)
           stamp(i) == accepted[i].timestamp_ns
<1>1. /\ accepted \in Seq(Points) /\ points \in Seq(Points)
      /\ DOMAIN accepted = 1 .. Newest /\ Newest \in Nat /\ Newest = Len(accepted)
      /\ n \in Nat /\ n <= Newest
      /\ \A j \in 1 .. n : points[j] = accepted[Newest - n + j]
      /\ \A i \in 1 .. Newest : Within(accepted, i) <=> Newest - n < i
  BY PointsAreLatest DEF Newest
<1>2. /\ \A i \in 1 .. Newest : stamp(i) \in Nat
      /\ \A i \in 1 .. Newest, j \in 1 .. Newest : i < j => stamp(i) < stamp(j)
  BY <1>1, StampType DEF TrendInv, Ordered, Sorted
<1>3. Room = Capacity /\ Capacity \in Nat /\ Window \in Nat /\ Required \in Nat
  BY TrendAssumption DEF Room, Required
<1>4. Recent \subseteq 1 .. Newest /\ Newest >= 1 /\ Newest \in 1 .. Newest
  <2>1. Recent \subseteq 1 .. Newest
    BY <1>1 DEF Recent
  <2>2. PICK i \in Recent : Age(i) >= Required
    BY DEF Leaking
  <2>3. i \in 1 .. Newest /\ Newest \in Nat
    BY <1>1, <2>1
  <2> QED BY <2>1, <2>3
<1>5. ASSUME NEW i \in 1 .. Newest
      PROVE  /\ Age(i) \in Nat /\ (i \in Recent <=> Age(i) <= Window)
             /\ Within(accepted, i) <=> /\ Newest - i + 1 <= Capacity
                                        /\ Newest - i + 1 > 2 => Age(i) <= Window
  <2>1. Age(i) = stamp(Newest) - stamp(i) /\ (i \in Recent <=> Age(i) <= Window)
    BY <1>1 DEF Age, Recent
  <2>2. i < Newest \/ i = Newest
    <3>1. Newest \in Nat
      BY <1>1
    <3> QED BY <3>1
  <2>3. Age(i) \in Nat
    BY <1>2, <1>4, <2>1, <2>2
  <2> QED BY <1>1, <1>3, <2>1, <2>3 DEF Within
<1>6. ASSUME NEW i \in 1 .. Newest, NEW j \in 1 .. Newest, i <= j
      PROVE  /\ Age(j) <= Age(i)
             /\ i \in Recent => j \in Recent
  <2>1. Age(i) = stamp(Newest) - stamp(i) /\ Age(j) = stamp(Newest) - stamp(j)
    BY DEF Age
  <2>2. stamp(i) <= stamp(j)
    BY <1>2, <1>6
  <2>3. Age(j) <= Age(i)
    BY <1>2, <1>4, <2>1, <2>2
  <2> QED BY <1>3, <1>5, <2>3
<1> HIDE DEF stamp
<1>7. \A i \in 1 .. Newest : Newest - i < 4 => i \in Recent /\ Newest >= 4
  <2>1. PICK least \in Recent : \A i \in Recent : least <= i
    BY <1>4, Least DEF Leaking
  <2>2. Recent \subseteq least .. Newest
    BY <1>4, <2>1
  <2>3. least \in 1 .. Newest
    BY <1>4, <2>1
  <2>4. IsFiniteSet(least .. Newest) /\ Cardinality(least .. Newest) = Newest - least + 1
    <3>1. least \in Int /\ Newest \in Int /\ ~(least > Newest)
      BY <1>4, <2>3
    <3> QED BY <3>1, FS_Interval
  <2>5. Cardinality(Recent) <= Newest - least + 1
    BY <2>2, <2>4, FS_Subset
  <2>6. Cardinality(Recent) \in Nat /\ Cardinality(Recent) >= 4
    BY <2>2, <2>4, FS_Subset, FS_CardinalityType DEF Leaking
  <2>7. Newest - least >= 3
    BY <1>1, <2>3, <2>5, <2>6
  <2> TAKE i \in 1 .. Newest
  <2> HAVE Newest - i < 4
  <2>8. least <= i
    BY <1>1, <2>3, <2>7
  <2>9. i \in Recent
    BY <1>6, <2>1, <2>3, <2>8
  <2> QED BY <1>1, <2>3, <2>7, <2>9
<1>8. n >= 4
  <2>1. Newest >= 4 /\ Newest - 3 \in 1 .. Newest
    BY <1>4, <1>7
  <2>2. Newest - (Newest - 3) = 3 /\ Newest \in Nat
    BY <1>1
  <2>3. Newest - 3 \in Recent
    BY <1>7, <2>1, <2>2
  <2>4. Age(Newest - 3) <= Window
    BY <1>5, <2>1, <2>3
  <2>5. Within(accepted, Newest - 3)
    BY <1>5, <2>1, <2>2, <2>4
  <2>6. Newest - n < Newest - 3
    BY <1>1, <2>1, <2>5
  <2> QED BY <1>1, <2>2, <2>6
<1>9. \A j \in 1 .. n : Newest - n + j \in Recent /\ Newest - n + j \in 1 .. Newest
  <2> TAKE j \in 1 .. n
  <2>1. Newest - n + j \in 1 .. Newest /\ Newest - n < Newest - n + j
    BY <1>1
  <2>2. Within(accepted, Newest - n + j)
    BY <1>1, <2>1
  <2> DEFINE i == Newest - n + j
  <2> HIDE DEF i
  <2>3. i \in 1 .. Newest /\ Within(accepted, i) /\ Newest \in Nat
    BY <1>1, <2>1, <2>2 DEF i
  <2>4. CASE Newest - i < 4
    BY <1>7, <2>3, <2>4 DEF i
  <2>5. CASE ~(Newest - i < 4)
    <3>1. Newest - i + 1 > 2
      BY <2>3, <2>5
    <3>2. Age(i) <= Window
      BY <1>5, <2>3, <3>1
    <3> QED BY <1>5, <2>3, <3>2 DEF i
  <2> QED BY <2>4, <2>5
<1>10. Rising(points)
  <2> SUFFICES ASSUME NEW j \in 2 .. n
               PROVE  /\ points[j].timestamp_ns > points[j - 1].timestamp_ns
                      /\ points[j].rss_bytes > points[j - 1].rss_bytes
    BY DEF Rising
  <2> DEFINE i == Newest - n + j
  <2>1. j \in 1 .. n /\ j - 1 \in 1 .. n /\ i - 1 = Newest - n + (j - 1)
    BY <1>1
  <2>2. points[j] = accepted[i] /\ points[j - 1] = accepted[i - 1]
    BY <1>1, <2>1
  <2>3. i \in Recent /\ i - 1 \in Recent /\ i \in 1 .. Newest /\ i - 1 \in 1 .. Newest
    BY <1>9, <2>1
  <2> HIDE DEF i
  <2>4. accepted[i].rss_bytes > accepted[i - 1].rss_bytes
    BY <2>3 DEF Leaking
  <2>5. accepted[i - 1].timestamp_ns < accepted[i].timestamp_ns
    BY <1>2, <2>3 DEF stamp
  <2>6. accepted[i - 1].timestamp_ns \in Nat /\ accepted[i].timestamp_ns \in Nat
    BY <1>2, <2>3 DEF stamp
  <2> QED BY <2>2, <2>4, <2>5, <2>6
<1>11. LongEnough(points)
  <2> DEFINE first == Newest - n + 1
  <2>1. first \in 1 .. Newest /\ Span(points) = Age(first)
    <3>1. 1 \in 1 .. n /\ n \in 1 .. n /\ Newest - n + n = Newest
      BY <1>1, <1>8
    <3>2. points[n] = accepted[Newest] /\ points[1] = accepted[first]
      BY <1>1, <3>1
    <3> QED BY <1>9, <3>1, <3>2 DEF Span, Age
  <2>2. PICK i \in Recent : Age(i) >= Required
    BY DEF Leaking
  <2>3. i \in 1 .. Newest
    BY <1>4
  <2>4. CASE first <= i
    <3>1. Age(i) <= Age(first)
      BY <1>6, <2>1, <2>3, <2>4
    <3> QED BY <1>3, <1>5, <2>1, <2>2, <2>3, <3>1 DEF LongEnough
  <2>5. CASE i < first
    <3>1. first - 1 \in 1 .. Newest /\ i <= first - 1
      BY <1>1, <2>1, <2>3, <2>5
    <3>2. first - 1 \in Recent /\ ~Within(accepted, first - 1)
      BY <1>1, <1>6, <2>3, <3>1
    <3>3. Newest - (first - 1) + 1 > Capacity
      <4>1. Age(first - 1) <= Window
        BY <1>5, <3>1, <3>2
      <4>2. ~(Newest - (first - 1) + 1 <= Capacity)
        BY <1>5, <3>1, <3>2, <4>1
      <4>3. Newest \in Nat /\ first - 1 \in Nat
        BY <1>1, <3>1
      <4> HIDE DEF first
      <4> QED BY <1>3, <4>2, <4>3
    <3>4. n >= Capacity
      BY <1>1, <1>3, <3>3
    <3>5. Span(points) >= n - 1
      <4>1. /\ points[n].timestamp_ns \in Nat /\ points[1].timestamp_ns \in Nat
            /\ points[n].timestamp_ns >= points[1].timestamp_ns + (n - 1)
        <5>1. points \in Seq(Points) /\ 1 \in 1 .. n /\ n \in 1 .. n /\ 1 < n
          BY <1>1, <1>8
        <5>2. \A k \in 1 .. n : points[k].timestamp_ns \in Nat
          BY <1>10, <5>1, RisingPairs
        <5>3. points[n].timestamp_ns >= points[1].timestamp_ns + (n - 1)
          BY <1>10, <5>1, RisingPairs
        <5> QED BY <5>1, <5>2, <5>3
      <4>2. Span(points) = points[n].timestamp_ns - points[1].timestamp_ns
        BY DEF Span
      <4>3. n - 1 \in Int
        BY <1>1
      <4> HIDE DEF n
      <4> QED BY <4>1, <4>2, <4>3
    <3>6. Span(points) \in Nat
      BY <1>5, <2>1
    <3> QED BY <1>1, <1>3, <3>4, <3>5, <3>6 DEF LongEnough
  <2>6. first <= i \/ i < first
    BY <2>1, <2>3
  <2> QED BY <2>4, <2>5, <2>6
<1> QED BY <1>8, <1>10, <1>11

\* Whatever the capacity and the window, a process that grows from sample to sample
\* throughout the window, for as long as it takes, is reported.
THEOREM LeakReportedAlways == Spec => []LeakReported
<1>1. TrendInv /\ SummaryInv => LeakReported
  <2> SUFFICES ASSUME TrendInv, SummaryInv, Capacity >= 4, Capacity - 1 >= Required, Leaking
               PROVE  latest.sustained_growth = 1
    BY DEF LeakReported
  <2>1. Len(points) >= 4 /\ Rising(points) /\ LongEnough(points)
    BY LeakingPoints
  <2>2. points \in Seq(Points)
    BY PointsAreLatest
  <2>3. SustainedGrowth(points)
    BY <2>1, <2>2, RisingIsSustained
  <2> QED BY <2>3 DEF SummaryInv, Summary
<1> QED BY <1>1, TrendInvariant, SummaryTheorem, PTL
=============================================================================
