------------------------------ MODULE Observation ------------------------------
(***************************************************************************)
(* observed_process: the polls of one process from the attachment on, the  *)
(* sample each of them takes and what the observation makes of it and of   *)
(* the samples before: the CPU share and the memory trend.                 *)
(*                                                                         *)
(* The CPU time is read before the time stamp is taken, and the process    *)
(* runs on meanwhile.  The clock counts in units of one CPU tick and the   *)
(* process has one thread.  Which process the sample is of is the subject  *)
(* of ConsoleWatch, the heartbeats that of WatchCycle.                     *)
(***************************************************************************)
EXTENDS MemoryTrend

CONSTANTS
    PollDelay,     \* longest time a poll takes
    MaxClock,      \* bound of the model: the clock stops there
    MaxRss,        \* bound of the model: resident memory of the process
    MaxEvents      \* bound of the model: see events

ASSUME ObservationAssumption ==
    {PollDelay, MaxClock, MaxRss, MaxEvents} \subseteq Nat

VARIABLES
    clock,       \* the monotonic clock
    cpu_ticks,   \* CPU time the process has used
    alive,       \* 1 until the process exits
    stage,       \* what the poll does next, "idle" between polls
    began,       \* when the poll began
    sample,      \* of the poll under way
    previous,    \* previous_: the sample to take the CPU share against
    points,      \* points_ of memory_
    latest,      \* latest_
    accepted,    \* history: every point of an accepted sample, one at a time stamp
    events       \* history: changes of memory, units of CPU time, failed samples and
                 \* delays of a poll, in all

process == <<cpu_ticks, alive>>
poll    == <<stage, began, sample>>
owner   == <<previous, points, latest>>
history == <<accepted, events>>
vars == <<clock, cpu_ticks, alive, stage, began, sample, previous, points, latest,
          accepted, events>>

\* The clock starts at one: a sample of time 0 is none.
NoSample == [rss_bytes |-> 0, cpu_ticks |-> 0, sampled_at_ns |-> 0]

\* The share is ticks over elapsed; one without elapsed time is none.
NoShare == [ticks |-> 0, elapsed |-> 0]

\* n of the events that the model bounds.
Events(n) == events + n <= MaxEvents /\ events' = events + n

Exists(s) == s.sampled_at_ns # 0

Observation(status, s, share, growth) ==
    [status |-> status, sample |-> s, cpu_percent |-> share, sustained_growth |-> growth]

Summary(trend) == IF SustainedGrowth(trend) THEN 1 ELSE 0

-----------------------------------------------------------------------------
(***************************************************************************)
(* sample_process.                                                         *)
(***************************************************************************)

\* /proc/PID/status comes first; resident memory may be anything.
ReadStatus(rss) ==
    /\ stage = "idle"
    /\ alive = 1
    /\ stage' = "stat"
    /\ began' = clock
    /\ sample' = [NoSample EXCEPT !.rss_bytes = rss]
    /\ Events(IF points = <<>> \/ rss = points[Len(points)].rss_bytes THEN 0 ELSE 1)
    /\ UNCHANGED <<clock, accepted>>
    /\ UNCHANGED process
    /\ UNCHANGED owner

\* /proc/PID/stat, there also for a zombie.
ReadStat ==
    /\ stage = "stat"
    /\ stage' = "stamp"
    /\ sample' = [sample EXCEPT !.cpu_ticks = cpu_ticks]
    /\ UNCHANGED <<clock, began>>
    /\ UNCHANGED process
    /\ UNCHANGED owner
    /\ UNCHANGED history

Stamp ==
    /\ stage = "stamp"
    /\ stage' = "sampled"
    /\ sample' = [sample EXCEPT !.sampled_at_ns = clock]
    /\ UNCHANGED <<clock, began>>
    /\ UNCHANGED process
    /\ UNCHANGED owner
    /\ UNCHANGED history

\* One of the files cannot be read, or says no resident memory.
FailSample ==
    /\ stage \in {"idle", "stat"}
    /\ Events(alive)
    /\ stage' = "sampled"
    /\ began' = IF stage = "idle" THEN clock ELSE began
    /\ sample' = NoSample
    /\ UNCHANGED <<clock, accepted>>
    /\ UNCHANGED process
    /\ UNCHANGED owner

-----------------------------------------------------------------------------
(***************************************************************************)
(* accept_sample, once alive has been asked and the clock been read.       *)
(***************************************************************************)

Done ==
    /\ stage' = "idle"
    /\ began' = 0
    /\ sample' = NoSample
    /\ UNCHANGED clock
    /\ UNCHANGED process
    /\ UNCHANGED events

\* Mutant: the sample before the gap stays.
PreviousStays == previous

\* previous_.reset().
PreviousReset == NoSample

\* No sample, or none of a process that is alive: the trend is summed up as it was.
Reject(status) ==
    /\ latest' = Observation(status, NoSample, NoShare, Summary(points))
    /\ previous' = PreviousReset
    /\ UNCHANGED <<points, accepted>>
    /\ Done

AcceptUnavailable ==
    /\ stage = "sampled"
    /\ alive = 1
    /\ ~Exists(sample)
    /\ Reject("sample_unavailable")

AcceptExit ==
    /\ stage = "sampled"
    /\ alive = 0
    /\ Reject("exited")

\* There is an earlier sample to compare with, and its counter was no higher.
HasBaseline ==
    /\ Exists(previous)
    /\ sample.sampled_at_ns > previous.sampled_at_ns
    /\ sample.cpu_ticks >= previous.cpu_ticks

\* Mutant: all the time the process has used so far.
TotalTicks == sample.cpu_ticks

UsedTicks == sample.cpu_ticks - previous.cpu_ticks

CpuPercent ==
    IF HasBaseline
    THEN [ticks   |-> UsedTicks,
          elapsed |-> sample.sampled_at_ns - previous.sampled_at_ns]
    ELSE NoShare

Point == [timestamp_ns |-> sample.sampled_at_ns, rss_bytes |-> sample.rss_bytes]

AcceptSample ==
    /\ stage = "sampled"
    /\ alive = 1
    /\ Exists(sample)
    /\ points' = Add(points, Point)
    /\ latest' = Observation("sampled", sample, CpuPercent, Summary(points'))
    /\ previous' = sample
    /\ accepted' = IF \E i \in DOMAIN accepted :
                         accepted[i].timestamp_ns = sample.sampled_at_ns
                   THEN accepted ELSE Append(accepted, Point)
    /\ Done

-----------------------------------------------------------------------------
\* Time passes and the process may use it.
Tick(used) ==
    /\ clock < MaxClock
    /\ stage # "idle" => clock < began + PollDelay
    /\ alive = 0 => used = 0
    /\ clock' = clock + 1
    /\ cpu_ticks' = cpu_ticks + used
    /\ Events(IF stage = "idle" THEN used ELSE used + 1)
    /\ UNCHANGED <<alive, accepted>>
    /\ UNCHANGED poll
    /\ UNCHANGED owner

Exit ==
    /\ alive = 1
    /\ alive' = 0
    /\ UNCHANGED <<clock, cpu_ticks>>
    /\ UNCHANGED poll
    /\ UNCHANGED owner
    /\ UNCHANGED history

Init ==
    /\ clock = 1
    /\ cpu_ticks = 0
    /\ alive = 1
    /\ stage = "idle"
    /\ began = 0
    /\ sample = NoSample
    /\ previous = NoSample
    /\ points = <<>>
    /\ latest = Observation("not_attached", NoSample, NoShare, 0)
    /\ accepted = <<>>
    /\ events = 0

Next ==
    \/ \E rss \in 0 .. MaxRss : ReadStatus(rss)
    \/ ReadStat \/ Stamp \/ FailSample
    \/ AcceptUnavailable \/ AcceptExit \/ AcceptSample
    \/ \E used \in {0, 1} : Tick(used)
    \/ Exit

Spec == Init /\ [][Next]_vars

-----------------------------------------------------------------------------
(***************************************************************************)
(* Properties.                                                             *)
(***************************************************************************)

Points  == [timestamp_ns : Nat, rss_bytes : Nat]
Samples == [rss_bytes : Nat, cpu_ticks : Nat, sampled_at_ns : Nat]

\* The state stays within its types, the deque within its capacity.
TypeOK ==
    /\ clock \in Nat
    /\ cpu_ticks \in Nat
    /\ alive \in {0, 1}
    /\ stage \in {"idle", "stat", "stamp", "sampled"}
    /\ began \in Nat
    /\ sample \in Samples
    /\ previous \in Samples
    /\ points \in Seq(Points)
    /\ Len(points) <= Capacity \/ Len(points) <= 2
    /\ latest \in [status : {"not_attached", "sampled", "sample_unavailable", "exited"},
                   sample : Samples, cpu_percent : [ticks : Nat, elapsed : Nat],
                   sustained_growth : {0, 1}]
    /\ accepted \in Seq(Points)
    /\ events \in Nat

Newest == Len(accepted)

Age(i) == accepted[Newest].timestamp_ns - accepted[i].timestamp_ns

\* The trend is what the whole history leaves of it: the latest two samples and, as
\* far as the capacity goes, those that are no older than the window, whatever gaps
\* there were, and although points are dropped only when another one comes.
TrendIsWindow ==
    LET kept == {i \in DOMAIN accepted :
                    \/ Newest - i < 2
                    \/ Newest - i < Capacity /\ Age(i) <= Window}
    IN  points = [i \in 1 .. Cardinality(kept) |-> accepted[Newest - Cardinality(kept) + i]]

\* Samples within the window.
Recent == {i \in DOMAIN accepted : Age(i) <= Window}

\* The process has been growing from sample to sample throughout the window, for as
\* long as it takes.
Leaking ==
    /\ Cardinality(Recent) >= 4
    /\ \A i \in Recent : i - 1 \in Recent => accepted[i].rss_bytes > accepted[i - 1].rss_bytes
    /\ \E i \in Recent : Age(i) >= Required

\* No leak is missed: the capacity does not cut off a period that is long enough to
\* tell (119 polls of at least 50 ms last longer than 5 s), nor do the tests of
\* summary add up to more than they say.
LeakReported ==
    /\ Capacity >= 4
    /\ Capacity - 1 >= Required
    /\ latest.status = "sampled"
    /\ Leaking
    => latest.sustained_growth = 1

\* "avoids treating startup allocations followed by a plateau as sustained growth":
\* once half of the latest samples, as many as there is room for, are at one level,
\* the alarm is over; also in an observation without a sample of its own.
PlateauClears ==
    \A k \in DOMAIN accepted :
        /\ \A i \in Newest - k + 1 .. Newest :
              accepted[i].rss_bytes = accepted[Newest].rss_bytes
        /\ 2 * k >= Newest \/ 2 * k >= Room
        => latest.sustained_growth = 0

\* "sampling recovery establishes a new CPU baseline": a share is always that between
\* two consecutive observations, never one across an observation that failed.
CpuBetweenObservations ==
    [][latest' # latest /\ latest'.cpu_percent # NoShare =>
          /\ latest.status = "sampled"
          /\ latest'.cpu_percent.ticks = latest'.sample.cpu_ticks - latest.sample.cpu_ticks
          /\ latest'.cpu_percent.elapsed
                = latest'.sample.sampled_at_ns - latest.sample.sampled_at_ns]_vars

\* The share is no higher than what one thread can have used, up to the time the
\* previous poll took from the CPU time to the time stamp.
CpuNotInflated ==
    latest.cpu_percent.ticks <= latest.cpu_percent.elapsed + PollDelay
=============================================================================
