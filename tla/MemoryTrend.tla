------------------------------ MODULE MemoryTrend ------------------------------
(***************************************************************************)
(* memory_trend: the samples of a process's resident memory that a window  *)
(* of bounded length and duration keeps, and whether they show sustained   *)
(* growth.  The doubles of summary are replaced by exact integers.         *)
(***************************************************************************)
EXTENDS Sequences, FiniteSetsExt

CONSTANTS
    Capacity,             \* 120 in the code; at least 2 points are kept
    Window,               \* window_ns, 30 min in the code
    MinimumObservation    \* minimum_observation_ns, 5 s in the code

ASSUME TrendAssumption == {Capacity, Window, MinimumObservation} \subseteq Nat

\* The constructor raises the capacity to two.
Room == IF Capacity < 2 THEN 2 ELSE Capacity

Span(points) == points[Len(points)].timestamp_ns - points[1].timestamp_ns

\* Mutants: only one of the two bounds.
FitsRoom(points)   == Len(points) <= Room
FitsWindow(points) == Len(points) > 2 => Span(points) <= Window

\* A deque that loses nothing more at its front.
Fits(points) == Len(points) <= Room /\ (Len(points) > 2 => Span(points) <= Window)

\* pop_front until the rest fits.
Trimmed(points) ==
    LET from == Min({i \in DOMAIN points : Fits(SubSeq(points, i, Len(points)))})
    IN  SubSeq(points, from, Len(points))

\* add: a sample that is no later than the newest one is ignored.
Add(points, point) ==
    IF points # <<>> /\ point.timestamp_ns <= points[Len(points)].timestamp_ns
    THEN points ELSE Trimmed(Append(points, point))

-----------------------------------------------------------------------------
\* Intervals whose end holds at least as much as their start, and those that grow.
Nondecreasing(points) ==
    {i \in 2 .. Len(points) : points[i].rss_bytes >= points[i - 1].rss_bytes}
Increasing(points) ==
    {i \in 2 .. Len(points) : points[i].rss_bytes > points[i - 1].rss_bytes}

\* The sign of the least-squares slope, as the sum over all pairs of points.
Slope(points) ==
    MapThenSumSet(LAMBDA p : (points[p[2]].timestamp_ns - points[p[1]].timestamp_ns)
                             * (points[p[2]].rss_bytes - points[p[1]].rss_bytes),
                  {p \in (1 .. Len(points)) \X (1 .. Len(points)) : p[1] < p[2]})

\* points_[size / 2], counted from one.
Midpoint(points) == points[Len(points) \div 2 + 1].rss_bytes

\* Mutant: the halves are not compared.
RisesOverall(points) == points[Len(points)].rss_bytes > points[1].rss_bytes

\* Both halves of the window end higher than they began.
BothHalvesRise(points) ==
    /\ Midpoint(points) > points[1].rss_bytes
    /\ points[Len(points)].rss_bytes > Midpoint(points)

Required == IF Window < MinimumObservation THEN Window ELSE MinimumObservation

\* Mutant: the observation has to be longer than required.
LongerThanRequired(points) == Span(points) > Required

LongEnough(points) == Span(points) >= Required

\* summary().sustained_growth.
SustainedGrowth(points) ==
    LET intervals == Len(points) - 1 IN
    /\ Len(points) >= 4
    /\ LongEnough(points)
    /\ points[Len(points)].rss_bytes > points[1].rss_bytes
    /\ Slope(points) > 0
    /\ Cardinality(Nondecreasing(points)) * 3 >= intervals * 2
    /\ Cardinality(Increasing(points)) >= 2
    /\ Cardinality(Increasing(points)) * 5 >= intervals
    /\ BothHalvesRise(points)
=============================================================================
