-------------------------- MODULE WatchCycle_proofs --------------------------
(***************************************************************************)
(* The verdicts of WatchCycle are true for every set of channels and every *)
(* choice of the periods.  The inductive invariant has one part for each   *)
(* of the parties a verdict depends on: the lease, the throttle, the       *)
(* snapshot, the channels that are stuck, and the last verdict.            *)
(***************************************************************************)
EXTENDS WatchCycle, TLAPS

\* Nothing happened later than now.
Past ==
    /\ clock # 0
    /\ attached <= clock
    /\ taken <= clock
    /\ \A c \in Channels :
          /\ since[c] <= clock
          /\ called[c] <= clock
          /\ heartbeats[c].timestamp_ns <= clock
          /\ snapshot[c].timestamp_ns <= clock
          /\ next_heartbeat_ns[c] <= clock + Interval

\* A channel that works is called in time, and a beat since then marked it active.
Calls ==
    \A c \in working :
       /\ since[c] <= called[c]
       /\ clock <= called[c] + BeatPeriod
       /\ heartbeats[c].timestamp_ns > since[c] => heartbeats[c].active = 1

\* While a session is attached its lease runs.
Leased ==
    PollPeriod <= Duration /\ attached # 0 =>
       /\ watcher_present = 1
       /\ watcher_lease_until_ns = renewed + Duration
       /\ clock <= renewed + PollPeriod

\* While a session is attached, what holds a channel back is its latest beat, or one
\* from before the session; and a call since then was let through or held back by it.
Throttled ==
    PollPeriod <= Duration /\ attached # 0 =>
       \A c \in Channels :
          /\ \/ next_heartbeat_ns[c] <= attached + Interval
             \/ next_heartbeat_ns[c] <= heartbeats[c].timestamp_ns + Interval
          /\ c \in working /\ called[c] > since[c] /\ called[c] > attached
                => next_heartbeat_ns[c] > called[c]

\* A snapshot under way shows a recent beat on every settled channel.
Shown ==
    PollPeriod <= Duration /\ taken # 0 =>
       /\ attached # 0
       /\ clock <= taken + PollDelay
       /\ \A c \in Settled :
             /\ snapshot[c].active = 1
             /\ taken < snapshot[c].timestamp_ns + Interval + BeatPeriod

\* A channel that is stuck has not beaten since.
Stuck ==
    \A c \in Channels : c \notin working =>
       /\ heartbeats[c].timestamp_ns <= since[c]
       /\ snapshot[c].timestamp_ns <= since[c]

\* The latest verdict is one on the heartbeats at hand, unless a poll has brought others.
Judged ==
    responsiveness # "none" /\ (taken = 0 \/ news = 0) =>
       \E now \in 0 .. clock, busy \in BOOLEAN :
          responsiveness = ClassifyHealth(snapshot, now, busy)

-----------------------------------------------------------------------------
(***************************************************************************)
(* Types.                                                                  *)
(***************************************************************************)

\* A verdict is one of the names of enum class health.
LEMMA VerdictType ==
    ASSUME NEW hs, NEW now, NEW busy
    PROVE  ClassifyHealth(hs, now, busy) \in Healths
BY DEF ClassifyHealth, WithCurrent, Healths

\* A call of heartbeat is dropped: nobody watches, or it came too early ...
Dropped(c, given) ==
    /\ heartbeats'[c] = given[c]
    /\ next_heartbeat_ns'[c] = next_heartbeat_ns[c]
    /\ Watched => next_heartbeat_ns[c] > clock

\* ... or it beats.
Beats(c) ==
    /\ heartbeats'[c].active = 1
    /\ heartbeats'[c].timestamp_ns = clock
    /\ next_heartbeat_ns'[c] = clock + Interval

\* It leaves the other channels alone ...
OthersKept(c, given) ==
    \A q \in Channels \ {c} :
       /\ heartbeats'[q] = given[q]
       /\ next_heartbeat_ns'[q] = next_heartbeat_ns[q]

\* ... and a lease that runs.
LeaseKept ==
    /\ watcher_present' \in {0, 1}
    /\ watcher_lease_until_ns' = watcher_lease_until_ns
    /\ Watched => watcher_present' = watcher_present

\* What a call of heartbeat does to its channel, whatever flags it finds.
LEMMA HeartbeatStep ==
    ASSUME TypeOK, NEW c \in Channels, NEW given \in Heartbeats, HeartbeatOn(c, given)
    PROVE  /\ heartbeats' \in Heartbeats
           /\ next_heartbeat_ns' \in [Channels -> Nat]
           /\ LeaseKept
           /\ OthersKept(c, given)
           /\ Dropped(c, given) \/ Beats(c)
<1> DEFINE accepted == Watched /\ clock >= next_heartbeat_ns[c]
<1>t. /\ clock \in Nat /\ watcher_present \in {0, 1} /\ Interval \in Nat
     /\ next_heartbeat_ns \in [Channels -> Nat]
     /\ next_heartbeat_ns[c] \in Nat
  BY CycleAssumption DEF TypeOK
<1>g. LeaseKept
  BY <1>t DEF HeartbeatOn, Gate, TakenDown, LeaseKept
<1>1. CASE accepted
  <2>n. clock + Interval \in Nat
    BY <1>t
  <2>1. heartbeats' = [given EXCEPT ![c] = [active |-> 1, timestamp_ns |-> clock]]
    BY <1>1 DEF HeartbeatOn
  <2>2. next_heartbeat_ns' = [next_heartbeat_ns EXCEPT ![c] = clock + Interval]
    BY <1>1 DEF HeartbeatOn
  <2>3. heartbeats' \in Heartbeats
    BY <2>1, <1>t DEF Heartbeats
  <2>4. next_heartbeat_ns' \in [Channels -> Nat]
    BY <2>2, <2>n, <1>t
  <2>5. heartbeats'[c].active = 1 /\ heartbeats'[c].timestamp_ns = clock
    BY <2>1 DEF Heartbeats
  <2>6. Beats(c)
    BY <2>2, <2>5, <1>t DEF Beats
  <2>7. OthersKept(c, given)
    BY <2>1, <2>2, <1>t DEF Heartbeats, OthersKept
  <2> QED
    BY <1>g, <2>3, <2>4, <2>6, <2>7
<1>2. CASE ~accepted
  <2>1. heartbeats' = given
    BY <1>2 DEF HeartbeatOn
  <2>2. next_heartbeat_ns' = next_heartbeat_ns
    BY <1>2, <1>t DEF HeartbeatOn, Kept
  <2>3. Dropped(c, given)
    BY <1>2, <1>t, <2>1, <2>2 DEF Dropped
  <2>4. OthersKept(c, given)
    BY <2>1, <2>2 DEF OthersKept
  <2> QED
    BY <1>g, <1>t, <2>1, <2>2, <2>3, <2>4
<1> QED
  BY <1>1, <1>2

\* The flags set_channel_active(c, true) hands to heartbeat.
LEMMA FlagStep ==
    ASSUME heartbeats \in Heartbeats, NEW c \in Channels, NEW flag \in {0, 1}
    PROVE  /\ [heartbeats EXCEPT ![c].active = flag] \in Heartbeats
           /\ \A q \in Channels :
                 [heartbeats EXCEPT ![c].active = flag][q].timestamp_ns
                    = heartbeats[q].timestamp_ns
           /\ \A q \in Channels \ {c} :
                 [heartbeats EXCEPT ![c].active = flag][q] = heartbeats[q]
           /\ [heartbeats EXCEPT ![c].active = flag][c].active = flag
BY DEF Heartbeats

\* Every slot of a fresh object is inactive and has yet to beat.
LEMMA QuietSlots ==
    /\ Quiet \in Heartbeats
    /\ \A c \in Channels : Quiet[c].active = 0 /\ Quiet[c].timestamp_ns = 0
BY DEF Quiet, Heartbeats

\* The state stays within its types.
LEMMA TypeStep ==
    ASSUME TypeOK, [Next]_vars
    PROVE  TypeOK'
<1> USE DEF threads, slots, lease, observer
<1>a. /\ Interval \in Nat /\ Duration \in Nat
      /\ clock \in Nat /\ upsets \in Nat
      /\ clock + Duration \in Nat /\ clock + 1 \in Nat /\ upsets + 1 \in Nat
  BY CycleAssumption DEF TypeOK
<1>b. ASSUME NEW c \in Channels, Beat(c)
      PROVE  TypeOK'
  <2>1. HeartbeatOn(c, heartbeats) /\ heartbeats \in Heartbeats
    BY <1>b DEF Beat, TypeOK
  <2>2. /\ heartbeats' \in Heartbeats
        /\ next_heartbeat_ns' \in [Channels -> Nat]
        /\ LeaseKept
    BY <2>1, HeartbeatStep
  <2> QED
    BY <1>b, <2>2, <1>a DEF Beat, LeaseKept, TypeOK
<1>c. ASSUME NEW c \in Channels, Begin(c)
      PROVE  /\ working' \subseteq Channels
             /\ since' \in [Channels -> Nat]
             /\ called' \in [Channels -> Nat]
  BY <1>c, <1>a DEF Begin, TypeOK
<1>d. ASSUME NEW c \in Channels, Activate(c)
      PROVE  TypeOK'
  <2>1. /\ HeartbeatOn(c, [heartbeats EXCEPT ![c].active = 1])
        /\ [heartbeats EXCEPT ![c].active = 1] \in Heartbeats
        /\ Begin(c)
    BY <1>d, FlagStep DEF Activate, TypeOK
  <2>2. /\ heartbeats' \in Heartbeats
        /\ next_heartbeat_ns' \in [Channels -> Nat]
        /\ LeaseKept
    BY <2>1, HeartbeatStep
  <2> QED
    BY <2>1, <2>2, <1>c DEF Begin, LeaseKept, TypeOK
<1>e. ASSUME NEW c \in Channels, Resume(c)
      PROVE  TypeOK'
  BY <1>e, <1>c DEF Resume, Begin, TypeOK
<1>f. ASSUME NEW c \in Channels, Deactivate(c)
      PROVE  TypeOK'
  <2>1. heartbeats' \in Heartbeats
    BY <1>f, FlagStep DEF Deactivate, TypeOK
  <2> QED
    BY <1>f, <2>1, <1>a DEF Deactivate, Upset, TypeOK
<1>g. ASSUME NEW c \in Channels, Stall(c)
      PROVE  TypeOK'
  BY <1>g, <1>a DEF Stall, Upset, TypeOK
<1>h. CASE Restart
  BY <1>h, <1>a, QuietSlots DEF Restart, Detached, Upset, TypeOK
<1>i. CASE Attach
  BY <1>i, <1>a DEF Attach, Renew, TypeOK
<1>j. CASE Release
  BY <1>j, <1>a, QuietSlots DEF Release, Detached, Upset, TypeOK
<1>k. CASE TakeSnapshot
  BY <1>k, <1>a DEF TakeSnapshot, TypeOK
<1>l. ASSUME NEW verdict \in Healths \cup {"none"}, Observe(verdict)
      PROVE  TypeOK'
  BY <1>l, <1>a DEF Observe, Renew, TypeOK
<1>m. CASE Tick
  BY <1>m, <1>a DEF Tick, TypeOK
<1>n. CASE UNCHANGED vars
  BY <1>n DEF vars, TypeOK
<1> QED
  BY <1>b, <1>d, <1>e, <1>f, <1>g, <1>h, <1>i, <1>j, <1>k, <1>l, <1>m, <1>n, VerdictType
  DEF Next, Judge, Unsampled

-----------------------------------------------------------------------------
(***************************************************************************)
(* What the actions do to a channel.                                       *)
(***************************************************************************)

\* Nothing but a channel, its thread and its slot changed.
WatcherKept ==
    /\ clock' = clock
    /\ UNCHANGED observer

\* The thread of the channel was at work, or starts.
AtWork(c) ==
    /\ working' = working \cup {c}
    /\ called' = [called EXCEPT ![c] = clock]
    /\ \/ c \in working /\ since' = since
       \/ c \notin working /\ since' = [since EXCEPT ![c] = clock]

\* Its call was dropped, with no more than the active flag to show for it.
FlagOnly(c) ==
    /\ heartbeats'[c].timestamp_ns = heartbeats[c].timestamp_ns
    /\ heartbeats'[c].active = heartbeats[c].active \/ heartbeats'[c].active = 1
    /\ next_heartbeat_ns'[c] = next_heartbeat_ns[c]
    /\ Watched => next_heartbeat_ns[c] > clock

\* A call of heartbeat, by itself or from set_channel_active.
LEMMA CallStep ==
    ASSUME TypeOK, NEW c \in Channels, Beat(c) \/ Activate(c)
    PROVE  /\ WatcherKept
           /\ LeaseKept
           /\ AtWork(c)
           /\ OthersKept(c, heartbeats)
           /\ FlagOnly(c) \/ Beats(c)
<1>1. CASE Beat(c)
  <2>1. HeartbeatOn(c, heartbeats) /\ heartbeats \in Heartbeats
    BY <1>1 DEF Beat, TypeOK
  <2>2. /\ LeaseKept
        /\ OthersKept(c, heartbeats)
        /\ Dropped(c, heartbeats) \/ Beats(c)
    BY <2>1, HeartbeatStep
  <2>3. Dropped(c, heartbeats) => FlagOnly(c)
    BY DEF Dropped, FlagOnly
  <2>4. WatcherKept /\ AtWork(c)
    BY <1>1 DEF Beat, WatcherKept, AtWork, TypeOK
  <2> QED
    BY <2>2, <2>3, <2>4
<1>2. CASE Activate(c)
  <2> DEFINE given == [heartbeats EXCEPT ![c].active = 1]
  <2>1. /\ HeartbeatOn(c, given)
        /\ Begin(c)
    BY <1>2 DEF Activate
  <2>2. /\ given \in Heartbeats
        /\ given[c].timestamp_ns = heartbeats[c].timestamp_ns
        /\ \A q \in Channels \ {c} : given[q] = heartbeats[q]
        /\ given[c].active = 1
    BY FlagStep DEF TypeOK
  <2> HIDE DEF given
  <2>3. /\ LeaseKept
        /\ OthersKept(c, given)
        /\ Dropped(c, given) \/ Beats(c)
    BY <2>1, <2>2, HeartbeatStep
  <2>4. Dropped(c, given) => FlagOnly(c)
    BY <2>2 DEF Dropped, FlagOnly
  <2>5. OthersKept(c, heartbeats)
    BY <2>2, <2>3 DEF OthersKept
  <2>6. WatcherKept /\ AtWork(c)
    BY <2>1 DEF Begin, WatcherKept, AtWork
  <2> QED
    BY <2>3, <2>4, <2>5, <2>6
<1> QED
  BY <1>1, <1>2

\* The channel starts again, or stops, without a call of heartbeat.
Turned(c) ==
    /\ WatcherKept
    /\ UNCHANGED <<next_heartbeat_ns, watcher_present, watcher_lease_until_ns>>
    /\ since' = [since EXCEPT ![c] = clock]
    /\ \A q \in Channels : heartbeats'[q].timestamp_ns = heartbeats[q].timestamp_ns
    /\ \A q \in Channels \ {c} : heartbeats'[q].active = heartbeats[q].active

\* Resume, Deactivate and Stall turn a channel and leave all timestamps alone.
LEMMA TurnStep ==
    ASSUME TypeOK, NEW c \in Channels, Resume(c) \/ Deactivate(c) \/ Stall(c)
    PROVE  /\ Turned(c)
           /\ \/ /\ working' = working \cup {c}
                 /\ called' = [called EXCEPT ![c] = clock]
              \/ /\ working' = working \ {c}
                 /\ called' = [called EXCEPT ![c] = 0]
<1>0. heartbeats \in Heartbeats
  BY DEF TypeOK
<1>1. CASE Resume(c)
  BY <1>1 DEF Resume, Begin, Turned, WatcherKept, slots, lease
<1>2. CASE Deactivate(c)
  <2>1. /\ \A q \in Channels : heartbeats'[q].timestamp_ns = heartbeats[q].timestamp_ns
        /\ \A q \in Channels \ {c} : heartbeats'[q].active = heartbeats[q].active
    BY <1>0, <1>2, FlagStep DEF Deactivate
  <2> QED
    BY <1>2, <2>1 DEF Deactivate, Turned, WatcherKept, lease
<1>3. CASE Stall(c)
  BY <1>3 DEF Stall, Turned, WatcherKept, slots, lease
<1> QED
  BY <1>1, <1>2, <1>3

\* The numbers of a state, one by one.
LEMMA Numbers ==
    ASSUME TypeOK
    PROVE  /\ clock \in Nat /\ attached \in Nat /\ taken \in Nat /\ renewed \in Nat
           /\ Interval \in Nat \ {0} /\ BeatPeriod \in Nat \ {0} /\ Duration \in Nat
           /\ PollPeriod \in Nat /\ PollDelay \in Nat
           /\ \A c \in Channels :
                 /\ since[c] \in Nat
                 /\ called[c] \in Nat
                 /\ next_heartbeat_ns[c] \in Nat
                 /\ heartbeats[c].timestamp_ns \in Nat
                 /\ heartbeats[c].active \in {0, 1}
                 /\ snapshot[c].timestamp_ns \in Nat
                 /\ snapshot[c].active \in {0, 1}
BY CycleAssumption DEF TypeOK, Heartbeats

\* The steps of the system, as the following proofs take them.
LEMMA StepCases ==
    ASSUME TypeOK, [Next]_vars
    PROVE  \/ \E c \in Channels : Beat(c) \/ Activate(c)
           \/ \E c \in Channels : Resume(c) \/ Deactivate(c) \/ Stall(c)
           \/ Restart \/ Attach \/ Release \/ TakeSnapshot
           \/ \E busy \in BOOLEAN : Judge(busy)
           \/ Unsampled
           \/ Tick
           \/ UNCHANGED vars
BY DEF Next

-----------------------------------------------------------------------------
(***************************************************************************)
(* The parts of the invariant.                                             *)
(***************************************************************************)

\* Nothing happened later than now.
LEMMA PastStep ==
    ASSUME TypeOK, Past, [Next]_vars
    PROVE  Past'
<1> USE DEF Past
<1>0. TypeOK'
  BY TypeStep
<1>a. ASSUME NEW c \in Channels, Beat(c) \/ Activate(c)
      PROVE  Past'
  <2>1. WatcherKept /\ AtWork(c) /\ OthersKept(c, heartbeats)
    BY <1>a, CallStep
  <2>2. FlagOnly(c) \/ Beats(c)
    BY <1>a, CallStep
  <2>3. heartbeats'[c].timestamp_ns <= clock /\ next_heartbeat_ns'[c] <= clock + Interval
    BY <2>2, Numbers DEF FlagOnly, Beats
  <2>4. \A q \in Channels \ {c} :
           heartbeats'[q].timestamp_ns <= clock /\ next_heartbeat_ns'[q] <= clock + Interval
    BY <2>1 DEF OthersKept
  <2>5. \A q \in Channels : since'[q] <= clock /\ called'[q] <= clock
    BY <2>1, Numbers DEF AtWork, TypeOK
  <2> QED
    BY <2>1, <2>3, <2>4, <2>5 DEF WatcherKept, observer
<1>b. ASSUME NEW c \in Channels, Resume(c) \/ Deactivate(c) \/ Stall(c)
      PROVE  Past'
  <2>1. /\ Turned(c)
        /\ \/ called' = [called EXCEPT ![c] = clock]
           \/ called' = [called EXCEPT ![c] = 0]
    BY <1>b, TurnStep
  <2>2. \A q \in Channels : since'[q] <= clock /\ called'[q] <= clock
    BY <2>1, Numbers DEF Turned, TypeOK
  <2> QED
    BY <2>1, <2>2 DEF Turned, WatcherKept, observer
<1>c. CASE Restart
  BY <1>c, Numbers, QuietSlots DEF Restart, Detached, threads
<1>d. CASE Attach
  BY <1>d, Numbers DEF Attach, slots, threads
<1>e. CASE Release
  BY <1>e, Numbers, QuietSlots DEF Release, Detached, slots, threads
<1>f. CASE TakeSnapshot
  BY <1>f, Numbers DEF TakeSnapshot, slots, threads
<1>g. ASSUME NEW verdict, Observe(verdict)
      PROVE  Past'
  BY <1>g, Numbers DEF Observe, slots, threads
<1>h. CASE Tick
  BY <1>h, Numbers DEF Tick, slots, threads, observer
<1>i. CASE UNCHANGED vars
  BY <1>i DEF vars
<1> QED
  BY <1>a, <1>b, <1>c, <1>d, <1>e, <1>f, <1>g, <1>h, <1>i, StepCases DEF Judge, Unsampled

\* A channel that works is called in time, and is active once it has beaten.
LEMMA CallsStep ==
    ASSUME TypeOK, Past, Calls, [Next]_vars
    PROVE  Calls'
<1> USE DEF Calls
<1>a. ASSUME NEW c \in Channels, Beat(c) \/ Activate(c)
      PROVE  Calls'
  <2>1. WatcherKept /\ AtWork(c) /\ OthersKept(c, heartbeats)
    BY <1>a, CallStep
  <2>2. FlagOnly(c) \/ Beats(c)
    BY <1>a, CallStep
  <2>3. since'[c] <= clock /\ called'[c] = clock
    BY <2>1, Numbers DEF AtWork, TypeOK, Past
  <2>4. heartbeats'[c].timestamp_ns > since'[c] => heartbeats'[c].active = 1
    <3>1. CASE Beats(c)
      BY <3>1 DEF Beats
    <3>2. CASE FlagOnly(c) /\ c \in working
      <4>1. since'[c] = since[c]
        BY <2>1, <3>2 DEF AtWork
      <4> QED
        BY <3>2, <4>1 DEF FlagOnly
    <3>3. CASE FlagOnly(c) /\ c \notin working
      <4>1. since'[c] = clock
        BY <2>1, <3>3 DEF AtWork, TypeOK
      <4> QED
        BY <3>3, <4>1, Numbers DEF FlagOnly, Past
    <3> QED
      BY <2>2, <3>1, <3>2, <3>3
  <2>5. ASSUME NEW q \in working', q # c
        PROVE  /\ q \in working
               /\ heartbeats'[q] = heartbeats[q]
               /\ since'[q] = since[q]
               /\ called'[q] = called[q]
    BY <2>1, <2>5 DEF AtWork, OthersKept, TypeOK
  <2>6. clock <= clock + BeatPeriod
    BY Numbers
  <2> QED
    BY <2>1, <2>3, <2>4, <2>5, <2>6 DEF WatcherKept
<1>b. ASSUME NEW c \in Channels, Resume(c) \/ Deactivate(c) \/ Stall(c)
      PROVE  Calls'
  <2>1. Turned(c)
    BY <1>b, TurnStep
  <2>2. \/ /\ working' = working \cup {c}
           /\ called' = [called EXCEPT ![c] = clock]
        \/ /\ working' = working \ {c}
           /\ called' = [called EXCEPT ![c] = 0]
    BY <1>b, TurnStep
  <2>3. ASSUME NEW q \in working', q # c
        PROVE  /\ since'[q] <= called'[q]
               /\ clock' <= called'[q] + BeatPeriod
               /\ heartbeats'[q].timestamp_ns > since'[q] => heartbeats'[q].active = 1
    <3>1. /\ q \in working /\ q \in Channels
          /\ called'[q] = called[q]
      BY <2>2, <2>3 DEF TypeOK
    <3>2. /\ since'[q] = since[q]
          /\ heartbeats'[q].timestamp_ns = heartbeats[q].timestamp_ns
          /\ heartbeats'[q].active = heartbeats[q].active
          /\ clock' = clock
      BY <2>1, <2>3, <3>1 DEF Turned, WatcherKept, TypeOK
    <3> QED
      BY <3>1, <3>2
  <2>4. ASSUME c \in working'
        PROVE  /\ since'[c] <= called'[c]
               /\ clock' <= called'[c] + BeatPeriod
               /\ heartbeats'[c].timestamp_ns > since'[c] => heartbeats'[c].active = 1
    <3>1. called'[c] = clock
      BY <2>2, <2>4 DEF TypeOK
    <3>2. /\ since'[c] = clock
          /\ heartbeats'[c].timestamp_ns = heartbeats[c].timestamp_ns
          /\ clock' = clock
      BY <2>1 DEF Turned, WatcherKept, TypeOK
    <3> QED
      BY <3>1, <3>2, Numbers DEF Past
  <2> QED
    BY <2>3, <2>4
<1>c. CASE Restart
  BY <1>c DEF Restart, threads
<1>d. CASE Attach
  BY <1>d DEF Attach, slots, threads
<1>e. CASE Release
  BY <1>e DEF Release, slots, threads
<1>f. CASE TakeSnapshot
  BY <1>f DEF TakeSnapshot, slots, threads
<1>g. ASSUME NEW verdict, Observe(verdict)
      PROVE  Calls'
  BY <1>g DEF Observe, slots, threads
<1>h. CASE Tick
  BY <1>h, Numbers DEF Tick, slots, threads, TypeOK
<1>i. CASE UNCHANGED vars
  BY <1>i DEF vars
<1> QED
  BY <1>a, <1>b, <1>c, <1>d, <1>e, <1>f, <1>g, <1>h, <1>i, StepCases DEF Judge, Unsampled

\* A process with a session attached has somebody watching: no call finds the lease over.
LEMMA AttachedIsWatched ==
    ASSUME TypeOK, Leased, PollPeriod <= Duration, attached # 0
    PROVE  Watched
BY Numbers DEF Leased, Watched

\* While a session is attached its lease runs.
LEMMA LeasedStep ==
    ASSUME TypeOK, Leased, [Next]_vars
    PROVE  Leased'
<1> SUFFICES ASSUME PollPeriod <= Duration, attached' # 0
             PROVE  /\ watcher_present' = 1
                    /\ watcher_lease_until_ns' = renewed' + Duration
                    /\ clock' <= renewed' + PollPeriod
  BY DEF Leased
<1> USE DEF Leased
<1>a. ASSUME NEW c \in Channels, Beat(c) \/ Activate(c)
      PROVE  Leased'
  <2>1. WatcherKept /\ LeaseKept
    BY <1>a, CallStep
  <2>2. attached # 0
    BY <2>1 DEF WatcherKept, observer
  <2>3. watcher_present' = watcher_present
    BY <2>1, <2>2, AttachedIsWatched DEF LeaseKept
  <2> QED
    BY <2>1, <2>2, <2>3 DEF WatcherKept, LeaseKept, observer
<1>b. ASSUME NEW c \in Channels, Resume(c) \/ Deactivate(c) \/ Stall(c)
      PROVE  Leased'
  <2>1. Turned(c)
    BY <1>b, TurnStep
  <2> QED
    BY <2>1 DEF Turned, WatcherKept, observer
<1>c. CASE Restart
  BY <1>c DEF Restart, Detached
<1>d. CASE Attach
  BY <1>d, Numbers DEF Attach, Renew
<1>e. CASE Release
  BY <1>e DEF Release, Detached
<1>f. CASE TakeSnapshot
  BY <1>f DEF TakeSnapshot, lease
<1>g. ASSUME NEW verdict, Observe(verdict)
      PROVE  Leased'
  BY <1>g, Numbers DEF Observe, Renew
<1>h. CASE Tick
  BY <1>h, Numbers DEF Tick, lease, observer
<1>i. CASE UNCHANGED vars
  BY <1>i DEF vars
<1> QED
  BY <1>a, <1>b, <1>c, <1>d, <1>e, <1>f, <1>g, <1>h, <1>i, StepCases DEF Judge, Unsampled

\* What one channel has to show for the calls it got under the session.
ThrottledOne(c) ==
    /\ \/ next_heartbeat_ns[c] <= attached + Interval
       \/ next_heartbeat_ns[c] <= heartbeats[c].timestamp_ns + Interval
    /\ c \in working /\ called[c] > since[c] /\ called[c] > attached
          => next_heartbeat_ns[c] > called[c]

\* The throttle holds a channel back for a beat of the session, or from before it.
LEMMA ThrottledStep ==
    ASSUME TypeOK, Past, Leased, Throttled, [Next]_vars
    PROVE  Throttled'
<1> SUFFICES ASSUME PollPeriod <= Duration, attached' # 0, NEW q \in Channels
             PROVE  ThrottledOne(q)'
  BY DEF Throttled, ThrottledOne
<1>0. attached # 0 => ThrottledOne(q)
  BY DEF Throttled, ThrottledOne
<1>a. ASSUME NEW c \in Channels, Beat(c) \/ Activate(c)
      PROVE  ThrottledOne(q)'
  <2>1. WatcherKept /\ AtWork(c) /\ OthersKept(c, heartbeats)
    BY <1>a, CallStep
  <2>2. attached' = attached /\ attached # 0 /\ clock' = clock
    BY <2>1 DEF WatcherKept, observer
  <2>3. CASE q # c
    <3>1. /\ heartbeats'[q] = heartbeats[q]
          /\ next_heartbeat_ns'[q] = next_heartbeat_ns[q]
          /\ since'[q] = since[q]
          /\ called'[q] = called[q]
          /\ q \in working' <=> q \in working
      BY <2>1, <2>3 DEF AtWork, OthersKept, TypeOK
    <3> QED
      BY <1>0, <2>2, <3>1 DEF ThrottledOne
  <2>4. CASE q = c /\ Beats(c)
    <3>1. /\ heartbeats'[q].timestamp_ns = clock
          /\ next_heartbeat_ns'[q] = clock + Interval
          /\ called'[q] = clock
      BY <2>1, <2>4 DEF Beats, AtWork, TypeOK
    <3> QED
      BY <3>1, Numbers DEF ThrottledOne
  <2>5. CASE q = c /\ FlagOnly(c)
    <3>1. /\ heartbeats'[q].timestamp_ns = heartbeats[q].timestamp_ns
          /\ next_heartbeat_ns'[q] = next_heartbeat_ns[q]
          /\ called'[q] = clock
      BY <2>1, <2>5 DEF FlagOnly, AtWork, TypeOK
    <3>2. next_heartbeat_ns[q] > clock
      BY <2>2, <2>5, AttachedIsWatched DEF FlagOnly
    <3> QED
      BY <1>0, <2>2, <3>1, <3>2 DEF ThrottledOne
  <2> QED
    BY <1>a, CallStep, <2>3, <2>4, <2>5
<1>b. ASSUME NEW c \in Channels, Resume(c) \/ Deactivate(c) \/ Stall(c)
      PROVE  ThrottledOne(q)'
  <2>1. Turned(c)
    BY <1>b, TurnStep
  <2>2. /\ attached' = attached /\ attached # 0
        /\ next_heartbeat_ns' = next_heartbeat_ns
        /\ heartbeats'[q].timestamp_ns = heartbeats[q].timestamp_ns
    BY <2>1 DEF Turned, WatcherKept, observer
  <2>3. \/ /\ working' = working \cup {c}
           /\ called' = [called EXCEPT ![c] = clock]
        \/ /\ working' = working \ {c}
           /\ called' = [called EXCEPT ![c] = 0]
    BY <1>b, TurnStep
  <2>4. CASE q # c
    <3>1. /\ since'[q] = since[q]
          /\ called'[q] = called[q]
          /\ q \in working' <=> q \in working
      BY <2>1, <2>3, <2>4 DEF Turned, TypeOK
    <3> QED
      BY <1>0, <2>2, <3>1 DEF ThrottledOne
  <2>5. CASE q = c
    <3>1. since'[q] = clock /\ called'[q] <= clock
      BY <2>1, <2>3, <2>5, Numbers DEF Turned, TypeOK
    <3>2. called'[q] \in Nat
      BY <2>3, <2>5, Numbers DEF TypeOK
    <3> QED
      BY <1>0, <2>2, <3>1, <3>2, Numbers DEF ThrottledOne
  <2> QED
    BY <2>4, <2>5
<1>c. CASE Restart
  BY <1>c DEF Restart, Detached
<1>d. CASE Attach
  <2>1. /\ attached' = clock
        /\ UNCHANGED slots
        /\ UNCHANGED threads
    BY <1>d DEF Attach
  <2> QED
    BY <2>1, Numbers DEF Past, ThrottledOne, slots, threads
<1>e. CASE Release
  BY <1>e DEF Release, Detached
<1>f. CASE TakeSnapshot
  BY <1>0, <1>f DEF TakeSnapshot, ThrottledOne, slots, threads
<1>g. ASSUME NEW verdict, Observe(verdict)
      PROVE  ThrottledOne(q)'
  BY <1>0, <1>g DEF Observe, ThrottledOne, slots, threads
<1>h. CASE Tick
  BY <1>0, <1>h DEF Tick, ThrottledOne, slots, threads, observer
<1>i. CASE UNCHANGED vars
  BY <1>0, <1>i DEF vars, ThrottledOne
<1> QED
  BY <1>a, <1>b, <1>c, <1>d, <1>e, <1>f, <1>g, <1>h, <1>i, StepCases DEF Judge, Unsampled

\* A channel that was called often enough under the session has a recent beat.
LEMMA SettledHasBeaten ==
    ASSUME TypeOK, Past, Calls, Throttled, PollPeriod <= Duration, attached # 0,
           NEW c \in working,
           since[c] + Interval + BeatPeriod <= clock,
           attached + Interval + BeatPeriod <= clock
    PROVE  /\ heartbeats[c].active = 1
           /\ clock < heartbeats[c].timestamp_ns + Interval + BeatPeriod
<1>1. c \in Channels
  BY DEF TypeOK
<1>2. called[c] > since[c] /\ called[c] > attached /\ called[c] >= attached + Interval
  BY <1>1, Numbers DEF Calls
<1>3. next_heartbeat_ns[c] > called[c]
  BY <1>1, <1>2 DEF Throttled
<1>4. next_heartbeat_ns[c] <= heartbeats[c].timestamp_ns + Interval
  <2>1. ~(next_heartbeat_ns[c] <= attached + Interval)
    BY <1>1, <1>2, <1>3, Numbers
  <2> QED
    BY <1>1, <2>1 DEF Throttled
<1>5. clock < heartbeats[c].timestamp_ns + Interval + BeatPeriod
  BY <1>1, <1>3, <1>4, Numbers DEF Calls
<1>6. heartbeats[c].timestamp_ns > since[c]
  BY <1>1, <1>5, Numbers
<1> QED
  BY <1>5, <1>6 DEF Calls

\* A snapshot under way shows a recent beat on every settled channel.
LEMMA ShownStep ==
    ASSUME TypeOK, Past, Calls, Throttled, Shown, [Next]_vars
    PROVE  Shown'
<1> SUFFICES ASSUME PollPeriod <= Duration, taken' # 0
             PROVE  Shown'
  BY DEF Shown
<1>s. ASSUME taken' = taken, attached' = attached, snapshot' = snapshot, clock' = clock,
             Settled' \subseteq Settled
      PROVE  Shown'
  BY <1>s DEF Shown
<1>w. ASSUME WatcherKept
      PROVE  /\ taken' = taken /\ attached' = attached
             /\ snapshot' = snapshot /\ clock' = clock
  BY <1>w DEF WatcherKept, observer
<1>a. ASSUME NEW c \in Channels, Beat(c) \/ Activate(c)
      PROVE  Shown'
  <2>1. WatcherKept /\ AtWork(c)
    BY <1>a, CallStep
  <2>2. ASSUME NEW q \in Settled'
        PROVE  q \in Settled
    <3>1. /\ q \in Channels /\ q \in working'
          /\ since'[q] + Interval + BeatPeriod <= taken
          /\ attached + Interval + BeatPeriod <= taken
      BY <2>1, <2>2, <1>w DEF Settled
    <3>2. q \in working /\ since'[q] = since[q]
      <4>1. CASE c \in working
        BY <2>1, <3>1, <4>1 DEF AtWork
      <4>2. CASE c \notin working
        <5>1. since' = [since EXCEPT ![c] = clock]
          BY <2>1, <4>2 DEF AtWork
        <5>t. ~(clock + Interval + BeatPeriod <= taken)
          BY Numbers DEF Past
        <5>2. q # c
          BY <3>1, <5>1, <5>t DEF TypeOK
        <5> QED
          BY <2>1, <3>1, <5>1, <5>2 DEF AtWork, TypeOK
      <4> QED
        BY <4>1, <4>2
    <3> QED
      BY <3>1, <3>2 DEF Settled
  <2> QED
    BY <2>1, <2>2, <1>s, <1>w
<1>b. ASSUME NEW c \in Channels, Resume(c) \/ Deactivate(c) \/ Stall(c)
      PROVE  Shown'
  <2>1. Turned(c)
    BY <1>b, TurnStep
  <2>2. working' \subseteq working \cup {c}
    BY <1>b, TurnStep
  <2>3. ASSUME NEW q \in Settled'
        PROVE  q \in Settled
    <3>1. /\ q \in Channels /\ q \in working'
          /\ since'[q] + Interval + BeatPeriod <= taken
          /\ attached + Interval + BeatPeriod <= taken
      BY <2>1, <2>3, <1>w DEF Settled, Turned
    <3>t. ~(clock + Interval + BeatPeriod <= taken)
      BY Numbers DEF Past
    <3>2. q # c
      BY <2>1, <3>1, <3>t DEF Turned, TypeOK
    <3>3. q \in working /\ since'[q] = since[q]
      BY <2>1, <2>2, <3>1, <3>2 DEF Turned, TypeOK
    <3> QED
      BY <3>1, <3>3 DEF Settled
  <2> QED
    BY <2>1, <2>3, <1>s, <1>w DEF Turned
<1>c. CASE Restart
  BY <1>c DEF Restart, Detached
<1>d. CASE Attach
  BY <1>d DEF Attach, Shown
<1>e. CASE Release
  BY <1>e DEF Release, Detached
<1>f. CASE TakeSnapshot
  <2>1. /\ attached # 0 /\ attached' = attached
        /\ taken' = clock /\ clock' = clock
        /\ snapshot' = heartbeats
        /\ working' = working /\ since' = since
    BY <1>f DEF TakeSnapshot, threads
  <2>2. ASSUME NEW c \in Settled'
        PROVE  /\ snapshot'[c].active = 1
               /\ taken' < snapshot'[c].timestamp_ns + Interval + BeatPeriod
    <3>1. /\ c \in working
          /\ since[c] + Interval + BeatPeriod <= clock
          /\ attached + Interval + BeatPeriod <= clock
      BY <2>1, <2>2 DEF Settled
    <3> QED
      BY <2>1, <3>1, SettledHasBeaten
  <2> QED
    BY <2>1, <2>2, Numbers DEF Shown
<1>g. ASSUME NEW verdict, Observe(verdict)
      PROVE  Shown'
  BY <1>g DEF Observe
<1>h. CASE Tick
  <2>1. /\ taken' = taken /\ attached' = attached /\ snapshot' = snapshot
        /\ clock' = clock + 1
        /\ taken # 0 => clock < taken + PollDelay
        /\ Settled' = Settled
    BY <1>h DEF Tick, observer, threads, Settled, Polling
  <2> QED
    BY <2>1, Numbers DEF Shown
<1>i. CASE UNCHANGED vars
  BY <1>i DEF vars, Shown, Settled
<1> QED
  BY <1>a, <1>b, <1>c, <1>d, <1>e, <1>f, <1>g, <1>h, <1>i, StepCases DEF Judge, Unsampled

\* A channel that is stuck has not beaten since.
LEMMA StuckStep ==
    ASSUME TypeOK, Past, Stuck, [Next]_vars
    PROVE  Stuck'
<1> USE DEF Stuck
<1>a. ASSUME NEW c \in Channels, Beat(c) \/ Activate(c)
      PROVE  Stuck'
  <2>1. WatcherKept /\ AtWork(c) /\ OthersKept(c, heartbeats)
    BY <1>a, CallStep
  <2>2. ASSUME NEW q \in Channels, q \notin working'
        PROVE  /\ q \notin working /\ heartbeats'[q] = heartbeats[q]
               /\ since'[q] = since[q]
    BY <2>1, <2>2 DEF AtWork, OthersKept, TypeOK
  <2> QED
    BY <2>1, <2>2 DEF WatcherKept, observer
<1>b. ASSUME NEW c \in Channels, Resume(c) \/ Deactivate(c) \/ Stall(c)
      PROVE  Stuck'
  <2>1. Turned(c)
    BY <1>b, TurnStep
  <2>2. working \ {c} \subseteq working'
    BY <1>b, TurnStep
  <2>3. ASSUME NEW q \in Channels, q \notin working'
        PROVE  /\ heartbeats'[q].timestamp_ns <= since'[q]
               /\ snapshot'[q].timestamp_ns <= since'[q]
    <3>1. /\ heartbeats'[q].timestamp_ns = heartbeats[q].timestamp_ns
          /\ snapshot' = snapshot
      BY <2>1 DEF Turned, WatcherKept, observer
    <3>2. CASE q = c
      <4>1. since'[q] = clock
        BY <2>1, <3>2 DEF Turned, TypeOK
      <4> QED
        BY <3>1, <4>1 DEF Past
    <3>3. CASE q # c
      <4>1. since'[q] = since[q] /\ q \notin working
        BY <2>1, <2>2, <2>3, <3>3 DEF Turned, TypeOK
      <4> QED
        BY <3>1, <4>1
    <3> QED
      BY <3>2, <3>3
  <2> QED
    BY <2>3
<1>c. CASE Restart
  BY <1>c, QuietSlots, Numbers DEF Restart, Detached, threads
<1>d. CASE Attach
  BY <1>d DEF Attach, slots, threads
<1>e. CASE Release
  BY <1>e, QuietSlots, Numbers DEF Release, Detached, slots, threads
<1>f. CASE TakeSnapshot
  BY <1>f DEF TakeSnapshot, slots, threads
<1>g. ASSUME NEW verdict, Observe(verdict)
      PROVE  Stuck'
  BY <1>g DEF Observe, slots, threads
<1>h. CASE Tick
  BY <1>h DEF Tick, slots, threads, observer
<1>i. CASE UNCHANGED vars
  BY <1>i DEF vars
<1> QED
  BY <1>a, <1>b, <1>c, <1>d, <1>e, <1>f, <1>g, <1>h, <1>i, StepCases DEF Judge, Unsampled

\* The latest verdict is one on the heartbeats at hand.
LEMMA JudgedStep ==
    ASSUME TypeOK, Past, Judged, [Next]_vars
    PROVE  Judged'
<1> SUFFICES ASSUME responsiveness' # "none", taken' = 0 \/ news' = 0
             PROVE  \E now \in 0 .. clock', busy \in BOOLEAN :
                       responsiveness' = ClassifyHealth(snapshot', now, busy)
  BY DEF Judged
<1>k. ASSUME responsiveness' = responsiveness, snapshot' = snapshot,
             taken = 0 \/ news = 0, clock' = clock \/ clock' = clock + 1
      PROVE  \E now \in 0 .. clock', busy \in BOOLEAN :
                responsiveness' = ClassifyHealth(snapshot', now, busy)
  <2>1. PICK now \in 0 .. clock, busy \in BOOLEAN :
           responsiveness = ClassifyHealth(snapshot, now, busy)
    BY <1>k DEF Judged
  <2>2. now \in 0 .. clock'
    BY <1>k, Numbers
  <2>3. responsiveness' = ClassifyHealth(snapshot', now, busy)
    BY <1>k, <2>1
  <2> QED
    BY <2>2, <2>3
<1>w. ASSUME WatcherKept
      PROVE  /\ responsiveness' = responsiveness /\ snapshot' = snapshot
             /\ taken = 0 \/ news = 0
             /\ clock' = clock
  BY <1>w DEF WatcherKept, observer
<1>a. ASSUME NEW c \in Channels, Beat(c) \/ Activate(c)
      PROVE  WatcherKept
  BY <1>a, CallStep
<1>b. ASSUME NEW c \in Channels, Resume(c) \/ Deactivate(c) \/ Stall(c)
      PROVE  WatcherKept
  BY <1>b, TurnStep DEF Turned
<1>c. CASE Restart
  BY <1>c DEF Restart, Detached
<1>d. CASE Attach
  BY <1>d, <1>k DEF Attach
<1>e. CASE Release
  BY <1>e DEF Release, Detached
<1>f. CASE TakeSnapshot
  <2>1. taken' # 0
    BY <1>f DEF TakeSnapshot, Past
  <2>2. snapshot' = snapshot /\ taken = 0
    BY <1>f, <2>1 DEF TakeSnapshot, Polling
  <2> QED
    BY <1>f, <2>2, <1>k DEF TakeSnapshot
<1>g. ASSUME NEW busy \in BOOLEAN, Judge(busy)
      PROVE  \E now \in 0 .. clock', b \in BOOLEAN :
                responsiveness' = ClassifyHealth(snapshot', now, b)
  <2>1. /\ responsiveness' = ClassifyHealth(snapshot, clock, busy)
        /\ snapshot' = snapshot /\ clock' = clock
    BY <1>g DEF Judge, Observe
  <2>2. clock \in 0 .. clock'
    BY <2>1, Numbers
  <2>3. responsiveness' = ClassifyHealth(snapshot', clock, busy)
    BY <2>1
  <2> QED
    BY <2>2, <2>3
<1>h. CASE Unsampled
  BY <1>h DEF Unsampled, Observe
<1>i. CASE Tick
  BY <1>i, <1>k DEF Tick, observer
<1>j. CASE UNCHANGED vars
  BY <1>j, <1>k DEF vars
<1> QED
  BY <1>a, <1>b, <1>c, <1>d, <1>e, <1>f, <1>g, <1>h, <1>i, <1>j, <1>k, <1>w, StepCases

-----------------------------------------------------------------------------
(***************************************************************************)
(* What a verdict says.                                                    *)
(***************************************************************************)

\* Some active channel is current.
LEMMA CurrentVerdict ==
    ASSUME NEW hs, NEW now, NEW busy, Current(hs, now) # {}
    PROVE  ClassifyHealth(hs, now, busy) = WithCurrent(hs, now)
BY DEF ClassifyHealth, Current

\* All active channels are stale.
LEMMA StaleVerdict ==
    ASSUME NEW hs, NEW now, NEW busy \in BOOLEAN,
           Active(hs) # {}, Current(hs, now) = {}
    PROVE  ClassifyHealth(hs, now, busy)
              \in {"globally_stalled_idle", "globally_stalled_busy"}
BY DEF ClassifyHealth

\* How bad the verdicts are, from best to worst.
LEMMA Severities ==
    /\ Severity("awaiting_heartbeat") = 0
    /\ Severity("healthy") = 1
    /\ Severity("degraded") = 2
    /\ Severity("gui_stalled") = 3
    /\ Severity("globally_stalled_idle") = 4
    /\ Severity("globally_stalled_busy") = 4
BY DEF Severity

\* A heartbeat only grows older.
LEMMA CurrentAges ==
    ASSUME NEW hs \in Heartbeats, NEW now \in Nat, NEW later \in Nat, now <= later
    PROVE  Current(hs, later) \subseteq Current(hs, now)
<1> SUFFICES ASSUME NEW c \in Current(hs, later)
             PROVE  c \in Current(hs, now)
  OBVIOUS
<1>1. c \in Active(hs) /\ c \in Channels /\ ~Stale(hs[c], later)
  BY DEF Current, Active
<1>2. hs[c].timestamp_ns \in Nat /\ StaleAfter \in Nat
  BY <1>1, HealthAssumption DEF Heartbeats
<1>3. ~Stale(hs[c], now)
  BY <1>1, <1>2 DEF Stale
<1> QED
  BY <1>1, <1>3 DEF Current

\* The same heartbeats, judged later, are judged no better.
LEMMA VerdictAges ==
    ASSUME NEW hs \in Heartbeats, NEW now \in Nat, NEW later \in Nat, now <= later,
           NEW busy \in BOOLEAN, NEW then \in BOOLEAN
    PROVE  Severity(ClassifyHealth(hs, later, then)) >= Severity(ClassifyHealth(hs, now, busy))
<1>1. CASE Active(hs) = {}
  BY <1>1, Severities DEF ClassifyHealth
<1>2. CASE Active(hs) # {} /\ Current(hs, later) = {}
  <2>1. Severity(ClassifyHealth(hs, later, then)) = 4
    BY <1>2, StaleVerdict, Severities
  <2>2. ClassifyHealth(hs, now, busy) \in Healths
    BY VerdictType
  <2>3. Severity(ClassifyHealth(hs, now, busy)) \in 0 .. 4
    BY <2>2, Severities DEF Healths
  <2> QED
    BY <2>1, <2>3
<1>3. CASE Current(hs, later) # {}
  <2>1. Current(hs, later) \subseteq Current(hs, now) /\ Current(hs, now) # {}
    BY <1>3, CurrentAges
  <2>2. /\ ClassifyHealth(hs, later, then) = WithCurrent(hs, later)
        /\ ClassifyHealth(hs, now, busy) = WithCurrent(hs, now)
    BY <1>3, <2>1, CurrentVerdict
  <2>3. Severity(WithCurrent(hs, later)) >= Severity(WithCurrent(hs, now))
    <3>1. CASE Gui \in Active(hs) \ Current(hs, later)
      <4>1. Severity(WithCurrent(hs, later)) = 3
        BY <3>1, Severities DEF WithCurrent
      <4>2. Severity(WithCurrent(hs, now)) \in 1 .. 3
        BY Severities DEF WithCurrent
      <4> QED
        BY <4>1, <4>2
    <3>2. CASE Gui \notin Active(hs) \ Current(hs, later)
      <4>1. Gui \notin Active(hs) \ Current(hs, now)
        BY <2>1, <3>2
      <4>2. CASE Current(hs, now) = Active(hs)
        <5>1. Severity(WithCurrent(hs, now)) = 1
          BY <4>1, <4>2, Severities DEF WithCurrent
        <5>2. Severity(WithCurrent(hs, later)) \in 1 .. 3
          BY Severities DEF WithCurrent
        <5> QED
          BY <5>1, <5>2
      <4>3. CASE Current(hs, now) # Active(hs)
        <5>1. Current(hs, later) # Active(hs)
          BY <2>1, <4>3 DEF Current
        <5> QED
          BY <3>2, <4>1, <4>3, <5>1, Severities DEF WithCurrent
      <4> QED
        BY <4>2, <4>3
    <3> QED
      BY <3>1, <3>2
  <2> QED
    BY <2>2, <2>3
<1> QED
  BY <1>1, <1>2, <1>3

-----------------------------------------------------------------------------
(***************************************************************************)
(* The theorems.                                                           *)
(***************************************************************************)

IInv == TypeOK /\ Past /\ Calls /\ Leased /\ Throttled /\ Shown /\ Stuck /\ Judged

\* The parts of the invariant hold of every reachable state.
LEMMA Invariance == Spec => []IInv
<1>1. Init => IInv
  <2> SUFFICES ASSUME Init PROVE IInv
    OBVIOUS
  <2>1. TypeOK
    BY QuietSlots DEF Init, TypeOK, Quiet, Heartbeats
  <2>2. \A c \in Channels :
           /\ heartbeats[c].timestamp_ns = 0 /\ snapshot[c].timestamp_ns = 0
           /\ since[c] = 0 /\ called[c] = 0 /\ next_heartbeat_ns[c] = 0
    BY QuietSlots DEF Init
  <2>3. Past
    BY <2>1, <2>2, Numbers DEF Init, Past
  <2>4. Calls /\ Leased /\ Throttled /\ Shown /\ Judged
    BY DEF Init, Calls, Leased, Throttled, Shown, Judged
  <2>5. Stuck
    BY <2>2 DEF Stuck
  <2> QED
    BY <2>1, <2>3, <2>4, <2>5 DEF IInv
<1>2. IInv /\ [Next]_vars => IInv'
  BY TypeStep, PastStep, CallsStep, LeasedStep, ThrottledStep, ShownStep, StuckStep, JudgedStep
  DEF IInv
<1> QED
  BY <1>1, <1>2, PTL DEF Spec

\* The state stays within its types, whatever the channels and the periods.
THEOREM TypeCorrect == Spec => []TypeOK
<1>1. IInv => TypeOK
  BY DEF IInv
<1> QED
  BY <1>1, Invariance, PTL

\* Only an observation of a sampled process comes to a verdict.
LEMMA VerdictStep ==
    ASSUME TypeOK, Past, [Next]_vars, Observing
    PROVE  \E busy \in BOOLEAN : Judge(busy)
<1> USE DEF Observing, Polling
<1>a. ASSUME NEW c \in Channels, Beat(c) \/ Activate(c)
      PROVE  FALSE
  BY <1>a, CallStep DEF WatcherKept, observer
<1>b. ASSUME NEW c \in Channels, Resume(c) \/ Deactivate(c) \/ Stall(c)
      PROVE  FALSE
  BY <1>b, TurnStep DEF Turned, WatcherKept, observer
<1>c. CASE Restart \/ Attach \/ Release \/ TakeSnapshot
  BY <1>c DEF Restart, Attach, Release, TakeSnapshot, Detached
<1>d. CASE Unsampled \/ Tick \/ UNCHANGED vars
  BY <1>d DEF Unsampled, Observe, Tick, observer, vars
<1> QED
  BY <1>a, <1>b, <1>c, <1>d, StepCases

\* When the periods fit together, a settled channel is current in the snapshot judged.
LEMMA SettledIsCurrent ==
    ASSUME TypeOK, Shown, Fitting, Polling, NEW c \in Settled
    PROVE  c \in Current(snapshot, clock)
<1>1. c \in Channels /\ attached + Interval + BeatPeriod <= taken
  BY DEF Settled
<1>2. /\ snapshot[c].active = 1
      /\ taken < snapshot[c].timestamp_ns + Interval + BeatPeriod
      /\ clock <= taken + PollDelay
  BY DEF Shown, Fitting, Polling
<1>3. Interval + BeatPeriod + PollDelay <= StaleAfter + 1 /\ StaleAfter \in Nat
  BY HealthAssumption DEF Fitting
<1>4. snapshot[c].timestamp_ns # 0
  BY <1>1, <1>2, Numbers
<1>5. ~(clock - snapshot[c].timestamp_ns > StaleAfter)
  BY <1>1, <1>2, <1>3, Numbers
<1> QED
  BY <1>1, <1>2, <1>4, <1>5 DEF Current, Active, Stale

\* The verdict is fair to the channels that work.
FairVerdict ==
    Fitting /\ Observing =>
       /\ Settled # {} => responsiveness' \in {"healthy", "degraded", "gui_stalled"}
       /\ Gui \in Settled => responsiveness' # "gui_stalled"
       /\ Settled # {} /\ Active(snapshot) \subseteq Settled
             => responsiveness' = "healthy"

\* No false alarm (NoFalseAlarm of WatchCycle): when the lease covers the polls, and the
\* throttle, the calls and the snapshot together fit into stale_after_ns, a channel that
\* works is never held against the process.
THEOREM AlarmsAreTrue == Spec => NoFalseAlarm
<1>1. IInv /\ [Next]_vars => FairVerdict
  <2> SUFFICES ASSUME IInv, [Next]_vars, Fitting, Observing
               PROVE  FairVerdict
    BY DEF FairVerdict
  <2>1. PICK busy \in BOOLEAN : Judge(busy)
    BY VerdictStep DEF IInv
  <2>2. responsiveness' = ClassifyHealth(snapshot, clock, busy)
    BY <2>1 DEF Judge, Observe
  <2>3. Settled \subseteq Current(snapshot, clock)
    BY SettledIsCurrent DEF Observing, IInv
  <2>4. Settled # {} => responsiveness' = WithCurrent(snapshot, clock)
    BY <2>2, <2>3, CurrentVerdict
  <2>5. Current(snapshot, clock) \subseteq Active(snapshot)
    BY DEF Current
  <2>6. Settled # {} => responsiveness' \in {"healthy", "degraded", "gui_stalled"}
    BY <2>4 DEF WithCurrent
  <2>7. Gui \in Settled => responsiveness' # "gui_stalled"
    BY <2>3, <2>4 DEF WithCurrent
  <2>8. Settled # {} /\ Active(snapshot) \subseteq Settled => responsiveness' = "healthy"
    BY <2>3, <2>4, <2>5 DEF WithCurrent
  <2> QED
    BY <2>6, <2>7, <2>8 DEF FairVerdict
<1>2. [][FairVerdict]_vars => NoFalseAlarm
  BY PTL DEF FairVerdict, NoFalseAlarm
<1> QED
  BY <1>1, <1>2, Invariance, PTL DEF Spec

\* The verdict owns up to the channels that are stuck.
HonestVerdict ==
    Observing =>
       \A c \in Active(snapshot) :
          c \notin working /\ since[c] + StaleAfter < clock =>
             /\ responsiveness' # "healthy"
             /\ c = Gui => responsiveness' # "degraded"

\* No stall goes unnoticed (StallNoticed of WatchCycle), whatever the periods.
THEOREM StallsAreNoticed == Spec => StallNoticed
<1>1. IInv /\ [Next]_vars => HonestVerdict
  <2> SUFFICES ASSUME IInv, [Next]_vars, Observing,
                      NEW c \in Active(snapshot),
                      c \notin working, since[c] + StaleAfter < clock
               PROVE  /\ responsiveness' # "healthy"
                      /\ c = Gui => responsiveness' # "degraded"
    BY DEF HonestVerdict
  <2>1. PICK busy \in BOOLEAN : Judge(busy)
    BY VerdictStep DEF IInv
  <2>2. responsiveness' = ClassifyHealth(snapshot, clock, busy)
    BY <2>1 DEF Judge, Observe
  <2>3. c \notin Current(snapshot, clock)
    <3>1. c \in Channels /\ StaleAfter \in Nat
      BY HealthAssumption DEF Active
    <3>2. snapshot[c].timestamp_ns <= since[c]
      BY <3>1 DEF IInv, Stuck
    <3>3. clock - snapshot[c].timestamp_ns > StaleAfter
      BY <3>1, <3>2, Numbers DEF IInv
    <3> QED
      BY <3>3 DEF Current, Stale
  <2>4. CASE Current(snapshot, clock) = {}
    BY <2>2, <2>4, StaleVerdict
  <2>5. CASE Current(snapshot, clock) # {}
    <3>1. responsiveness' = WithCurrent(snapshot, clock)
      BY <2>2, <2>5, CurrentVerdict
    <3> QED
      BY <2>3, <3>1 DEF WithCurrent
  <2> QED
    BY <2>4, <2>5
<1>2. [][HonestVerdict]_vars => StallNoticed
  BY PTL DEF HonestVerdict, StallNoticed
<1> QED
  BY <1>1, <1>2, Invariance, PTL DEF Spec

\* Without news the verdict gets no better.
NoBetter ==
    Observing /\ responsiveness # "none" /\ news = 0
       => Severity(responsiveness') >= Severity(responsiveness)

\* Waiting is no recovery (RecoveryNeedsBeat of WatchCycle), whatever the periods.
THEOREM RecoveriesAreReal == Spec => RecoveryNeedsBeat
<1>1. IInv /\ [Next]_vars => NoBetter
  <2> SUFFICES ASSUME IInv, [Next]_vars, Observing, responsiveness # "none", news = 0
               PROVE  Severity(responsiveness') >= Severity(responsiveness)
    BY DEF NoBetter
  <2>1. PICK then \in BOOLEAN : Judge(then)
    BY VerdictStep DEF IInv
  <2>2. responsiveness' = ClassifyHealth(snapshot, clock, then)
    BY <2>1 DEF Judge, Observe
  <2>3. PICK now \in 0 .. clock, busy \in BOOLEAN :
           responsiveness = ClassifyHealth(snapshot, now, busy)
    BY DEF IInv, Judged
  <2>4. snapshot \in Heartbeats /\ clock \in Nat /\ now \in Nat /\ now <= clock
    BY <2>3, Numbers DEF IInv, TypeOK
  <2> QED
    BY <2>2, <2>3, <2>4, VerdictAges
<1>2. [][NoBetter]_vars => RecoveryNeedsBeat
  BY PTL DEF NoBetter, RecoveryNeedsBeat
<1> QED
  BY <1>1, <1>2, Invariance, PTL DEF Spec
=============================================================================
