------------------------------ MODULE WatchCycle ------------------------------
(***************************************************************************)
(* A process, its heartbeats and one watcher on one clock: the threads or  *)
(* timers that beat on a channel (gui_heartbeat is one), the lease and the *)
(* throttle on the way to the slot, the poll that renews the lease, and    *)
(* the verdict it comes to.  The question is whether the verdict is true:  *)
(* WatcherLease and HeartbeatSlot leave open whether the lease, the        *)
(* throttle, the polling interval and stale_after_ns fit together.         *)
(*                                                                         *)
(* How the calls of one moment interleave is the subject of those modules: *)
(* here a call is one step.  A poll is two, for time may pass between its  *)
(* snapshot and the moment it judges the snapshot by.                      *)
(***************************************************************************)
EXTENDS Health

CONSTANTS
    Interval,      \* minimum_interval_ns, 500 ms in the code
    Duration,      \* duration_ns, default_watcher_lease_ns in the code
    BeatPeriod,    \* longest time between two calls on a channel that works
    PollPeriod,    \* longest time between two renewals of the lease
    PollDelay,     \* longest time from a snapshot to its observation time
    MaxClock,      \* bound of the model: the clock stops there
    MaxUpsets      \* bound of the model: stalls, ends and restarts in all

ASSUME CycleAssumption ==
    /\ {Interval, Duration, BeatPeriod, PollPeriod, PollDelay, MaxClock,
        MaxUpsets} \subseteq Nat
    /\ Interval # 0
    /\ BeatPeriod # 0

VARIABLES
    clock,                    \* the monotonic clock both processes share
    heartbeats,               \* slots of the shared state
    next_heartbeat_ns,        \* throttle of each channel, in the client
    watcher_present,          \* flag in the shared state
    watcher_lease_until_ns,   \* end of the lease in the shared state
    working,                  \* channels whose thread or timer is not stuck
    since,                    \* when it began to work, or when it got stuck
    called,                   \* latest call on a channel that works, or 0
    attached,                 \* when the session was attached, 0 without one
    renewed,                  \* latest renewal of the lease by the session
    taken,                    \* when a poll under way took its snapshot, or 0
    snapshot,                 \* heartbeats in the latest snapshot
    responsiveness,           \* verdict of the latest observation, or "none"
    news,                     \* history: 1 if that snapshot differs from the one before
    upsets                    \* history: stalls, ends and restarts so far

slots    == <<heartbeats, next_heartbeat_ns>>
lease    == <<watcher_present, watcher_lease_until_ns>>
threads  == <<working, since, called>>
observer == <<attached, renewed, taken, snapshot, responsiveness, news>>
vars == <<clock, heartbeats, next_heartbeat_ns, watcher_present,
          watcher_lease_until_ns, working, since, called,
          attached, renewed, taken, snapshot, responsiveness, news, upsets>>

\* A poll has taken its snapshot and not yet judged it.
Polling == taken # 0

\* Something happens that is not part of the daily round.
Upset == upsets < MaxUpsets /\ upsets' = upsets + 1

Quiet == [c \in Channels |-> [active |-> 0, timestamp_ns |-> 0]]

-----------------------------------------------------------------------------
(***************************************************************************)
(* The observed process.                                                   *)
(***************************************************************************)

\* active_state: the flag is up and the lease runs.
Watched == watcher_present = 1 /\ watcher_lease_until_ns >= clock

\* Mutant: the flag counts watchers.
OneFewer == watcher_present - 1

\* The flag after a call that found nobody watching, or an expired lease.
TakenDown == 0

Gate ==
    /\ watcher_present' = IF Watched THEN watcher_present ELSE TakenDown
    /\ UNCHANGED watcher_lease_until_ns

\* Mutant: a beat that came too early puts the next one off.
PutOff(c) == clock + Interval

\* next_heartbeat_ns after a beat that came too early.
Kept(c) == next_heartbeat_ns[c]

\* heartbeat, on slots whose active flags are as given.
HeartbeatOn(c, given) ==
    LET accepted == Watched /\ clock >= next_heartbeat_ns[c] IN
    /\ heartbeats' =
          IF accepted
          THEN [given EXCEPT ![c] = [active |-> 1, timestamp_ns |-> clock]]
          ELSE given
    /\ next_heartbeat_ns' = [next_heartbeat_ns EXCEPT
                                ![c] = IF accepted THEN clock + Interval
                                       ELSE IF Watched THEN Kept(c) ELSE @]
    /\ Gate

\* A timer of gui_heartbeat, or a thread at work, calls heartbeat.
Beat(c) ==
    /\ c \in working
    /\ HeartbeatOn(c, heartbeats)
    /\ called' = [called EXCEPT ![c] = clock]
    /\ UNCHANGED <<clock, working, since>>
    /\ UNCHANGED observer
    /\ UNCHANGED upsets

\* The thread or timer behind a channel starts, or gets unstuck.
Begin(c) ==
    /\ c \notin working
    /\ working' = working \cup {c}
    /\ since' = [since EXCEPT ![c] = clock]
    /\ called' = [called EXCEPT ![c] = clock]
    /\ UNCHANGED clock
    /\ UNCHANGED observer
    /\ UNCHANGED upsets

\* It starts with set_channel_active(c, true), as gui_heartbeat does ...
Activate(c) ==
    /\ HeartbeatOn(c, [heartbeats EXCEPT ![c].active = 1])
    /\ Begin(c)

\* ... or just goes on to its next heartbeat.
Resume(c) ==
    /\ Begin(c)
    /\ UNCHANGED slots
    /\ UNCHANGED lease

\* set_channel_active(c, false), the end of its thread or timer.
Deactivate(c) ==
    /\ Upset
    /\ c \in working
    /\ heartbeats' = [heartbeats EXCEPT ![c].active = 0]
    /\ working' = working \ {c}
    /\ called' = [called EXCEPT ![c] = 0]
    /\ since' = [since EXCEPT ![c] = clock]
    /\ UNCHANGED <<clock, next_heartbeat_ns>>
    /\ UNCHANGED lease
    /\ UNCHANGED observer

\* The thread behind a channel gets stuck.
Stall(c) ==
    /\ Upset
    /\ c \in working
    /\ working' = working \ {c}
    /\ called' = [called EXCEPT ![c] = 0]
    /\ since' = [since EXCEPT ![c] = clock]
    /\ UNCHANGED clock
    /\ UNCHANGED slots
    /\ UNCHANGED lease
    /\ UNCHANGED observer

\* A watcher that has no session, or none with the current object.
Detached ==
    /\ attached' = 0
    /\ renewed' = 0
    /\ taken' = 0
    /\ snapshot' = Quiet
    /\ responsiveness' = "none"
    /\ news' = 1

\* client::stop and client::start: a new object, but the throttles of the old one.
\* A watcher stays with the old object, where nothing happens any more.
Restart ==
    /\ Upset
    /\ working = {}
    /\ heartbeats' = Quiet
    /\ watcher_present' = 0
    /\ watcher_lease_until_ns' = 0
    /\ Detached
    /\ UNCHANGED <<clock, next_heartbeat_ns>>
    /\ UNCHANGED threads

-----------------------------------------------------------------------------
(***************************************************************************)
(* The watcher.                                                            *)
(***************************************************************************)

\* renew_lease
Renew ==
    /\ watcher_lease_until_ns' = clock + Duration
    /\ watcher_present' = 1
    /\ renewed' = clock

\* watchdog_session::attach
Attach ==
    /\ attached = 0
    /\ attached' = clock
    /\ Renew
    /\ UNCHANGED <<clock, taken, snapshot, responsiveness, news>>
    /\ UNCHANGED slots
    /\ UNCHANGED threads
    /\ UNCHANGED upsets

\* watchdog_session::release, when the watcher is done.
Release ==
    /\ Upset
    /\ attached # 0
    /\ ~Polling
    /\ watcher_present' = 0
    /\ watcher_lease_until_ns' = 0
    /\ Detached
    /\ UNCHANGED clock
    /\ UNCHANGED slots
    /\ UNCHANGED threads

\* poll: the snapshot first ...
TakeSnapshot ==
    /\ attached # 0
    /\ ~Polling
    /\ taken' = clock
    /\ snapshot' = heartbeats
    /\ news' = IF heartbeats = snapshot THEN 0 ELSE 1
    /\ UNCHANGED <<clock, attached, renewed, responsiveness>>
    /\ UNCHANGED slots
    /\ UNCHANGED lease
    /\ UNCHANGED threads
    /\ UNCHANGED upsets

\* ... and then, by the clock read after it, the lease and the observation: a verdict,
\* or none.
Observe(verdict) ==
    /\ Polling
    /\ responsiveness' = verdict
    /\ taken' = 0
    /\ Renew
    /\ UNCHANGED <<clock, attached, snapshot, news>>
    /\ UNCHANGED slots
    /\ UNCHANGED threads
    /\ UNCHANGED upsets

\* The process was sampled, which gives its CPU share.
Judge(busy) == Observe(ClassifyHealth(snapshot, clock, busy))

\* The process could not be sampled.
Unsampled == Observe("none")

-----------------------------------------------------------------------------
\* Time passes, but no longer than the parties take.
Tick ==
    /\ clock < MaxClock
    /\ \A c \in working : clock < called[c] + BeatPeriod
    /\ attached # 0 => clock < renewed + PollPeriod
    /\ Polling => clock < taken + PollDelay
    /\ clock' = clock + 1
    /\ UNCHANGED slots
    /\ UNCHANGED lease
    /\ UNCHANGED threads
    /\ UNCHANGED observer
    /\ UNCHANGED upsets

Init ==
    /\ clock = 1
    /\ heartbeats = Quiet
    /\ next_heartbeat_ns = [c \in Channels |-> 0]
    /\ watcher_present = 0
    /\ watcher_lease_until_ns = 0
    /\ working = {}
    /\ since = [c \in Channels |-> 0]
    /\ called = [c \in Channels |-> 0]
    /\ attached = 0
    /\ renewed = 0
    /\ taken = 0
    /\ snapshot = Quiet
    /\ responsiveness = "none"
    /\ news = 1
    /\ upsets = 0

Next ==
    \/ \E c \in Channels : Beat(c) \/ Activate(c) \/ Resume(c) \/ Deactivate(c) \/ Stall(c)
    \/ Restart
    \/ Attach \/ Release \/ TakeSnapshot
    \/ \E busy \in BOOLEAN : Judge(busy)
    \/ Unsampled
    \/ Tick

Spec == Init /\ [][Next]_vars

-----------------------------------------------------------------------------
(***************************************************************************)
(* Properties.                                                             *)
(***************************************************************************)

\* The state stays within its types.
TypeOK ==
    /\ clock \in Nat
    /\ heartbeats \in Heartbeats
    /\ next_heartbeat_ns \in [Channels -> Nat]
    /\ watcher_present \in {0, 1}
    /\ watcher_lease_until_ns \in Nat
    /\ working \subseteq Channels
    /\ since \in [Channels -> Nat]
    /\ called \in [Channels -> Nat]
    /\ attached \in Nat
    /\ renewed \in Nat
    /\ taken \in Nat
    /\ snapshot \in Heartbeats
    /\ responsiveness \in Healths \cup {"none"}
    /\ news \in {0, 1}
    /\ upsets \in Nat

\* The polls come within the lease, and the beats of a channel that works, which are
\* less than Interval + BeatPeriod apart, within stale_after_ns of any observation.
Fitting ==
    /\ PollPeriod <= Duration
    /\ Interval + BeatPeriod + PollDelay <= StaleAfter + 1

\* Channels that have worked, under the lease, for long enough to have beaten.
Settled == {c \in Channels :
               /\ c \in working
               /\ since[c] + Interval + BeatPeriod <= taken
               /\ attached + Interval + BeatPeriod <= taken}

\* A poll comes to a verdict.
Observing == Polling /\ ~Polling' /\ responsiveness' # "none"

\* No false alarm: when the periods fit together, a channel that works and had time
\* to beat is never held against the process, whatever the throttle dropped, the
\* snapshot delayed and an earlier object left in the throttle.
NoFalseAlarm ==
    [][Fitting /\ Observing =>
          /\ Settled # {} => responsiveness' \in {"healthy", "degraded", "gui_stalled"}
          /\ Gui \in Settled => responsiveness' # "gui_stalled"
          /\ Settled # {} /\ Active(snapshot) \subseteq Settled
                => responsiveness' = "healthy"]_vars

\* No stall goes unnoticed: once an active channel has been stuck for longer than
\* stale_after_ns the process is not called healthy, and a stuck GUI is never passed
\* off as one channel of several.
StallNoticed ==
    [][Observing =>
          \A c \in Active(snapshot) :
             c \notin working /\ since[c] + StaleAfter < clock =>
                /\ responsiveness' # "healthy"
                /\ c = Gui => responsiveness' # "degraded"]_vars

\* Waiting is no recovery: two observations of the same heartbeats never make a
\* process look better the second time.
RecoveryNeedsBeat ==
    [][Observing /\ responsiveness # "none" /\ news = 0
          => Severity(responsiveness') >= Severity(responsiveness)]_vars
=============================================================================
