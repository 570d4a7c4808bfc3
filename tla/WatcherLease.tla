---------------------------- MODULE WatcherLease ----------------------------
(***************************************************************************)
(* The gate every publication passes: client::heartbeat and                *)
(* client::breadcrumb publish only while a watcher holds a lease on the    *)
(* shared state.  Threads of the observed process test the flag and the    *)
(* lease and take the flag down themselves when the lease has run out;     *)
(* watchers renew and release both words; a watcher may die at any point,  *)
(* which takes nothing down.                                               *)
(*                                                                         *)
(* Each access to watcher_present and watcher_lease_until_ns is a step, so *)
(* is each reading of the clock, and anybody may be preempted between two  *)
(* of them.  What a call publishes once it is through is modelled in       *)
(* HeartbeatSlot and BreadcrumbRing.                                       *)
(***************************************************************************)
EXTENDS Integers

CONSTANTS
    Threads,       \* threads of the observed process
    Watchers,      \* processes that may watch it
    Duration,      \* duration_ns, default_watcher_lease_ns in the code
    PollPeriod,    \* longest time between two clock readings of a watcher
    LastInstant,   \* greatest value of a word, 2^64 - 1
    MaxClock,      \* bound of the model: the clock stops there
    MaxSessions    \* bound of the model: sessions attached in all

ASSUME LeaseAssumption ==
    /\ Duration \in Nat
    /\ PollPeriod \in Nat
    /\ LastInstant \in Nat \ {0}
    /\ MaxClock \in Nat
    /\ MaxSessions \in Nat

VARIABLES
    watcher_present,          \* flag in the shared state
    watcher_lease_until_ns,   \* end of the lease in the shared state
    clock,                    \* the monotonic clock all processes share
    pc,                       \* where each thread is in its call
    now,                      \* clock reading of that call
    session,                  \* "none", "attaching" or "held", per watcher
    wpc,                      \* where each watcher is in renew_lease or release
    wnow,                     \* its last clock reading
    sessions,                 \* history: sessions attached so far
    renewed,                  \* history: latest clock reading stored in a lease
    crashed                   \* history: watchers that died without release

shared  == <<watcher_present, watcher_lease_until_ns>>
threads == <<pc, now>>
watchers == <<session, wpc, wnow, sessions, renewed, crashed>>
vars == <<watcher_present, watcher_lease_until_ns, clock, pc, now,
          session, wpc, wnow, sessions, renewed, crashed>>

NoSession == \A w \in Watchers : session[w] = "none"

Goto(p, label) == pc' = [pc EXCEPT ![p] = label]

-----------------------------------------------------------------------------
(***************************************************************************)
(* A publishing call: client::heartbeat or client::breadcrumb up to the    *)
(* point where client::active_state returned.                              *)
(***************************************************************************)

\* The cheap test before the clock is read; a call it ends leaves no trace.
Call(p) ==
    /\ pc[p] = "idle"
    /\ watcher_present = 1
    /\ Goto(p, "read_clock")
    /\ UNCHANGED <<now, clock>>
    /\ UNCHANGED shared
    /\ UNCHANGED watchers

ReadClock(p) ==
    /\ pc[p] = "read_clock"
    /\ now' = [now EXCEPT ![p] = clock]
    /\ Goto(p, "test_present")
    /\ UNCHANGED clock
    /\ UNCHANGED shared
    /\ UNCHANGED watchers

\* active_state tests the flag again ...  The load is relaxed; here it is made before
\* that of the lease, as written.
TestPresent(p) ==
    /\ pc[p] = "test_present"
    /\ Goto(p, IF watcher_present = 0 THEN "idle" ELSE "test_lease")
    /\ UNCHANGED <<now, clock>>
    /\ UNCHANGED shared
    /\ UNCHANGED watchers

\* Mutant: the lease is not tested.
NeverExpired(until, reading) == FALSE

Expired(until, reading) == until < reading

\* ... then the lease ...
TestLease(p) ==
    /\ pc[p] = "test_lease"
    /\ Goto(p, IF Expired(watcher_lease_until_ns, now[p]) THEN "clear" ELSE "publish")
    /\ UNCHANGED <<now, clock>>
    /\ UNCHANGED shared
    /\ UNCHANGED watchers

\* ... and takes the flag down itself when the lease has run out.
\*
\* Mutants: the flag is a count of watchers; the expired call leaves it up.
ClearedAsCount == watcher_present - 1
NotCleared == watcher_present

Cleared == 0

ClearPresent(p) ==
    /\ pc[p] = "clear"
    /\ watcher_present' = Cleared
    /\ Goto(p, "idle")
    /\ UNCHANGED <<now, watcher_lease_until_ns, clock>>
    /\ UNCHANGED watchers

Publish(p) ==
    /\ pc[p] = "publish"
    /\ Goto(p, "idle")
    /\ UNCHANGED <<now, clock>>
    /\ UNCHANGED shared
    /\ UNCHANGED watchers

-----------------------------------------------------------------------------
(***************************************************************************)
(* A watcher: watchdog_session::attach, renew_lease, release, or its death.*)
(***************************************************************************)

\* attach has found a valid state and reads the clock for its renew_lease.
Attach(w) ==
    /\ session[w] = "none"
    /\ sessions < MaxSessions
    /\ sessions' = sessions + 1
    /\ session' = [session EXCEPT ![w] = "attaching"]
    /\ wpc' = [wpc EXCEPT ![w] = "first_store"]
    /\ wnow' = [wnow EXCEPT ![w] = clock]
    /\ UNCHANGED <<clock, renewed, crashed>>
    /\ UNCHANGED threads
    /\ UNCHANGED shared

\* observed_process::poll reads the clock after its snapshot, then renews.
Poll(w) ==
    /\ session[w] = "held"
    /\ wpc[w] = "idle"
    /\ wpc' = [wpc EXCEPT ![w] = "first_store"]
    /\ wnow' = [wnow EXCEPT ![w] = clock]
    /\ UNCHANGED <<session, sessions, renewed, crashed, clock>>
    /\ UNCHANGED shared
    /\ UNCHANGED threads

\* Mutant: the sum wraps around.
WrappedEnd(reading) == (reading + Duration) % (LastInstant + 1)

\* The end of a lease saturates: one that would end later does not end.
LeaseEnd(reading) ==
    IF Duration > LastInstant - reading THEN LastInstant ELSE reading + Duration

StoreLease(w) ==
    /\ watcher_lease_until_ns' = LeaseEnd(wnow[w])
    /\ renewed' = IF wnow[w] > renewed THEN wnow[w] ELSE renewed
    /\ UNCHANGED watcher_present

\* Mutant: only attach raises the flag, a poll renews the lease alone.
StorePresentOnAttach(w) ==
    /\ watcher_present' = IF session[w] = "attaching" THEN 1 ELSE watcher_present
    /\ UNCHANGED <<watcher_lease_until_ns, renewed>>

StorePresent(w) ==
    /\ watcher_present' = 1
    /\ UNCHANGED <<watcher_lease_until_ns, renewed>>

\* renew_lease stores the lease before the flag.
RenewFirst(w) ==
    /\ wpc[w] = "first_store"
    /\ StoreLease(w)
    /\ wpc' = [wpc EXCEPT ![w] = "second_store"]
    /\ UNCHANGED <<session, wnow, sessions, crashed, clock>>
    /\ UNCHANGED threads

RenewSecond(w) ==
    /\ wpc[w] = "second_store"
    /\ StorePresent(w)
    /\ wpc' = [wpc EXCEPT ![w] = "idle"]
    /\ session' = [session EXCEPT ![w] = "held"]
    /\ UNCHANGED <<wnow, sessions, crashed, clock>>
    /\ UNCHANGED threads

\* Mutant: the flag is left to the lease that release is about to end.
ReleaseLeaseOnly(w) ==
    /\ session[w] = "held"
    /\ wpc[w] = "idle"
    /\ wpc' = [wpc EXCEPT ![w] = "release_lease"]
    /\ UNCHANGED <<session, wnow, sessions, renewed, crashed, clock>>
    /\ UNCHANGED shared
    /\ UNCHANGED threads

\* release stores the flag before the lease, then drops the mapping.
ReleasePresent(w) ==
    /\ session[w] = "held"
    /\ wpc[w] = "idle"
    /\ watcher_present' = 0
    /\ wpc' = [wpc EXCEPT ![w] = "release_lease"]
    /\ UNCHANGED <<watcher_lease_until_ns, session, wnow, sessions, renewed, crashed, clock>>
    /\ UNCHANGED threads

ReleaseLease(w) ==
    /\ wpc[w] = "release_lease"
    /\ watcher_lease_until_ns' = 0
    /\ wpc' = [wpc EXCEPT ![w] = "idle"]
    /\ session' = [session EXCEPT ![w] = "none"]
    /\ UNCHANGED <<watcher_present, wnow, sessions, renewed, crashed, clock>>
    /\ UNCHANGED threads

Crash(w) ==
    /\ session[w] # "none"
    /\ session' = [session EXCEPT ![w] = "none"]
    /\ wpc' = [wpc EXCEPT ![w] = "idle"]
    /\ crashed' = crashed \cup {w}
    /\ UNCHANGED <<wnow, sessions, renewed, clock>>
    /\ UNCHANGED shared
    /\ UNCHANGED threads

\* A session that has been attached and not yet released.
Holding(w) == session[w] = "held" /\ wpc[w] # "release_lease"

\* Time passes, but not past the next reading of a watcher; the clock is a word, too.
Tick ==
    /\ clock < MaxClock
    /\ clock < LastInstant
    /\ \A w \in Watchers : session[w] = "attaching" \/ Holding(w) =>
                              clock < wnow[w] + PollPeriod
    /\ clock' = clock + 1
    /\ UNCHANGED shared
    /\ UNCHANGED threads
    /\ UNCHANGED watchers

-----------------------------------------------------------------------------
Init ==
    /\ watcher_present = 0
    /\ watcher_lease_until_ns = 0
    /\ clock = 1
    /\ pc = [p \in Threads |-> "idle"]
    /\ now = [p \in Threads |-> 0]
    /\ session = [w \in Watchers |-> "none"]
    /\ wpc = [w \in Watchers |-> "idle"]
    /\ wnow = [w \in Watchers |-> 0]
    /\ sessions = 0
    /\ renewed = 0
    /\ crashed = {}

CallStep(p) ==
    \/ Call(p)
    \/ ReadClock(p)
    \/ TestPresent(p)
    \/ TestLease(p)
    \/ ClearPresent(p)
    \/ Publish(p)

RenewStep(w) == Poll(w) \/ RenewFirst(w) \/ RenewSecond(w)

WatcherStep(w) ==
    \/ Attach(w)
    \/ RenewStep(w)
    \/ ReleasePresent(w)
    \/ ReleaseLease(w)
    \/ Crash(w)

Next ==
    \/ \E p \in Threads : CallStep(p)
    \/ \E w \in Watchers : WatcherStep(w)
    \/ Tick

\* The observed threads keep calling and a watcher that holds a session keeps
\* polling; nobody has to attach, release or die.
Fairness ==
    /\ \A p \in Threads : WF_vars(CallStep(p))
    /\ \A w \in Watchers : WF_vars(RenewStep(w)) /\ WF_vars(ReleaseLease(w))

Spec == Init /\ [][Next]_vars /\ Fairness

-----------------------------------------------------------------------------
(***************************************************************************)
(* Properties.                                                             *)
(***************************************************************************)

\* The state stays within its types.
TypeOK ==
    /\ watcher_present \in {0, 1}
    /\ watcher_lease_until_ns \in Nat
    /\ clock \in Nat
    /\ pc \in [Threads -> {"idle", "read_clock", "test_present", "test_lease",
                           "clear", "publish"}]
    /\ now \in [Threads -> Nat]
    /\ session \in [Watchers -> {"none", "attaching", "held"}]
    /\ wpc \in [Watchers -> {"idle", "first_store", "second_store", "release_lease"}]
    /\ wnow \in [Watchers -> Nat]
    /\ sessions \in Nat
    /\ renewed \in Nat
    /\ crashed \subseteq Watchers

\* No call gets through the gate later than one lease after the latest renewal
\* of any watcher, however calls, renewals, releases and deaths interleave:
\* a watcher that dies stops the instrumentation within one lease.
PublishedUnderLease ==
    \A p \in Threads : pc[p] = "publish" => now[p] <= renewed + Duration

\* Once every watcher has released its session, and none has died, the flag is
\* down: no renewal that was under way when another watcher released puts it up
\* for good.
SilentOnceReleased == NoSession /\ crashed = {} => watcher_present = 0

\* A watcher that has attached and polls at least twice per lease keeps the gate
\* open, to the end of time: no thread takes its flag down and its lease neither
\* runs out nor wraps around to one that is over.  (Of the
\* first session; a later one may lose its flag to a call that found the lease of
\* the one before expired, until its next poll: FlagComesBack.)
HeldOpen ==
    2 * PollPeriod <= Duration /\ sessions = 1 =>
        \A w \in Watchers : Holding(w) =>
            watcher_present = 1 /\ watcher_lease_until_ns >= clock

\* After the last watcher is gone and its lease over, the flag comes down.
FlagComesDown ==
    (NoSession /\ watcher_lease_until_ns < clock)
        ~> (watcher_present = 0 \/ ~NoSession)

\* A watcher that stays and polls is served again and again, whatever releases,
\* deaths and late calls of others did to the flag and the lease before.
FlagComesBack ==
    \A w \in Watchers :
        <>[]Holding(w) => []<>(\E p \in Threads : pc[p] = "publish")
=============================================================================
