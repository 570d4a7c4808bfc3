---------------------------- MODULE HeartbeatSlot ----------------------------
(***************************************************************************)
(* One heartbeat channel: the threads of the observed process that call    *)
(* client::heartbeat and client::set_channel_active for it, and a watcher  *)
(* in read_heartbeat.  The four channels share nothing but the lease, so   *)
(* one of them stands for all.                                             *)
(*                                                                         *)
(* The gate of the lease (WatcherLease) may turn any call away: a call     *)
(* that was turned away is one that returns early here.  Every access to   *)
(* the slot and to next_heartbeat_ns is a step.  All stores are releases,  *)
(* or precede one that is, and all loads acquires, so program order is the *)
(* order seen.                                                             *)
(***************************************************************************)
EXTENDS Integers, Sequences

CONSTANTS
    Threads,     \* threads that use the channel
    Interval,    \* minimum_interval_ns, 500 ms in the code
    MaxStall,    \* longest time from a call's clock reading to its end
    Watching,    \* whether a watcher reads the slot
    MaxClock     \* bound of the model: the clock stops there

ASSUME SlotAssumption ==
    /\ Interval \in Nat \ {0}
    /\ MaxStall \in Nat
    /\ Watching \in BOOLEAN
    /\ MaxClock \in Nat

VARIABLES
    clock,               \* the monotonic clock all processes share
    next_heartbeat_ns,   \* throttle, in the client
    active,              \* the slot in the shared state
    timestamp_ns,
    sequence,
    pc,                  \* where each thread is in its call
    now,                 \* clock reading of that call
    next,                \* its copy of next_heartbeat_ns
    rpc,                 \* where the reader is in read_heartbeat
    attempt,             \* its loop counter
    before,              \* first sequence loaded in this attempt
    result,              \* the heartbeat_snapshot it fills
    accepted,            \* history: clock readings the throttle let through
    stamps,              \* history: clock reading behind each sequence number
    first                \* history: sequence when the read began

slot    == <<active, timestamp_ns, sequence>>
threads == <<pc, now, next>>
reader  == <<rpc, attempt, before, result, first>>
history == <<accepted, stamps>>
vars == <<clock, next_heartbeat_ns, active, timestamp_ns, sequence, pc, now, next,
          rpc, attempt, before, result, first, accepted, stamps>>

Goto(p, label) == pc' = [pc EXCEPT ![p] = label]

-----------------------------------------------------------------------------
(***************************************************************************)
(* client::set_channel_active.  The store needs no lease; activation goes  *)
(* on into heartbeat.                                                      *)
(***************************************************************************)

SetChannelActive(p, on) ==
    /\ pc[p] = "idle"
    /\ active' = IF on THEN 1 ELSE 0
    /\ Goto(p, IF on THEN "start" ELSE "idle")
    /\ UNCHANGED <<clock, next_heartbeat_ns, timestamp_ns, sequence, now, next>>
    /\ UNCHANGED reader
    /\ UNCHANGED history

(***************************************************************************)
(* client::heartbeat.                                                      *)
(***************************************************************************)

ReadClock(p) ==
    /\ pc[p] \in {"idle", "start"}
    /\ now' = [now EXCEPT ![p] = clock]
    /\ Goto(p, "load_next")
    /\ UNCHANGED <<clock, next_heartbeat_ns, next>>
    /\ UNCHANGED slot
    /\ UNCHANGED reader
    /\ UNCHANGED history

\* No watcher, or an expired lease: before or after the clock was read.
TurnedAway(p) ==
    /\ pc[p] \in {"start", "load_next"}
    /\ Goto(p, "idle")
    /\ UNCHANGED <<clock, next_heartbeat_ns, now, next>>
    /\ UNCHANGED slot
    /\ UNCHANGED reader
    /\ UNCHANGED history

LoadNext(p) ==
    /\ pc[p] = "load_next"
    /\ next' = [next EXCEPT ![p] = next_heartbeat_ns]
    /\ Goto(p, "try")
    /\ UNCHANGED <<clock, next_heartbeat_ns, now>>
    /\ UNCHANGED slot
    /\ UNCHANGED reader
    /\ UNCHANGED history

\* Too early: the call ends without a beat.
Throttle(p) ==
    /\ pc[p] = "try"
    /\ now[p] < next[p]
    /\ Goto(p, "throttled")
    /\ UNCHANGED <<clock, next_heartbeat_ns, now, next>>
    /\ UNCHANGED slot
    /\ UNCHANGED reader
    /\ UNCHANGED history

ReturnThrottled(p) ==
    /\ pc[p] = "throttled"
    /\ Goto(p, "idle")
    /\ UNCHANGED <<clock, next_heartbeat_ns, now, next>>
    /\ UNCHANGED slot
    /\ UNCHANGED reader
    /\ UNCHANGED history

\* Mutants: a plain store instead of the compare-exchange; a doubled interval.
StoreNext(p) == TRUE
NextBeatDoubled(t) == t + 2 * Interval

Exchanged(p) == next_heartbeat_ns = next[p]
NextBeat(t)  == t + Interval

\* compare_exchange_weak; a spurious failure changes nothing and loops.
Accept(p) ==
    /\ pc[p] = "try"
    /\ now[p] >= next[p]
    /\ Exchanged(p)
    /\ next_heartbeat_ns' = NextBeat(now[p])
    /\ accepted' = Append(accepted, now[p])
    /\ Goto(p, "store_active")
    /\ UNCHANGED <<clock, now, next, stamps>>
    /\ UNCHANGED slot
    /\ UNCHANGED reader

Retry(p) ==
    /\ pc[p] = "try"
    /\ now[p] >= next[p]
    /\ ~Exchanged(p)
    /\ next' = [next EXCEPT ![p] = next_heartbeat_ns]
    /\ UNCHANGED <<clock, next_heartbeat_ns, pc, now>>
    /\ UNCHANGED slot
    /\ UNCHANGED reader
    /\ UNCHANGED history

StoreActive(p) ==
    /\ pc[p] = "store_active"
    /\ active' = 1
    /\ Goto(p, "store_timestamp")
    /\ UNCHANGED <<clock, next_heartbeat_ns, timestamp_ns, sequence, now, next>>
    /\ UNCHANGED reader
    /\ UNCHANGED history

StoreTimestamp(p) ==
    /\ pc[p] = "store_timestamp"
    /\ timestamp_ns' = now[p]
    /\ Goto(p, "bump_sequence")
    /\ UNCHANGED <<clock, next_heartbeat_ns, active, sequence, now, next>>
    /\ UNCHANGED reader
    /\ UNCHANGED history

BumpSequence(p) ==
    /\ pc[p] = "bump_sequence"
    /\ sequence' = sequence + 1
    /\ stamps' = Append(stamps, now[p])
    /\ Goto(p, "idle")
    /\ UNCHANGED <<clock, next_heartbeat_ns, active, timestamp_ns, now, next, accepted>>
    /\ UNCHANGED reader

-----------------------------------------------------------------------------
(***************************************************************************)
(* read_heartbeat: at most three attempts to load the fields between two   *)
(* equal sequence numbers; the last attempt is reported whatever it found. *)
(***************************************************************************)

\* Mutant: no second attempt.
SingleAttempt == 1

\* attempt < 3
Attempts == 3

\* Mutant: one attempt too many.
BeyondLast(n) == n > Attempts

IsLast(n) == n >= Attempts

ReaderStep == /\ UNCHANGED <<clock, next_heartbeat_ns>>
              /\ UNCHANGED slot
              /\ UNCHANGED threads
              /\ UNCHANGED history

BeginRead ==
    /\ Watching
    /\ rpc = "done"
    /\ before' = sequence
    /\ first' = sequence
    /\ attempt' = 1
    /\ rpc' = "active"
    /\ UNCHANGED result
    /\ ReaderStep

LoadActive ==
    /\ rpc = "active"
    /\ result' = [result EXCEPT !.active = active]
    /\ rpc' = "timestamp"
    /\ UNCHANGED <<attempt, before, first>>
    /\ ReaderStep

LoadTimestamp ==
    /\ rpc = "timestamp"
    /\ result' = [result EXCEPT !.timestamp_ns = timestamp_ns]
    /\ rpc' = "after"
    /\ UNCHANGED <<attempt, before, first>>
    /\ ReaderStep

LoadAfter ==
    /\ rpc = "after"
    /\ result' = [result EXCEPT !.sequence = sequence]
    /\ rpc' = IF before = sequence \/ IsLast(attempt) THEN "done" ELSE "before"
    /\ UNCHANGED <<attempt, before, first>>
    /\ ReaderStep

LoadBefore ==
    /\ rpc = "before"
    /\ attempt' = attempt + 1
    /\ before' = sequence
    /\ rpc' = "active"
    /\ UNCHANGED <<result, first>>
    /\ ReaderStep

-----------------------------------------------------------------------------
\* Labels between a call's clock reading and its last access.
Timed == {"load_next", "try", "throttled", "store_active", "store_timestamp",
          "bump_sequence"}

\* Time passes; no call outlives MaxStall.
Tick ==
    /\ clock < MaxClock
    /\ \A p \in Threads : pc[p] \in Timed => clock < now[p] + MaxStall
    /\ clock' = clock + 1
    /\ UNCHANGED next_heartbeat_ns
    /\ UNCHANGED slot
    /\ UNCHANGED threads
    /\ UNCHANGED reader
    /\ UNCHANGED history

Init ==
    /\ clock = 1
    /\ next_heartbeat_ns = 0
    /\ active = 0
    /\ timestamp_ns = 0
    /\ sequence = 0
    /\ pc = [p \in Threads |-> "idle"]
    /\ now = [p \in Threads |-> 0]
    /\ next = [p \in Threads |-> 0]
    /\ rpc = "done"
    /\ attempt = 1
    /\ before = 0
    /\ result = [active |-> 0, timestamp_ns |-> 0, sequence |-> 0]
    /\ first = 0
    /\ accepted = <<>>
    /\ stamps = <<>>

HeartbeatStep(p) ==
    \/ ReadClock(p)
    \/ TurnedAway(p)
    \/ LoadNext(p)
    \/ Throttle(p)
    \/ ReturnThrottled(p)
    \/ Accept(p)
    \/ Retry(p)
    \/ StoreActive(p)
    \/ StoreTimestamp(p)
    \/ BumpSequence(p)

Next ==
    \/ \E p \in Threads : \E on \in BOOLEAN : SetChannelActive(p, on)
    \/ \E p \in Threads : HeartbeatStep(p)
    \/ BeginRead \/ LoadActive \/ LoadTimestamp \/ LoadAfter \/ LoadBefore
    \/ Tick

Spec == Init /\ [][Next]_vars

-----------------------------------------------------------------------------
(***************************************************************************)
(* Properties.                                                             *)
(***************************************************************************)

\* The state stays within its types; in particular the reader never makes a
\* fourth attempt.
TypeOK ==
    /\ clock \in Nat
    /\ next_heartbeat_ns \in Nat
    /\ active \in {0, 1}
    /\ timestamp_ns \in Nat
    /\ sequence \in Nat
    /\ pc \in [Threads -> Timed \cup {"idle", "start"}]
    /\ now \in [Threads -> Nat]
    /\ next \in [Threads -> Nat]
    /\ rpc \in {"done", "before", "active", "timestamp", "after"}
    /\ attempt \in 1 .. Attempts
    /\ before \in Nat
    /\ result \in [active : {0, 1}, timestamp_ns : Nat, sequence : Nat]
    /\ first \in Nat
    /\ accepted \in Seq(Nat)
    /\ stamps \in Seq(Nat)

\* The throttle holds for all threads together: of the beats it lets through on
\* one channel any two were timed at least Interval apart, in the order in which
\* it let them through, however the compare-exchange loops interleave.
RateLimited ==
    \A i, j \in 1 .. Len(accepted) : i < j => accepted[i] + Interval <= accepted[j]

\* No call is preempted for as long as Interval.
Prompt == MaxStall < Interval

\* The throttle is the only thing that keeps two beats from storing into the slot
\* together.  While no call stalls for Interval it does: the timestamp never goes
\* back, and moves by Interval or more.
TimestampAdvances ==
    [][Prompt /\ timestamp_ns # 0 /\ timestamp_ns' # timestamp_ns
         => timestamp_ns' >= timestamp_ns + Interval]_vars

\* A beat the throttle let through is on its way to the slot.
Storing(p) == pc[p] \in {"store_active", "store_timestamp", "bump_sequence"}

\* A beat is dropped only in favour of one less than Interval older, already in the
\* slot or about to be: the throttle never makes a channel look older than that.
ThrottledIsFresh ==
    Prompt => \A p \in Threads : pc[p] = "throttled" =>
        now[p] < timestamp_ns + Interval \/ \E q \in Threads : Storing(q)

\* The watcher never pairs a sequence number with a timestamp older than that
\* beat's, unless a beat ended in each of its three attempts.
ReadFresh ==
    Prompt /\ rpc = "done" /\ 0 < result.sequence /\ result.sequence < first + 3
        => result.timestamp_ns >= stamps[result.sequence]
=============================================================================
