---------------------------- MODULE ConsoleWatch ----------------------------
(***************************************************************************)
(* The console watcher, run_console_watch, with the observed_process and   *)
(* the process_handle it owns, against an Endpoint: from the handle on the *)
(* process identifier it was given, over the attempts to attach, to the    *)
(* polling loop and the code it returns.  Each system call and each read   *)
(* of the shared object is a step, between which the process may start,    *)
(* stop, die, and its identifier go to another process.                    *)
(*                                                                         *)
(* Of an observation only its status and the lifecycle it carries are      *)
(* kept; of a resource sample, which process each of its two files         *)
(* described.  Opening the object and reading a file of /proc may fail     *)
(* although the object and the process are there; the code makes no        *)
(* difference, and two history variables remember such reads.  The lease   *)
(* is WatcherLease, heartbeats and breadcrumbs are HeartbeatSlot and       *)
(* BreadcrumbRing.                                                         *)
(***************************************************************************)
EXTENDS Endpoint

CONSTANT MaxAttempts   \* attempts to attach, 50 in the code

ASSUME ConsoleAssumption == MaxAttempts \in Nat \ {0}

VARIABLES
    stop_requested,    \* set by the signal handler
    once,              \* option --once
    wpc,               \* where the watcher is
    asked,             \* who called alive(), or wait_for_exit without a descriptor
    start_ticks,       \* start time in the handle's identity
    pid_descriptor,    \* process the handle's descriptor refers to, or None
    attempt,           \* attempts to attach so far
    opened,            \* object under examination in attach
    session,           \* object of the attached session, or None
    sample,            \* process described by /proc/PID/status and /stat, or None
    snapshot,          \* lifecycle in the snapshot at hand
    status,            \* status of the latest observation
    report,            \* lifecycle printed after the process exited, or "nothing"
    exit_code,         \* what run_console_watch returned, or -1
    misread,           \* history: since the attach, a read of /proc failed although
                       \* the process had not exited
    mistaken           \* history: such a read answered the alive() after the loop

handleVars == <<start_ticks, pid_descriptor>>
pollVars == <<sample, snapshot, status>>
watcherVars == <<stop_requested, once, wpc, asked, start_ticks, pid_descriptor, attempt,
                 opened, session, sample, snapshot, status, report, exit_code,
                 misread, mistaken>>
vars == <<proc, phase, cpc, mapping, linked, objects,
          stop_requested, once, wpc, asked, start_ticks, pid_descriptor, attempt,
          opened, session, sample, snapshot, status, report, exit_code, misread, mistaken>>

historyVars == <<misread, mistaken>>

Returned == exit_code # -1

\* The process p has terminated: its descriptor polls readable.
Exited(p) == p # proc \/ phase \in {"zombie", "none"}

\* /proc/PID/stat exists; it describes proc, also as a zombie.
StatReadable == phase # "none"

-----------------------------------------------------------------------------
(***************************************************************************)
(* Control flow.                                                           *)
(***************************************************************************)

Goto(label) == wpc' = label /\ asked' = "nobody" /\ UNCHANGED exit_code

\* alive() is a subroutine; asked says where it returns to.
CallAlive(who) == wpc' = "poll_descriptor" /\ asked' = who /\ UNCHANGED exit_code

\* Within alive() or within the final poll.
Stay(label) == wpc' = label /\ UNCHANGED <<asked, exit_code>>

Return(code) == wpc' = "returned" /\ exit_code' = code /\ asked' = "nobody"

KeptAside == UNCHANGED <<stop_requested, once>> /\ UNCHANGED endpointVars
Kept      == KeptAside /\ UNCHANGED historyVars

\* A file of /proc, there or not, may fail to open or to parse: no descriptor left,
\* access denied.  The reader cannot tell it from an exit; the history does.
ReadFails ==
    LET premature == session # None /\ ~Exited(start_ticks)
        final == wpc = "reread_identity" /\ asked = "ended"
    IN  /\ misread' = (misread \/ premature)
        /\ mistaken' = (mistaken \/ (premature /\ final))

\* process_handle::attach: first the identity, if it can be read ...
ReadIdentity ==
    /\ wpc = "read_identity"
    /\ \/ /\ StatReadable
          /\ start_ticks' = proc
          /\ Goto("open_descriptor")
       \/ /\ Return(1)
          /\ UNCHANGED start_ticks
    /\ UNCHANGED <<pid_descriptor, attempt, opened, session, report>>
    /\ UNCHANGED pollVars
    /\ Kept

\* ... then the descriptor, of whoever has the identifier by now; without one
\* (an old kernel, no process) the handle falls back on kill(pid, 0).
OpenDescriptor ==
    /\ wpc = "open_descriptor"
    /\ pid_descriptor' \in {None} \cup (IF StatReadable THEN {proc} ELSE {})
    /\ Goto("attempt")
    /\ UNCHANGED <<start_ticks, attempt, opened, session, report>>
    /\ UNCHANGED pollVars
    /\ Kept

\* Mutant: one attempt too many.
OneMoreAttempt == attempt <= MaxAttempts

AttemptsLeft == attempt < MaxAttempts

\* Head of the loop of attempts.
Attempt ==
    /\ wpc = "attempt"
    /\ IF AttemptsLeft /\ ~stop_requested
       THEN CallAlive("attempt") ELSE Goto("attempted")
    /\ UNCHANGED <<attempt, opened, session, report>>
    /\ UNCHANGED handleVars
    /\ UNCHANGED pollVars
    /\ Kept

\* Mutant: a failed attempt is not counted.
SameAttempt == attempt

NextAttempt == attempt + 1

\* After the loop of attempts, whose counter is gone.
Attempted ==
    /\ wpc = "attempted"
    /\ \/ stop_requested /\ Return(0)
       \/ ~stop_requested /\ session = None /\ Return(1)
       \/ ~stop_requested /\ session # None /\ Goto("loop")
    /\ attempt' = 0
    /\ UNCHANGED <<opened, session, report>>
    /\ UNCHANGED handleVars
    /\ UNCHANGED pollVars
    /\ Kept

\* Head of the polling loop.
Loop ==
    /\ wpc = "loop"
    /\ Goto(IF stop_requested THEN "ended" ELSE "read_status")
    /\ UNCHANGED <<attempt, opened, session, report>>
    /\ UNCHANGED handleVars
    /\ UNCHANGED pollVars
    /\ Kept

\* After the polling loop: has the process gone?
Ended ==
    /\ wpc = "ended"
    /\ CallAlive("ended")
    /\ UNCHANGED <<attempt, opened, session, report>>
    /\ UNCHANGED handleVars
    /\ UNCHANGED pollVars
    /\ Kept

-----------------------------------------------------------------------------
(***************************************************************************)
(* process_handle::alive and wait_for_exit.                                *)
(***************************************************************************)

\* What each caller does with the answer.
OnAlive ==
    CASE asked = "attempt"    -> Goto("try_attach")
      [] asked = "try_attach" -> Goto("open")
      [] asked = "pause"      -> Goto("next_attempt")
      [] asked = "poll"       -> Goto("accept")
      [] asked = "interval"   -> Goto("loop")
      [] asked = "ended"      -> Return(0)
      [] asked = "final_poll" -> Stay("accept")

\* Mutant: the lifecycle of the observation that found the process dead is
\* printed, without another poll.
FinalFromLatest == "print"

\* The final state comes from a poll of its own.
FinalPoll == "read_status"

OnDead ==
    CASE asked = "attempt"    -> Goto("attempted")
      [] asked = "try_attach" -> Goto("pause")
      [] asked = "pause"      -> Goto("attempted")
      [] asked = "poll"       -> Goto("exited")
      [] asked = "interval"   -> Goto("ended")
      [] asked = "ended"      -> Stay(FinalPoll)
      [] asked = "final_poll" -> Stay("exited")

\* The descriptor, or kill(pid, 0) without one.
PollDescriptor ==
    /\ wpc = "poll_descriptor"
    /\ IF IF pid_descriptor # None THEN Exited(pid_descriptor) ELSE ~StatReadable
       THEN OnDead ELSE Stay("reread_identity")
    /\ UNCHANGED <<attempt, opened, session, report>>
    /\ UNCHANGED handleVars
    /\ UNCHANGED pollVars
    /\ Kept

\* Mutant: whoever has the identifier will do.
AnyIdentity == StatReadable

SameIdentity == StatReadable /\ proc = start_ticks

\* A read that fails means dead, too.
RereadIdentity ==
    /\ wpc = "reread_identity"
    /\ \/ SameIdentity /\ OnAlive /\ UNCHANGED historyVars
       \/ OnDead /\ ReadFails
    /\ UNCHANGED <<attempt, opened, session, report>>
    /\ UNCHANGED handleVars
    /\ UNCHANGED pollVars
    /\ KeptAside

\* wait_for_exit: with a descriptor the wait ends with the process or the time.
Wait(label, onExit, onTime) ==
    /\ wpc = label
    /\ IF pid_descriptor # None
       THEN Goto(IF Exited(pid_descriptor) THEN onExit ELSE onTime)
       ELSE CallAlive(label)
    /\ UNCHANGED <<attempt, opened, session, report>>
    /\ UNCHANGED handleVars
    /\ UNCHANGED pollVars
    /\ Kept

Pause    == Wait("pause", "attempted", "next_attempt")
Interval == Wait("interval", "ended", "loop")

CountAttempt ==
    /\ wpc = "next_attempt"
    /\ attempt' = NextAttempt
    /\ Goto("attempt")
    /\ UNCHANGED <<opened, session, report>>
    /\ UNCHANGED handleVars
    /\ UNCHANGED pollVars
    /\ Kept

-----------------------------------------------------------------------------
(***************************************************************************)
(* observed_process::try_attach and watchdog_session::attach.              *)
(***************************************************************************)

TryAttach ==
    /\ wpc = "try_attach"
    /\ CallAlive("try_attach")
    /\ UNCHANGED <<attempt, opened, session, report>>
    /\ UNCHANGED handleVars
    /\ UNCHANGED pollVars
    /\ Kept

\* open_process_mapping: shm_open by name, which may fail although it is linked ...
Open ==
    /\ wpc = "open"
    /\ opened' \in {None, linked}
    /\ Goto(IF opened' = None THEN "pause" ELSE "check_size")
    /\ UNCHANGED <<attempt, session, report>>
    /\ UNCHANGED handleVars
    /\ UNCHANGED pollVars
    /\ Kept

\* A test on the opened object, which is closed again when it fails.
Check(passed, label) ==
    /\ opened' = IF passed THEN opened ELSE None
    /\ Goto(IF passed THEN label ELSE "pause")

\* ... and a check of the size it has by then; fstat and mmap may fail as well.
CheckSize ==
    /\ wpc = "check_size"
    /\ \E usable \in {objects[opened].sized, FALSE} : Check(usable, "check_header")
    /\ UNCHANGED <<attempt, session, report>>
    /\ UNCHANGED handleVars
    /\ UNCHANGED pollVars
    /\ Kept

\* valid_state: everything up to the identifier ...
CheckHeader ==
    /\ wpc = "check_header"
    /\ Check(objects[opened].header, "check_ticks")
    /\ UNCHANGED <<attempt, session, report>>
    /\ UNCHANGED handleVars
    /\ UNCHANGED pollVars
    /\ Kept

\* Mutant: any complete object with the identifier's name will do.
AnyTicks == objects[opened].process_start_ticks # 0

OurTicks == objects[opened].process_start_ticks = start_ticks

\* ... and the start time last.
CheckTicks ==
    /\ wpc = "check_ticks"
    /\ session' = IF OurTicks THEN opened ELSE None
    /\ opened' = None
    /\ Goto(IF OurTicks THEN "attempted" ELSE "pause")
    /\ UNCHANGED <<attempt, report>>
    /\ UNCHANGED handleVars
    /\ UNCHANGED pollVars
    /\ Kept

-----------------------------------------------------------------------------
(***************************************************************************)
(* observed_process::poll, sample_process and accept_sample.               *)
(***************************************************************************)

NoSample == [memory |-> None, identity |-> None]

\* VmRSS is there as long as the process has its memory.
ReadStatus ==
    /\ wpc = "read_status"
    /\ \/ /\ Runs
          /\ sample' = [sample EXCEPT !.memory = proc]
          /\ UNCHANGED historyVars
       \/ /\ sample' = [sample EXCEPT !.memory = None]
          /\ ReadFails
    /\ Stay("read_stat")
    /\ UNCHANGED <<attempt, opened, session, report, snapshot, status>>
    /\ UNCHANGED handleVars
    /\ KeptAside

ReadStat ==
    /\ wpc = "read_stat"
    /\ \/ /\ StatReadable
          /\ sample' = [sample EXCEPT !.identity = proc]
          /\ UNCHANGED historyVars
       \/ /\ sample' = [sample EXCEPT !.identity = None]
          /\ ReadFails
    /\ Stay("snapshot")
    /\ UNCHANGED <<attempt, opened, session, report, snapshot, status>>
    /\ UNCHANGED handleVars
    /\ KeptAside

\* The process is asked for after the snapshot was taken.
TakeSnapshot ==
    /\ wpc = "snapshot"
    /\ snapshot' = objects[session].process_lifecycle
    /\ CallAlive(IF asked = "ended" THEN "final_poll" ELSE "poll")
    /\ UNCHANGED <<attempt, opened, session, report, sample, status>>
    /\ UNCHANGED handleVars
    /\ Kept

\* The sample's start time against the handle's.
\* Mutant: against the descriptor's process.
AgainstDescriptor == sample.identity = pid_descriptor

IdentityKept == sample.identity = start_ticks

AcceptSample ==
    /\ wpc = "accept"
    /\ status' = CASE sample.memory = None \/ sample.identity = None -> "sample_unavailable"
                   [] sample.identity # None /\ sample.memory # None /\ ~IdentityKept
                         -> "identity_changed"
                   [] OTHER -> "sampled"
    /\ sample' = NoSample
    /\ Goto(IF asked = "final_poll" THEN "print" ELSE "observed")
    /\ UNCHANGED <<attempt, opened, session, report, snapshot>>
    /\ UNCHANGED handleVars
    /\ Kept

AcceptExit ==
    /\ wpc = "exited"
    /\ status' = "exited"
    /\ sample' = NoSample
    /\ Goto(IF asked = "final_poll" THEN "print" ELSE "ended")
    /\ UNCHANGED <<attempt, opened, session, report, snapshot>>
    /\ UNCHANGED handleVars
    /\ Kept

\* The console writes out an observation of a live process, and does not look at
\* it again.
Observed ==
    /\ wpc = "observed"
    /\ \/ status # "sampled" /\ Return(1)
       \/ status = "sampled" /\ Goto(IF once THEN "ended" ELSE "interval")
    /\ snapshot' = "zero"
    /\ UNCHANGED <<attempt, opened, session, report, sample, status>>
    /\ UNCHANGED handleVars
    /\ Kept

PrintLifecycle ==
    /\ wpc = "print"
    /\ report' = snapshot
    /\ Return(0)
    /\ UNCHANGED <<attempt, opened, session>>
    /\ UNCHANGED handleVars
    /\ UNCHANGED pollVars
    /\ Kept

-----------------------------------------------------------------------------
\* SIGINT or SIGTERM.
HandleSignal ==
    /\ ~stop_requested
    /\ ~Returned
    /\ stop_requested' = TRUE
    /\ UNCHANGED <<once, wpc, asked, attempt, opened, session, report, exit_code>>
    /\ UNCHANGED historyVars
    /\ UNCHANGED handleVars
    /\ UNCHANGED pollVars
    /\ UNCHANGED endpointVars

Init ==
    /\ EndpointInit
    /\ stop_requested = FALSE
    /\ once \in BOOLEAN
    /\ wpc = "read_identity"
    /\ asked = "nobody"
    /\ start_ticks = 0
    /\ pid_descriptor = None
    /\ attempt = 0
    /\ opened = None
    /\ session = None
    /\ sample = NoSample
    /\ snapshot = "zero"
    /\ status = "not_attached"
    /\ report = "nothing"
    /\ exit_code = -1
    /\ misread = FALSE
    /\ mistaken = FALSE

WatcherStep ==
    \/ ReadIdentity \/ OpenDescriptor
    \/ Attempt \/ TryAttach \/ Open \/ CheckSize \/ CheckHeader \/ CheckTicks
    \/ Pause \/ CountAttempt \/ Attempted
    \/ Loop \/ ReadStatus \/ ReadStat \/ TakeSnapshot \/ AcceptSample \/ AcceptExit
    \/ Observed \/ Interval \/ Ended \/ PrintLifecycle
    \/ PollDescriptor \/ RereadIdentity

Next ==
    \/ EndpointNext /\ UNCHANGED watcherVars
    \/ WatcherStep
    \/ HandleSignal

\* The watcher is scheduled; nothing is assumed of the process it watches.
Spec == Init /\ [][Next]_vars /\ WF_vars(WatcherStep)

-----------------------------------------------------------------------------
(***************************************************************************)
(* Properties.                                                             *)
(***************************************************************************)

\* The state stays within its types.
TypeOK ==
    /\ EndpointTypeOK
    /\ stop_requested \in BOOLEAN
    /\ once \in BOOLEAN
    /\ wpc \in {"read_identity", "open_descriptor", "attempt", "attempted", "try_attach",
                "open", "check_size", "check_header", "check_ticks", "pause",
                "next_attempt", "loop", "read_status", "read_stat", "snapshot", "accept",
                "exited", "observed", "interval", "ended", "print", "poll_descriptor",
                "reread_identity", "returned"}
    /\ asked \in {"nobody", "attempt", "try_attach", "pause", "poll", "interval", "ended",
                  "final_poll"}
    /\ start_ticks \in Nat
    /\ pid_descriptor \in Nat
    /\ attempt \in 0 .. MaxAttempts
    /\ opened \in Created \cup {None}
    /\ session \in Created \cup {None}
    /\ sample \in [memory : Nat, identity : Nat]
    /\ snapshot \in Lifecycles
    /\ status \in {"not_attached", "sampled", "sample_unavailable", "identity_changed",
                   "exited"}
    /\ report \in Lifecycles \cup {"nothing"}
    /\ exit_code \in {-1, 0, 1}
    /\ misread \in BOOLEAN
    /\ mistaken \in BOOLEAN

\* The session is on the shared object of the very process the handle was opened
\* for, not on one left behind by an earlier process with the same identifier or
\* made by a later one.
RightProcess == session # None => objects[session].maker = start_ticks

\* "PID incarnation mismatch is rejected instead of adopted": in a poll it never
\* gets as far as a mismatch.  A process that was replaced between any two steps of
\* the handle or the poll counts as exited, even when the handle's descriptor
\* belongs to its successor.
ReplacedIsExited == status # "identity_changed"

\* "retained mapping preserves final producer lifecycle": what is printed after the
\* exit is the last lifecycle the process stored in the object the session is on,
\* however late it stored it, and the process has exited indeed.  A client that was
\* stopped and started again goes on in another object, of which the session knows
\* nothing.  The one way to be told of an exit that never was is a failed read of the
\* identity in the alive() after the polling loop.
FinalLifecycle ==
    report # "nothing" /\ ~mistaken =>
        /\ Exited(start_ticks)
        /\ report = objects[session].process_lifecycle

\* An attached console leaves a process that runs only because it was asked to, by a
\* signal or by --once, and then without an error: whatever files of /proc, the
\* descriptor and the shared object say while the process exits or its identifier
\* changes hands, the console neither fails on it nor takes it for dead.  What it does
\* not survive is a single failed read of /proc: nothing is read again.
LeavesOnlyOnExit ==
    Returned /\ session # None /\ ~misread =>
        \/ ~(Runs /\ proc = start_ticks)
        \/ exit_code = 0 /\ (stop_requested \/ once)

\* The console returns once it was asked to stop or the process has terminated, also
\* when nobody waits for the zombie, when there is no descriptor or when it is
\* another process's.
WatchEnds ==
    (stop_requested \/ (start_ticks # 0 /\ Exited(start_ticks))) ~> Returned
=============================================================================
