# TLA+ specifications of the process watchdog

The program under `core/` lets one process watch another. The observed program
links a small *client* that publishes heartbeats and breadcrumbs into a shared
memory object; the *monitor* program finds that object by process identifier,
reads it without ever blocking the producer, and reports how the process is
doing. The two sides share nothing but memory, a clock and `/proc`; either may
be preempted, killed or restarted at any point. These modules state what the
code promises under those conditions, check it on small instances with TLC and
prove the central promises for all instances with TLAPS.

The repository's CI decides from calls to the GitHub API whether a commit has to be
verified again and whether it may be published; that protocol is modelled too.

Paths below are relative to `core/`, those of the CI to `.github/`.

## The system

| component | code | state | operations | talks to |
|---|---|---|---|---|
| contract | `include/monitor/shared_state.hpp` | the shared object: header, `process_lifecycle`, `watcher_present`, `watcher_lease_until_ns`, four `heartbeat_slot`s, `breadcrumb_ticket`, 128 `breadcrumb_slot`s | atomic loads and stores | everything |
| client | `src/monitor/client.cpp` | `state_`, the mapping, `next_heartbeat_ns` per channel | `start`, `stop`, `heartbeat`, `set_channel_active`, `breadcrumb`, from any thread | shared object; shared memory |
| session | `src/monitor/watchdog.cpp` | the watcher's mapping | `attach`, `snapshot`, `renew_lease`, `release` | shared object |
| health, memory trend | `src/monitor/watchdog.cpp` | a deque of RSS points | `classify_health`, `memory_trend::add`, `summary` | pure |
| observation | `src/monitor/observed_process.cpp` | handle, session, previous sample, trend | `attach`, `try_attach`, `poll`, `alive`, `wait_for_exit` | session, process watch |
| console | `src/monitor/console_watch.cpp`, `src/main.cpp` | loop counter, `stop_requested` | `run_console_watch`, the command line | observation |
| shared memory | `src/monitor/platform/shared_memory.cpp` | mapping, name, owner flag | `create_process_mapping`, `open_process_mapping`, `reset` | the operating system |
| process watch | `src/monitor/platform/process_watch.cpp` | identity, pid descriptor | `attach`, `alive`, `wait_for_exit`, `sample_process` | `/proc`, `pidfd` |
| Qt adapter | `src/monitor/qt/gui_heartbeat.cpp` | a timer | a beat per period on the `gui` channel | client |
| CI evidence | `actions/select-manifesto-ci/evidence.cjs` | none between calls; artifacts of runs | `record`, `select`, `publication`, `revalidatePublication`, `checkPublicationTip` | the GitHub API |
| CI workflows | `workflows/{tests,codeql,html}.yml` | runs, attempts, the deployed pages | what starts, cancels and orders the runs of Checks, CodeQL and Deploy | CI evidence |
| CI change selection | `actions/select-manifesto-ci/changes.cjs` | none | which change a CI event stands for | git |

### What is hard about it

* **Ring.** `breadcrumb` is a seqlock per slot with many writers: a thread that
  stalls inside a call is *lapped* when the others take 128 more tickets, and two
  calls are then in one slot. The payload accesses are relaxed. A reader must
  recognise every torn slot and must never wait for one. What makes it correct:
  what is reported is intact, nothing that is still there is left out, and a
  snapshot ends.
* **Lease.** Instrumentation is on only while a watcher is there, and a watcher
  may die without saying so. Producers take the flag down themselves when the
  lease has run out, in a test and a later store; all watchers share one flag and
  one lease. Correct means: silent soon after the last watcher, open for every
  watcher that keeps polling.
* **Heartbeat slot.** Threads race through a throttle made of one
  compare-exchange; the throttle is also the only thing that keeps two beats from
  storing into the slot together. The reader compares sequence numbers only.
* **Identity.** The name of the object is the process identifier, and identifiers
  are reused. The handle reads the start time, opens a descriptor, opens an
  object and reads two files of `/proc`, one after the other, while the process
  may exit and be replaced between any two of them.
* **Baseline and window.** The CPU share is a difference to the sample before, which
  must not reach over a failed sample; the trend drops points by count and by age
  but only when another one comes, and always keeps two.
* **Publication.** A Deploy run sees the other workflows by calls made one after the
  other, while runs are repeated, cancelled or fail, artifacts expire, the branch
  moves on and another Deploy run is under way. Each call sees a part; the
  conclusion has to hold of the whole.
* **Life and death.** `start` builds the object in steps that a watcher may see
  and a kill may interrupt; `stop` takes it down in two. The watcher wants the
  last lifecycle the process stored in the object it has mapped, and must return
  however the process ends.

`PROJECT.json` lists each of these hazards at its line with the properties that
cover it, and the ones no property covers yet.

## Modules

| module | stands for |
|---|---|
| `BreadcrumbRing` | `client::breadcrumb` against `snapshot`/`read_breadcrumb`, one step per shared access |
| `BreadcrumbLog` | abstract: what the ring promises with one publishing thread |
| `BreadcrumbRingLog` | the ring as an implementation of the log: its state mapped to the log's |
| `WatcherLease` | the gate (`active_state`) against `attach`, `renew_lease`, `release` and the death of watchers |
| `HeartbeatSlot` | `client::heartbeat`, `set_channel_active` against `read_heartbeat`, one channel |
| `Endpoint` | `client::start`/`stop`, `create_process_mapping`, `reset`, and the processes that own one identifier in turn |
| `ConsoleWatch` | `run_console_watch` with `observed_process` and `process_handle`, composed with `Endpoint` |
| `Health` | `classify_health`, as operators on a snapshot and a time |
| `WatchCycle` | beats, throttle, lease, poll and verdict on one clock, with `gui_heartbeat` as a producer |
| `MemoryTrend` | `memory_trend`, as operators on a sequence of points |
| `Observation` | `sample_process` and `accept_sample`: CPU share and trend over the polls of one process |
| `Publication` | `evidence.cjs` and the workflows that call it, one step per call to the API |
| `MC*` | instances for TLC: what is small and why it is enough, the symmetries |
| `*_proofs` | the theorems about the module they are named for |

### State and steps

A **thread of the observed process** is a program counter over the shared
accesses of one call. In `BreadcrumbRing` the counter is the *set* of accesses
not yet visible (`wtodo`), which gives the two memory orders of the module for
the price of one: with `ProgramOrder` an access is made when all earlier ones
have been; without, when those it is *ordered after* by the C++ memory orders
have been, which for a relaxed payload store is none. Readers are the same with
`rtodo`. A payload field is abstracted to the ticket of the call that stored it:
a breadcrumb is torn exactly when two of its cells differ.

**Time** is a number that a `Tick` raises. The bounds `PollPeriod` and `MaxStall`
are promises about the environment (a watcher polls that often, a call does not
stall longer); they are guards of `Tick` and not of the code's steps, so nothing
is ever forced to happen, only time waits. A property that needs such a promise
says so in its own text (`2 * PollPeriod <= Duration`, `Prompt`).

**A process** in `Endpoint` is a number, its start time; the identifier all of
them share is left out. Dying takes three steps because the code can tell them
apart: memory gone (`VmRSS` missing), zombie (descriptor readable, `/proc/PID/stat`
still there), reaped (nothing there, identifier free for the next).

**The console watcher** is sequential: `wpc` is its program counter, `asked` the
return address of the subroutine `alive()`. Every system call is a step of its own,
and may fail although what it asks for is there: opening the object and mapping it,
reading a file of `/proc`. The code takes a failed read of an identity for a death and a
failed sample for a reason to give up. `misread` and `mistaken` are history: that such
a read failed, since the attach, for a process that had not exited, and that it
answered the `alive()` after the loop, whose answer decides what is printed. An object
has `abandoned` for history: a `start` threw after it said running. No guard reads
them.

**The watch cycle** takes a call of `heartbeat`, a renewal and an attach as one
step each, because `HeartbeatSlot` and `WatcherLease` have taken them apart, and
asks what those modules leave open: do the four periods fit together? A poll is
two steps, for the snapshot is judged by a clock read after it. A channel
*works* while its thread or timer keeps calling; `since` and `called` record when
it started or got stuck and when it last called. A snapshot keeps the active flag
and the timestamp of a slot. The CPU share is a boolean, 20 percent or more.
`news` and `upsets` are history and bound.

**An observation** takes the CPU time, the time stamp and the acceptance in steps of
their own, for the process runs on between them. The clock counts CPU ticks; the
share and the slope of the trend, doubles in the code, are kept exact: the share as
the pair of ticks and elapsed time, the slope by its sign, as a sum over pairs of
points. `accepted` is the whole history, against which the trend is judged. `events`
bounds what is unusual: a change of memory, a tick of CPU time, a failed sample, time
that passes within a poll.

**A CI run** is a pair of a commit and a workflow, commit 0 being the pull request
that commit 1 merges. A job is the list `todo` of the calls it has yet to make: the
functions of `evidence.cjs` become lists of calls (`ReusablePair`, `PublicationPair`),
and an answer that will not do leaves the list `Failed`. What a completed attempt
says of itself (jobs, artifact, receipt) does not change, so it is read with the run.
Every push starts a run of both workflows and cancels those in progress in its
concurrency group; a completion starts a Deploy run, whose phases are those of the
jobs of `html.yml`. Failures, reruns, expired artifacts and Deploy runs that overlap
are "upsets", bounded by `MaxUpsets`. `coherent` and `verified` are history.

The `map` of `PROJECT.json` gives the lines each definition translates.

## Runs

Bounds are chosen so that the interesting case occurs; each run's mutants show
that it does.

| run | instance | shows |
|---|---|---|
| `lapping` | 2 slots, 2 payload cells, 2 writers, 1 reader, 5 tickets | reports are intact unless a call shared its slot, and complete. Two slots and five tickets lap a stalled writer twice. |
| `log` | 3 slots, 1 writer, 8 tickets | with one publishing thread the ring implements `BreadcrumbLog`, a slot is closed while it changes, and every snapshot ends |
| `closed` | 2 slots, 2 writers | *violation*: the comment "the odd value closes the slot" fails for two writers |
| `weak` | 1 slot, 1 writer, C++ orders only | *violation*: the seqlock is not intact on the guarantees of its memory orders alone |
| `timely` | 2 threads, 1 watcher that attaches twice, lease of 2 periods, clock and words up to 6 | nobody passes the gate a lease after the last renewal; a polling watcher keeps the gate open, also where its lease saturates; the flag comes down after the last watcher |
| `rivals` | 2 threads, 2 watchers | releases, deaths and late calls of others do not silence a watcher that stays, nor leave the flag up |
| `prompt` | 2 threads, stall < interval, with a reader | the timestamp advances by an interval or more, beats get through only an interval apart, a dropped beat was not needed, a read is as fresh as its sequence number |
| `reuse` | 2 processes, 2 objects, 2 attempts | the session is on the right process's object, no replacement is reported as such, the last lifecycle in its object is printed, the console leaves a running process only when asked to, all with reads of `/proc` that may fail |
| `ends` | 2 processes, 1 object, 2 attempts | the console returns once it was stopped or the process has ended |
| `cycle` | 2 channels, 1 watcher, throttle 2, calls every 1, polls every 1 within a lease of 1, snapshot delay 1, stale after 3, clock to 5, 2 stalls, ends or restarts | no false alarm about a channel that works, no stall unnoticed, no recovery without a beat |
| `trend` | 4 points, window 4, 3 to observe, clock to 6, memory 0 to 3, 3 events | the trend is the window of the history, no leak is missed and a plateau clears the alarm, the CPU share is one between two consecutive samples and not inflated |
| `deploy` | 2 commits, 2 Deploy runs, 1 upset | what is published was verified in full, pages do not go back, conclusions from several calls were so at one moment, what both workflows have verified is published in the end |

Why these are enough: slots, threads, processes and watchers are used
symmetrically by the code, and no code path counts them. A hazard of the ring
needs two calls in one slot and a third that overwrites; one of the lease two
sessions, one late call; one of identity a process and its successor; one of publication a commit and its
successor, the two Deploy runs of one commit or of both, and one thing that goes
wrong between two calls. Four points are the least that show sustained
growth, and six instants overrun a window of four. The proofs
below remove the bound where it matters most. In `cycle` the periods are the least
that tell one another apart, and fit with nothing to spare
(`Interval + BeatPeriod + PollDelay = StaleAfter + 1`, `PollPeriod = Duration`);
a clock of 5 leaves a session time for a settled channel, a stall and two verdicts. `MaxTickets`, `MaxClock`,
`MaxUpsets`, `MaxSessions`, `MaxProcesses`, `MaxObjects`, `MaxRss`, `MaxEvents` and
`MaxCommits` only end the exploration.

**Deadlock** is checked except in the lease runs, where the clock ends at
`MaxClock` with no watcher left and a producer that has nothing to do, in the
console runs, where the console returns and all processes have ended, in
`closed`, which has no reader and ends with its tickets, and in `deploy`, which ends
when everything that was pushed has been dealt with.

### Fairness

* `BreadcrumbRing`: a reader that has begun a snapshot is scheduled. Writers are
  not: a call may stop for ever anywhere, since its process may be killed there.
* `WatcherLease`: threads finish the calls they make and keep calling; a watcher
  that holds a session finishes `renew_lease` and keeps polling, as the loop of
  `run_console_watch` does. Nobody is obliged to attach, release or die.
  `FlagComesBack` speaks of behaviours in which a watcher keeps its session; past
  `MaxClock` it polls on against a clock that stands still, which only makes
  its lease longer.
* `ConsoleWatch`: the monitor program itself is scheduled. Its pauses end because
  they are `poll` calls with a timeout. Nothing is assumed of the observed process.
* `HeartbeatSlot`, `WatchCycle`, `Observation`: none, their properties are safety
  properties.
* `Publication`: none. A run may hang and nobody has to push; that the tip is
  published is stated of the states in which nothing is left to do
  (`SettledIsPublished`), which is what the triggers can promise: a deferred
  publication is not tried again, so it must never be the last one to look.

## Findings

1. `closed`: `client.cpp:161` says that the odd commit word closes a slot before
   any field is changed. With two publishing threads, a call that was overtaken by
   128 tickets shares its slot, and the other call's closing store opens the slot
   while fields still change. `IntactUnlessOverlapped` says what remains true.
2. `weak`: `client.cpp:162-164` claims that sequential consistency of the commit
   stores keeps the seqlock straightforward on weaker architectures. It does not
   order the relaxed payload stores after the first of them, nor the relaxed
   payload loads before the second commit load. Under the order of the program
   (x86) the promise holds and is proved.

## Proofs

`BreadcrumbRing_proofs` — for every capacity, payload, set of threads and watchers:

* `Typing`: type correctness, either order.
* `IntactTheorem` (assuming `ProgramOrder`): `IntactUnlessOverlapped`. The
  invariant is built in layers, each proved from those before: `WriterInv` (calls
  have distinct tickets; what is stored is a prefix), `OverlapInv` (two calls in
  one slot are on record), `CommitInv` (no commit word is ahead of the tickets;
  an even word means its call is over), `OpenInv` (a call alone in its slot holds
  it closed, its stores intact), `ClosedInv` (under an even word lie that call's
  fields, and whoever is in the slot has stored nothing yet), `ReaderInv` (as long
  as the word still matches, what was loaded belongs to the ticket). The property
  alone is not inductive: it says nothing of slots being read.
* `SettledReportedTheorem`, in either order: what was complete when a snapshot began
  and is still there is reported. A call alone in its slot finds what it stored
  (`StoredInv`), a ticket that is overtaken there is on record (`LaterInv`), so a
  slot not handed out again goes on showing its ticket (`KeptInv`). A snapshot
  looks at every such ticket once (`CursorInv`); until then the breadcrumb is yet to come,
  and afterwards among the reported (`PendingInv`).
* `SingleWriterIntact`, `SingleWriterClosed`: with one publishing thread nothing
  ever overlaps, so every report is intact and the comment of `client.cpp:161`
  holds.

`BreadcrumbRingLog_proofs` — for every capacity, with one publishing thread and program
order: `ImplementsLogSteps`, the safety half of the refinement. The ring, mapped to the
log, starts as the log does and each of its steps is one of the log or none. A claim is
the start of an entry and the closing store its end (`WriterImplements`); what the
reader loads is hidden until the snapshot is over, and then `SettledReportedTheorem`
and `SingleWriterIntact` say of it exactly what the log demands of a report. `StepInv`
gathers what the steps need.

`WatcherLease_proofs` — for all threads, watchers, leases and periods:
`PublishedUnderLeaseTheorem` (from: the lease never exceeds the latest renewal
by more than its duration), `SilentOnceReleasedTheorem` (from: the flag is up
only for a session that holds it or a watcher that crashed), `HeldOpenTheorem`
(from: no clock reading is ahead of the clock; during the first session every
call in flight has either read the clock after the attach or will find the
flag; the end of a lease either is its duration after the reading or has saturated,
and then no clock passes it).

`HeartbeatSlot_proofs` — for all threads, intervals and stalls:
`RateLimitedTheorem` (from: `next_heartbeat_ns` is the last accepted reading plus
the interval, because an exchange succeeds only on the value it was tested
against), `TimestampAdvancesTheorem` and `ThrottledIsFreshTheorem` (from: a call
is never older than `MaxStall`; prompt calls store into the slot one at a time,
each an interval after the one before), `ReadFreshTheorem` (from: one clock reading is
behind each sequence number, `StampInv`; an attempt fails only when a beat ended in it,
so that three attempts see the number rise by three, and what is loaded between two
equal numbers is as recent as they say, `ReadInv`).

`WatchCycle_proofs` — for all channels and all periods:

* `AlarmsAreTrue`: `NoFalseAlarm`, when the polls fit into the lease and throttle,
  calls and snapshot into `stale_after_ns`. The argument: while a session is
  attached its lease runs (`Leased`), so no call is turned away for want of a
  watcher; a call that is dropped was held back by a beat of the session or by
  one from before it (`Throttled`) — also by one of an earlier object, because
  the throttle outlives it; therefore a channel called in time (`Calls`) has a
  beat younger than the throttle and one calling period when a snapshot is taken
  (`SettledHasBeaten`), and `Shown` carries that to the verdict.
* `StallsAreNoticed`: from `Stuck`, a stuck channel has no beat later than `since`.
* `RecoveriesAreReal`: from `Judged`, the last verdict was one on these very
  heartbeats, and the lemma `VerdictAges`, the same heartbeats judged later are
  judged no better.
* `TypeCorrect`: type correctness.

With the numbers of the code (throttle 500 ms, lease 3 s, `stale_after_ns` 3 s by
default, polls every second) the hypothesis leaves 2.5 s for the time
between two calls and for the snapshot. `--interval-ms` may be as much as
60 s: with polls further apart than the lease the hypothesis fails, the producers
fall silent between polls and a live process may be reported as stalled. So it
may with `--stale-ms`, accepted from 100 ms, below the throttle and a calling period.

`ConsoleWatch_proofs` — for any number of processes, objects and attempts, all safety
properties of the run `reuse`: `TypeCorrect`, `AvailableIsLinkedAlways`,
`OrphanIsClosedAlways`, `RightProcessAlways`, `ReplacedIsExitedAlways`,
`FinalLifecycleAlways`, `LeavesOnlyOnExitAlways`. The endpoint has an invariant of its
own: the client's object is its process's and the linked one (`MappedInv`), objects
carry their maker's start time or none, and only the client's object says running, or
one that a failed start abandoned (`MadeInv`). What an endpoint may do to a watcher between two of its steps is one
formula, `Meanwhile`: makers stay, what has exited stays so, and its objects do not
change any more. The watcher's invariants use nothing else of it: `ControlInv`
(calls of `alive` return to their callers), `IdentityInv` (the identity is read
first, so descriptor and session are of that process or a later one; the start
time in the object decides which), `SampleInv` (`alive` rereads the identity after the
sample, so that a sample that is accepted is of the handle's process; one that is
incomplete means that the process is going or a read failed), `StatusInv` (so does an
observation without a sample or one that finds the process dead, and the loop ends with
those or because it was asked to), and `FinalInv` (the final poll begins when the process
has exited, but for a mistaken answer, so that what it reads is final). Each property is a line of these, none is inductive alone.

`Observation_proofs` — for every capacity, window and delay:

* `TypeCorrect`: types, and the deque within its capacity.
* `CpuNotInflatedAlways` and `CpuBetweenObservationsAlways`, from: polls take their
  readings in order (`Timing`), the process has used no more than the time since it
  was looked at (`Used`), and the sample a share is taken against is that of the
  latest observation (`Baseline`).
* `TrendIsWindowAlways`: points are accepted in order (`Ordered`), and the deque is
  the longest end of the whole history that fits (`Trend`). That it is enough to drop
  points when another one comes rests on one lemma: what does not fit once does not
  fit later (`WithinBefore`).
* `PlateauClearsAlways`: the report always sums up the points there are (`SummaryInv`),
  these are the latest of the history (`PointsAreLatest`), and their middle lies within
  a plateau of half of them (`Middle`), so that the later half does not rise.
* `LeakReportedAlways`: the points of a leak are four or more, rise throughout and span
  the time required (`LeakingPoints`). Where the capacity cuts the window off they are as
  many as there is room for and at least one tick apart, hence `Capacity - 1 >=
  Required`. Points that rise pass every test (`RisingIsSustained`), that of the slope
  because a sum of positive numbers is positive. The sum is one of the community
  modules', defined by recursion over a set: that it exists (`SumsExist`) and is positive
  (`SumIsPositive`) is shown for the smallest set for which it might fail (`Least`),
  which takes the place of an induction.

`Publication_proofs` — for any number of commits, Deploy runs and upsets, all its safety
properties:

* `NoRollbackTheorem`. The deploy job runs one at a time (`ExclusionInv`), completions
  and publications are of commits up to the tip (`CommitInv`), and the job's first
  call looks at the tip, so that from then on its commit is no older than what is
  published (`NewerInv`). It rests on the concurrency group of the deploy job: without
  it two jobs that have both passed their look at the tip may end in either order.
* `TypeCorrect`, with what a run that was started has and a Deploy run was started by
  (`TypeInv`).
* `PublishedIsVerifiedTheorem`: an artifact vouches for a tree that has been verified, or
  reuses one that was (`VouchedInv`). A job has seen what it has asked for, or the
  question is still in `todo` (`SelectInv`, `DeployInv`): a call that is answered well
  leaves `todo` and puts its finding into the state, one that is not leaves `Failed`.
* `ConclusionsAreCoherentTheorem`: the lists of calls make all their readings before they
  look at everything again (`OrderInv`). What was read had succeeded, so that it has or
  is being run again (`SeenInv`); what was not so at the moment of the last reading has
  a call in `todo` that will find it out (`CoherentInv`). When the list is empty there is
  no such call, so all was so at that moment.
* `SettledIsPublishedTheorem`: as long as nobody has touched the evidence, whatever has
  succeeded has it (`QuietInv`), and the calls of a run keep their order (`RankInv`).
  From the moment that both workflows have verified the tip, either it is published, or
  a completion that will start a Deploy run is waiting, or there is a Deploy run
  that will publish it (`PublishInv`): one whose readings are still so and whose
  remaining calls will all be answered well (`Good`). What is not the last to look may
  fail; the last one cannot. When nothing is left to do only the first is possible.

Nothing but the named `ASSUME`s of the modules and the stated hypotheses is
assumed. The bounds that only end the exploration enter the proofs as bounds of a type
(`TypeOK` of the ring and of `Publication`, the entries of the log) and nowhere else.

Every safety property of every passing run is proved. Checked by TLC only are the
liveness properties `SnapshotTerminates`, `FlagComesDown`, `FlagComesBack` and
`WatchEnds`, and of `ImplementsLog` the part that is about fairness, that a snapshot of
the log ends: liveness is out of the prover's reach.

## Not modelled

* The text of `/proc` files and of the report, names of the enumerations, the command
  line, the binary layout of the shared object.
* A publishing call that is still in `heartbeat` or `breadcrumb` when `stop`
  unmaps the object: it has undefined behaviour. The tests stop the client with no
  call in flight.
* `set_channel_active(false)` racing a beat of another thread that has passed the
  throttle: either may win, the code promises neither, and its only caller makes
  both calls on one thread.
* Exceptions in the watcher, which end the program, and those of `start` that come
  before its first system call, which change nothing. `start` as modelled throws where it
  reads its identity (`ThrowUnread`) and where it names the mapping (`ThrowUnnamed`).
* `active_state` loads the flag with relaxed order before it loads the lease.
  `WatcherLease` makes the two loads in the order of the program, as x86 does. On a
  machine that makes the second load first, a call may pair a lease from before an
  attach with the flag from after it and take the flag down, which `HeldOpen`
  does not cover.
* Two clients in one process: `client::process()` is the only one in use.
* Moving a session or an `observed_process`. The move of a mapping out of `start` is
  modelled by what it does to the name (`Publish`).
* In `WatchCycle` a watcher of a client that was restarted gets no session with
  the new object but by attaching anew, and the exit of the process is left to
  `ConsoleWatch`. Saturating leases are left to `WatcherLease`.
* In `Observation` a poll before the attachment, which changes nothing, and a sample
  of another process, which `ReplacedIsExited` excludes. A process has one thread: with n
  of them the bound of `CpuNotInflated` is n times as high. `classify_health` takes
  an absent share for an idle process, so a stall may be called idle after a
  failed sample; that is what the code says, and no property contradicts it.
* In `Publication`: runs started by hand, schedules and the presentation of another
  repository's pages; another pull request run than the one that was merged;
  a Deploy run that fails for reasons of its own; a third Deploy run that takes the
  place of one that waits in the concurrency group; the contents of bundles,
  receipts and reports, of which the model keeps the run, the attempt, the
  tree and whether the verification was full.
* `changes.cjs`: which revisions an event compares, by git commands and an external
  tool. The build files and the tests; the tests are quoted where a property states
  what they expect.

## Plan

All that was planned is written, in the order of what matters most for the watchdog:

1. `BreadcrumbRing`, `BreadcrumbLog`, `WatcherLease`, `HeartbeatSlot`, their proofs.
2. `Endpoint`, `ConsoleWatch`, their proofs.
3. `Health`, `WatchCycle`, their proofs.
4. `MemoryTrend`, `Observation`, their proofs.
5. `Publication`, and its proofs.
6. `BreadcrumbRingLog`, and the proof that the ring takes only steps of the log.

Worth adding next: as theorems, that what the endpoint does to a watcher (`Meanwhile` of
`ConsoleWatch_proofs`) implements an abstract endpoint; as a model, more than one
thread in `Observation`. A client's lifetime under calls in flight is left out on
purpose, see above.
