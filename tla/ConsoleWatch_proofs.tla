------------------------ MODULE ConsoleWatch_proofs ------------------------
(***************************************************************************)
(* Proofs about Endpoint and ConsoleWatch, for any number of processes,    *)
(* objects and attempts: the bounds of the model are not used.             *)
(*                                                                         *)
(* The endpoint is treated first, by an invariant of its own, for the      *)
(* watcher never changes its state.  What an endpoint may do to a watcher  *)
(* between two of its steps is then one formula, Meanwhile, and the        *)
(* invariants of the watcher are proved from that alone.                   *)
(***************************************************************************)
EXTENDS ConsoleWatch, TLAPS

\* The client has an object from its creation on until it is unmapped.
HasObject == cpc \in {"size", "fill", "ticks", "publish", "available", "unmap"}

\* A process that is there has a number; its client's object is its own, and linked.
MappedInv ==
    /\ phase # "none" => proc # None
    /\ HasObject => /\ mapping \in Created
                    /\ objects[mapping].maker = proc
                    /\ linked = mapping
    /\ linked \in Created \cup {None}

\* Objects come from processes up to this one and carry their maker's start time
\* or none; but for objects a failed start abandoned, the present process has at most
\* one that says running.
MadeInv ==
    \A o \in Objects :
        /\ objects[o].maker <= proc
        /\ objects[o].process_start_ticks \in {0, objects[o].maker}
        /\ objects[o].process_lifecycle = "running" /\ objects[o].maker = proc
              => objects[o].abandoned \/ (cpc = "available" /\ o = mapping)

EndpointInv == EndpointTypeOK /\ MappedInv /\ MadeInv

-----------------------------------------------------------------------------
\* No object has the number None.
LEMMA NoneIsNoObject == None \notin Objects
  BY EndpointAssumption DEF None, Objects

\* Type correctness of the endpoint is kept by its steps, once the client's object
\* is known to exist.
LEMMA EndpointTyping ==
  ASSUME EndpointTypeOK, MappedInv, EndpointNext
  PROVE  EndpointTypeOK'
<1> USE NoneIsNoObject, EndpointAssumption DEF EndpointTypeOK, Objects, Lifecycles
<1>1. CASE Spawn
  BY <1>1 DEF Spawn
<1>2. CASE Die
  BY <1>2 DEF Die
<1>3. CASE BecomeZombie
  BY <1>3 DEF BecomeZombie
<1>4. CASE Reap
  BY <1>4 DEF Reap
<1>5. CASE UnlinkOld
  BY <1>5 DEF UnlinkOld, UnchangedProcess
<1>6. CASE CreateObject
  <2>1. PICK o \in Objects \ Created :
          /\ objects' = [objects EXCEPT ![o] = [Absent EXCEPT !.maker = proc]]
          /\ linked' = o /\ mapping' = o /\ cpc' = "size"
          /\ UnchangedProcess
    BY <1>6 DEF CreateObject
  <2>2. [Absent EXCEPT !.maker = proc]
          \in [maker : Nat, sized : BOOLEAN, header : BOOLEAN,
              process_start_ticks : Nat, process_lifecycle : Lifecycles,
              abandoned : BOOLEAN]
    BY DEF Absent
  <2> QED
    BY <2>1, <2>2 DEF UnchangedProcess
<1>7. CASE FailCreate
  BY <1>7 DEF FailCreate, UnchangedProcess
<1>8. CASE SizeObject
  BY <1>8 DEF SizeObject, UnchangedProcess
<1>9. CASE FailMapping
  BY <1>9 DEF FailMapping, UnchangedProcess
<1>10. CASE FillHeader
  BY <1>10 DEF FillHeader, UnchangedProcess
<1>11. CASE StoreTicks
  <2>1. PICK ticks \in {0, proc} :
          /\ objects' = [objects EXCEPT ![mapping].process_start_ticks = ticks]
          /\ cpc' = "publish"
          /\ UnchangedProcess
          /\ UNCHANGED <<mapping, linked>>
    BY <1>11 DEF StoreTicks
  <2>2. ticks \in Nat
    OBVIOUS
  <2> QED
    BY <2>1, <2>2 DEF UnchangedProcess
<1>12. CASE Publish
  BY <1>12 DEF Publish, LinkKept, UnchangedProcess
<1>13. CASE MarkCleanExit
  BY <1>13 DEF MarkCleanExit, UnchangedProcess
<1>14. CASE UnmapAndUnlink
  BY <1>14 DEF UnmapAndUnlink, UnchangedProcess
<1>15. CASE ThrowUnread
  BY <1>15 DEF ThrowUnread, UnchangedProcess
<1>16. CASE ThrowUnnamed
  BY <1>16 DEF ThrowUnnamed, UnchangedProcess
<1> QED
  BY <1>1, <1>2, <1>3, <1>4, <1>5, <1>6, <1>7, <1>8, <1>9, <1>10, <1>11, <1>12,
     <1>13, <1>14, <1>15, <1>16 DEF EndpointNext

\* The client's object stays its own and linked.
LEMMA EndpointMapped ==
  ASSUME EndpointTypeOK, MappedInv, EndpointNext
  PROVE  MappedInv'
<1> USE NoneIsNoObject, EndpointAssumption
    DEF EndpointTypeOK, MappedInv, HasObject, Created, AtStep, Runs, UnchangedProcess
<1>1. CASE Spawn
  BY <1>1 DEF Spawn, None
<1>2. CASE Die
  BY <1>2 DEF Die
<1>3. CASE BecomeZombie
  BY <1>3 DEF BecomeZombie
<1>4. CASE Reap
  BY <1>4 DEF Reap
<1>5. CASE UnlinkOld
  BY <1>5 DEF UnlinkOld
<1>6. CASE CreateObject
  BY <1>6 DEF CreateObject, Absent
<1>7. CASE FailCreate
  BY <1>7 DEF FailCreate
<1>8. CASE SizeObject
  BY <1>8 DEF SizeObject
<1>9. CASE FailMapping
  BY <1>9 DEF FailMapping
<1>10. CASE FillHeader
  BY <1>10 DEF FillHeader
<1>11. CASE StoreTicks
  BY <1>11 DEF StoreTicks
<1>12. CASE Publish
  BY <1>12 DEF Publish, LinkKept
<1>13. CASE MarkCleanExit
  BY <1>13 DEF MarkCleanExit
<1>14. CASE UnmapAndUnlink
  BY <1>14 DEF UnmapAndUnlink
<1>15. CASE ThrowUnread
  BY <1>15 DEF ThrowUnread
<1>16. CASE ThrowUnnamed
  BY <1>16 DEF ThrowUnnamed
<1> QED
  BY <1>1, <1>2, <1>3, <1>4, <1>5, <1>6, <1>7, <1>8, <1>9, <1>10, <1>11, <1>12,
     <1>13, <1>14, <1>15, <1>16 DEF EndpointNext

\* Objects keep their makers, and only the client's object says running.
LEMMA EndpointMade ==
  ASSUME EndpointInv, EndpointNext
  PROVE  MadeInv'
<1> USE NoneIsNoObject
    DEF EndpointInv, EndpointTypeOK, MappedInv, MadeInv, HasObject, Created, AtStep,
        Runs, UnchangedProcess
<1>1. CASE Spawn
  BY <1>1 DEF Spawn
<1>2. CASE Die
  BY <1>2 DEF Die
<1>3. CASE BecomeZombie
  BY <1>3 DEF BecomeZombie
<1>4. CASE Reap
  BY <1>4 DEF Reap
<1>5. CASE UnlinkOld
  BY <1>5 DEF UnlinkOld
<1>6. CASE CreateObject
  BY <1>6 DEF CreateObject, Absent
<1>7. CASE FailCreate
  BY <1>7 DEF FailCreate
<1>8. CASE SizeObject
  BY <1>8 DEF SizeObject
<1>9. CASE FailMapping
  BY <1>9 DEF FailMapping
<1>10. CASE FillHeader
  BY <1>10 DEF FillHeader
<1>11. CASE StoreTicks
  BY <1>11 DEF StoreTicks
<1>12. CASE Publish
  BY <1>12 DEF Publish
<1>13. CASE MarkCleanExit
  BY <1>13 DEF MarkCleanExit
<1>14. CASE UnmapAndUnlink
  BY <1>14 DEF UnmapAndUnlink
<1>15. CASE ThrowUnread
  BY <1>15 DEF ThrowUnread
<1>16. CASE ThrowUnnamed
  BY <1>16 DEF ThrowUnnamed
<1> QED
  BY <1>1, <1>2, <1>3, <1>4, <1>5, <1>6, <1>7, <1>8, <1>9, <1>10, <1>11, <1>12,
     <1>13, <1>14, <1>15, <1>16 DEF EndpointNext
\* The initial endpoint, and the endpoint left alone.
LEMMA EndpointInitial == EndpointInit => EndpointInv
  BY NoneIsNoObject, EndpointAssumption
  DEF EndpointInit, EndpointInv, EndpointTypeOK, MappedInv, MadeInv, HasObject, Created,
      Objects, Absent, None, Lifecycles

\* The endpoint's invariant is kept when nothing of it changes.
LEMMA EndpointIdle ==
  ASSUME EndpointInv, UNCHANGED endpointVars
  PROVE  EndpointInv'
  BY DEF endpointVars, EndpointInv, EndpointTypeOK, MappedInv, MadeInv, HasObject, Created

-----------------------------------------------------------------------------
\* The process p no longer runs, or never will again.
Gone(p) == ~(Runs /\ proc = p)

\* What the endpoint may do while the watcher is between two steps, in terms of the
\* process p it watches: time goes on, a process that has gone or exited stays so,
\* objects stay their makers', and those of a process that has exited do not change.
Meanwhile(p) ==
    /\ proc <= proc'
    /\ p <= proc /\ Gone(p) => Gone(p)'
    /\ p <= proc /\ Exited(p) => Exited(p)'
    /\ \A o \in Created :
          /\ o \in Created'
          /\ objects'[o].maker = objects[o].maker
          /\ objects'[o].process_lifecycle \in Lifecycles
          /\ objects[o].maker = p /\ Exited(p) => objects'[o] = objects[o]

\* Every step of the endpoint is such a change.
LEMMA EndpointMoves ==
  ASSUME EndpointInv, EndpointNext, NEW p \in Nat
  PROVE  Meanwhile(p)
<1> USE NoneIsNoObject
    DEF EndpointInv, EndpointTypeOK, MappedInv, MadeInv, HasObject, Created, AtStep,
        Runs, UnchangedProcess, Meanwhile, Gone, Exited
<1>1. CASE Spawn
  BY <1>1 DEF Spawn
<1>2. CASE Die
  BY <1>2 DEF Die
<1>3. CASE BecomeZombie
  BY <1>3 DEF BecomeZombie
<1>4. CASE Reap
  BY <1>4 DEF Reap
<1>5. CASE UnlinkOld
  BY <1>5 DEF UnlinkOld
<1>6. CASE CreateObject
  BY <1>6 DEF CreateObject, Absent
<1>7. CASE FailCreate
  BY <1>7 DEF FailCreate
<1>8. CASE SizeObject
  BY <1>8 DEF SizeObject
<1>9. CASE FailMapping
  BY <1>9 DEF FailMapping
<1>10. CASE FillHeader
  BY <1>10 DEF FillHeader, Lifecycles
<1>11. CASE StoreTicks
  BY <1>11 DEF StoreTicks
<1>12. CASE Publish
  BY <1>12 DEF Publish, Lifecycles
<1>13. CASE MarkCleanExit
  BY <1>13 DEF MarkCleanExit, Lifecycles
<1>14. CASE UnmapAndUnlink
  BY <1>14 DEF UnmapAndUnlink
<1>15. CASE ThrowUnread
  BY <1>15 DEF ThrowUnread
<1>16. CASE ThrowUnnamed
  BY <1>16 DEF ThrowUnnamed, Lifecycles
<1> QED
  BY <1>1, <1>2, <1>3, <1>4, <1>5, <1>6, <1>7, <1>8, <1>9, <1>10, <1>11, <1>12,
     <1>13, <1>14, <1>15, <1>16 DEF EndpointNext

-----------------------------------------------------------------------------
\* Where the watcher goes with the answer "alive".
AliveGoes ==
    \/ asked = "attempt"    /\ Goto("try_attach")
    \/ asked = "try_attach" /\ Goto("open")
    \/ asked = "pause"      /\ Goto("next_attempt")
    \/ asked = "poll"       /\ Goto("accept")
    \/ asked = "interval"   /\ Goto("loop")
    \/ asked = "ended"      /\ Return(0)
    \/ asked = "final_poll" /\ Stay("accept")

\* Where the watcher goes with the answer "dead".
DeadGoes ==
    \/ asked = "attempt"    /\ Goto("attempted")
    \/ asked = "try_attach" /\ Goto("pause")
    \/ asked = "pause"      /\ Goto("attempted")
    \/ asked = "poll"       /\ Goto("exited")
    \/ asked = "interval"   /\ Goto("ended")
    \/ asked = "ended"      /\ Stay("read_status")
    \/ asked = "final_poll" /\ Stay("exited")

\* The callers of alive().
Callers == {"attempt", "try_attach", "pause", "poll", "interval", "ended", "final_poll"}

\* asked is a return address exactly where alive() or the final poll runs.
ControlInv ==
    /\ wpc \in {"poll_descriptor", "reread_identity"} => asked \in Callers
    /\ wpc \in {"read_status", "read_stat", "snapshot"} => asked \in {"nobody", "ended"}
    /\ wpc \in {"accept", "exited"} => asked \in {"nobody", "final_poll"}
    /\ wpc \notin {"poll_descriptor", "reread_identity", "read_status", "read_stat",
                   "snapshot", "accept", "exited"} => asked = "nobody"
    /\ exit_code # -1 => wpc = "returned"

\* The loop of attempts runs while there are attempts left.
AttemptInv ==
    wpc \in {"try_attach", "open", "check_size", "check_header", "check_ticks", "pause",
             "next_attempt"} \/ asked \in {"attempt", "try_attach", "pause"}
        => attempt < MaxAttempts

\* The polling loop and what follows it have a session.
AttachedInv ==
    wpc \in {"loop", "read_status", "read_stat", "snapshot", "accept", "exited",
             "observed", "interval", "ended", "print"}
      \/ asked \in {"poll", "interval", "ended", "final_poll"}
        => session # None

\* The answer "alive", caller by caller.
LEMMA Alive == ASSUME asked \in Callers, OnAlive PROVE AliveGoes
  BY DEF Callers, OnAlive, AliveGoes

\* The answer "dead", caller by caller.
LEMMA Dead == ASSUME asked \in Callers, OnDead PROVE DeadGoes
  BY DEF Callers, OnDead, DeadGoes, FinalPoll

\* What a failed read leaves in the history.
LEMMA FailedRead ==
  ASSUME misread \in BOOLEAN, mistaken \in BOOLEAN, ReadFails
  PROVE  /\ misread' \in BOOLEAN /\ mistaken' \in BOOLEAN
         /\ misread => misread'
         /\ mistaken => mistaken'
         /\ session # None => misread' \/ Exited(start_ticks)
         /\ session # None /\ wpc = "reread_identity" /\ asked = "ended"
               => mistaken' \/ Exited(start_ticks)
  BY Zenon DEF ReadFails

\* Calls and returns match.
LEMMA ControlSteps ==
  ASSUME ControlInv, WatcherStep
  PROVE  ControlInv'
<1> USE DEF Goto, CallAlive, Stay, Return, Kept, KeptAside, endpointVars, handleVars,
           pollVars, historyVars,
           ControlInv, Callers
<1>1. CASE ReadIdentity
  BY <1>1 DEF ReadIdentity
<1>2. CASE OpenDescriptor
  BY <1>2 DEF OpenDescriptor
<1>3. CASE Attempt
  BY <1>3 DEF Attempt, AttemptsLeft
<1>4. CASE TryAttach
  BY <1>4 DEF TryAttach
<1>5. CASE Open
  BY <1>5 DEF Open
<1>6. CASE CheckSize
  BY <1>6 DEF CheckSize, Check
<1>7. CASE CheckHeader
  BY <1>7 DEF CheckHeader, Check
<1>8. CASE CheckTicks
  BY <1>8 DEF CheckTicks, OurTicks
<1>9. CASE Pause
  BY <1>9 DEF Pause, Wait
<1>10. CASE CountAttempt
  BY <1>10 DEF CountAttempt, NextAttempt
<1>11. CASE Attempted
  BY <1>11 DEF Attempted
<1>12. CASE Loop
  BY <1>12 DEF Loop
<1>13. CASE ReadStatus
  BY <1>13 DEF ReadStatus
<1>14. CASE ReadStat
  BY <1>14 DEF ReadStat
<1>15. CASE TakeSnapshot
  BY <1>15 DEF TakeSnapshot
<1>16. CASE AcceptSample
  BY <1>16 DEF AcceptSample, IdentityKept, NoSample
<1>17. CASE AcceptExit
  BY <1>17 DEF AcceptExit, NoSample
<1>18. CASE Observed
  BY <1>18 DEF Observed
<1>19. CASE Interval
  BY <1>19 DEF Interval, Wait
<1>20. CASE Ended
  BY <1>20 DEF Ended
<1>21. CASE PrintLifecycle
  BY <1>21 DEF PrintLifecycle
<1>22. CASE PollDescriptor
  BY <1>22, Dead DEF PollDescriptor, DeadGoes
<1>23. CASE RereadIdentity
  BY <1>23, Alive, Dead DEF RereadIdentity, SameIdentity, AliveGoes, DeadGoes
<1> QED
  BY <1>1, <1>2, <1>3, <1>4, <1>5, <1>6, <1>7, <1>8, <1>9, <1>10, <1>11,
     <1>12, <1>13, <1>14, <1>15, <1>16, <1>17, <1>18, <1>19, <1>20, <1>21, <1>22, <1>23
  DEF WatcherStep

\* A counted attempt was one that was left.
LEMMA AttemptSteps ==
  ASSUME ControlInv, AttemptInv, attempt \in Nat, WatcherStep
  PROVE  AttemptInv'
<1> USE DEF Goto, CallAlive, Stay, Return, Kept, KeptAside, endpointVars, handleVars,
           pollVars, historyVars,
           ControlInv, AttemptInv, Callers
<1>1. CASE ReadIdentity
  BY <1>1 DEF ReadIdentity
<1>2. CASE OpenDescriptor
  BY <1>2 DEF OpenDescriptor
<1>3. CASE Attempt
  BY <1>3 DEF Attempt, AttemptsLeft
<1>4. CASE TryAttach
  BY <1>4 DEF TryAttach
<1>5. CASE Open
  BY <1>5 DEF Open
<1>6. CASE CheckSize
  BY <1>6 DEF CheckSize, Check
<1>7. CASE CheckHeader
  BY <1>7 DEF CheckHeader, Check
<1>8. CASE CheckTicks
  BY <1>8 DEF CheckTicks, OurTicks
<1>9. CASE Pause
  BY <1>9 DEF Pause, Wait
<1>10. CASE CountAttempt
  BY <1>10 DEF CountAttempt, NextAttempt
<1>11. CASE Attempted
  BY <1>11 DEF Attempted
<1>12. CASE Loop
  BY <1>12 DEF Loop
<1>13. CASE ReadStatus
  BY <1>13 DEF ReadStatus
<1>14. CASE ReadStat
  BY <1>14 DEF ReadStat
<1>15. CASE TakeSnapshot
  BY <1>15 DEF TakeSnapshot
<1>16. CASE AcceptSample
  BY <1>16 DEF AcceptSample, IdentityKept, NoSample
<1>17. CASE AcceptExit
  BY <1>17 DEF AcceptExit, NoSample
<1>18. CASE Observed
  BY <1>18 DEF Observed
<1>19. CASE Interval
  BY <1>19 DEF Interval, Wait
<1>20. CASE Ended
  BY <1>20 DEF Ended
<1>21. CASE PrintLifecycle
  BY <1>21 DEF PrintLifecycle
<1>22. CASE PollDescriptor
  BY <1>22, Dead DEF PollDescriptor, DeadGoes
<1>23. CASE RereadIdentity
  BY <1>23, Alive, Dead DEF RereadIdentity, SameIdentity, AliveGoes, DeadGoes
<1> QED
  BY <1>1, <1>2, <1>3, <1>4, <1>5, <1>6, <1>7, <1>8, <1>9, <1>10, <1>11,
     <1>12, <1>13, <1>14, <1>15, <1>16, <1>17, <1>18, <1>19, <1>20, <1>21, <1>22, <1>23
  DEF WatcherStep

\* The watcher gets to the polling loop with a session only.
LEMMA AttachedSteps ==
  ASSUME ControlInv, AttachedInv, WatcherStep
  PROVE  AttachedInv'
<1> USE DEF Goto, CallAlive, Stay, Return, Kept, KeptAside, endpointVars, handleVars,
           pollVars, historyVars,
           ControlInv, AttachedInv, Callers
<1>1. CASE ReadIdentity
  BY <1>1 DEF ReadIdentity
<1>2. CASE OpenDescriptor
  BY <1>2 DEF OpenDescriptor
<1>3. CASE Attempt
  BY <1>3 DEF Attempt, AttemptsLeft
<1>4. CASE TryAttach
  BY <1>4 DEF TryAttach
<1>5. CASE Open
  BY <1>5 DEF Open
<1>6. CASE CheckSize
  BY <1>6 DEF CheckSize, Check
<1>7. CASE CheckHeader
  BY <1>7 DEF CheckHeader, Check
<1>8. CASE CheckTicks
  BY <1>8 DEF CheckTicks, OurTicks
<1>9. CASE Pause
  BY <1>9 DEF Pause, Wait
<1>10. CASE CountAttempt
  BY <1>10 DEF CountAttempt, NextAttempt
<1>11. CASE Attempted
  BY <1>11 DEF Attempted
<1>12. CASE Loop
  BY <1>12 DEF Loop
<1>13. CASE ReadStatus
  BY <1>13 DEF ReadStatus
<1>14. CASE ReadStat
  BY <1>14 DEF ReadStat
<1>15. CASE TakeSnapshot
  BY <1>15 DEF TakeSnapshot
<1>16. CASE AcceptSample
  BY <1>16 DEF AcceptSample, IdentityKept, NoSample
<1>17. CASE AcceptExit
  BY <1>17 DEF AcceptExit, NoSample
<1>18. CASE Observed
  BY <1>18 DEF Observed
<1>19. CASE Interval
  BY <1>19 DEF Interval, Wait
<1>20. CASE Ended
  BY <1>20 DEF Ended
<1>21. CASE PrintLifecycle
  BY <1>21 DEF PrintLifecycle
<1>22. CASE PollDescriptor
  BY <1>22, Dead DEF PollDescriptor, DeadGoes
<1>23. CASE RereadIdentity
  BY <1>23, Alive, Dead DEF RereadIdentity, SameIdentity, AliveGoes, DeadGoes
<1> QED
  BY <1>1, <1>2, <1>3, <1>4, <1>5, <1>6, <1>7, <1>8, <1>9, <1>10, <1>11,
     <1>12, <1>13, <1>14, <1>15, <1>16, <1>17, <1>18, <1>19, <1>20, <1>21, <1>22, <1>23
  DEF WatcherStep

-----------------------------------------------------------------------------
\* The watcher changes nothing of the endpoint.
LEMMA WatcherAside == ASSUME WatcherStep PROVE UNCHANGED endpointVars
  BY DEF WatcherStep, Kept, KeptAside,
         ReadIdentity, OpenDescriptor, Attempt, TryAttach, Open, CheckSize,
         CheckHeader, CheckTicks, Pause, CountAttempt, Attempted, Loop,
         ReadStatus, ReadStat, TakeSnapshot, AcceptSample, AcceptExit,
         Observed, Interval, Ended, PrintLifecycle, PollDescriptor,
         RereadIdentity, Wait

\* The watcher's steps keep the types.
LEMMA TypeSteps ==
  ASSUME EndpointInv, ControlInv, AttemptInv, AttachedInv, TypeOK, WatcherStep
  PROVE  TypeOK'
<1> USE DEF Goto, CallAlive, Stay, Return, Kept, KeptAside, endpointVars, handleVars,
           pollVars, historyVars,
           ControlInv, AttemptInv, AttachedInv, Callers, TypeOK
<1>a. EndpointInv' /\ EndpointTypeOK' /\ Created' = Created
  BY WatcherAside, EndpointIdle DEF EndpointInv, Created, endpointVars
<1>b. /\ linked \in Created \cup {None}
      /\ proc \in Nat
      /\ \A o \in Created : objects[o].process_lifecycle \in Lifecycles
  BY NoneIsNoObject DEF EndpointInv, MappedInv, EndpointTypeOK, Created
<1> USE <1>a, <1>b, ConsoleAssumption DEF None, Lifecycles
<1>1. CASE ReadIdentity
  BY <1>1 DEF ReadIdentity
<1>2. CASE OpenDescriptor
  BY <1>2 DEF OpenDescriptor
<1>3. CASE Attempt
  BY <1>3 DEF Attempt, AttemptsLeft
<1>4. CASE TryAttach
  BY <1>4 DEF TryAttach
<1>5. CASE Open
  BY <1>5 DEF Open
<1>6. CASE CheckSize
  BY <1>6 DEF CheckSize, Check
<1>7. CASE CheckHeader
  BY <1>7 DEF CheckHeader, Check
<1>8. CASE CheckTicks
  BY <1>8 DEF CheckTicks, OurTicks
<1>9. CASE Pause
  BY <1>9 DEF Pause, Wait
<1>10. CASE CountAttempt
  BY <1>10 DEF CountAttempt, NextAttempt
<1>11. CASE Attempted
  BY <1>11 DEF Attempted
<1>12. CASE Loop
  BY <1>12 DEF Loop
<1>13. CASE ReadStatus
  BY <1>13, FailedRead DEF ReadStatus
<1>14. CASE ReadStat
  BY <1>14, FailedRead DEF ReadStat
<1>15. CASE TakeSnapshot
  BY <1>15 DEF TakeSnapshot
<1>16. CASE AcceptSample
  BY <1>16 DEF AcceptSample, IdentityKept, NoSample
<1>17. CASE AcceptExit
  BY <1>17 DEF AcceptExit, NoSample
<1>18. CASE Observed
  BY <1>18 DEF Observed
<1>19. CASE Interval
  BY <1>19 DEF Interval, Wait
<1>20. CASE Ended
  BY <1>20 DEF Ended
<1>21. CASE PrintLifecycle
  BY <1>21 DEF PrintLifecycle
<1>22. CASE PollDescriptor
  BY <1>22, Dead DEF PollDescriptor, DeadGoes
<1>23. CASE RereadIdentity
  BY <1>23, Alive, Dead, FailedRead DEF RereadIdentity, SameIdentity, AliveGoes, DeadGoes
<1> QED
  BY <1>1, <1>2, <1>3, <1>4, <1>5, <1>6, <1>7, <1>8, <1>9, <1>10, <1>11,
     <1>12, <1>13, <1>14, <1>15, <1>16, <1>17, <1>18, <1>19, <1>20, <1>21, <1>22, <1>23
  DEF WatcherStep

-----------------------------------------------------------------------------
\* The handle's identity is no later than the present process, its descriptor no
\* earlier than its identity, and the session on an object of that identity.
IdentityInv ==
    /\ start_ticks <= proc
    /\ wpc = "read_identity" => /\ session = None
                                /\ pid_descriptor = None
                                /\ sample.identity = None
    /\ wpc \notin {"read_identity", "returned"} => start_ticks # 0
    /\ pid_descriptor # None => start_ticks <= pid_descriptor /\ pid_descriptor <= proc
    /\ session # None => start_ticks # 0
    /\ RightProcess

\* A poll has read /proc/PID/status, or both files.
HasStatus == wpc \in {"read_stat", "snapshot", "accept"} \/ asked \in {"poll", "final_poll"}
HasStat   == wpc \in {"snapshot", "accept"} \/ asked \in {"poll", "final_poll"}

\* A sample is of the handle's process or a later one, of the handle's once it is
\* accepted; one that is incomplete means that the process is going, or a read failed.
SampleInv ==
    /\ sample.identity # None => start_ticks <= sample.identity /\ sample.identity <= proc
    /\ wpc = "accept" => sample.identity \in {None, start_ticks}
    /\ HasStatus /\ sample.memory = None => misread \/ Gone(start_ticks)
    /\ HasStat /\ sample.identity = None => misread \/ Gone(start_ticks)

\* No poll sees a change of identity.  With all reads done, one without a sample and
\* one that finds the process dead mean that it is going; the polling loop ends with
\* that or because it was asked to.
StatusInv ==
    /\ ReplacedIsExited
    /\ wpc = "observed" => status \in {"sampled", "sample_unavailable"}
    /\ wpc = "observed" /\ status = "sample_unavailable" => misread \/ Gone(start_ticks)
    /\ wpc = "exited" /\ asked = "nobody" => misread \/ Gone(start_ticks)
    /\ wpc \in {"ended", "print"} \/ asked \in {"ended", "final_poll"}
          => misread \/ Gone(start_ticks) \/ stop_requested \/ once
    /\ LeavesOnlyOnExit

\* Unless a failed read was mistaken for the exit, the final poll begins when the process
\* has exited, so the lifecycle it reads is the last.
FinalInv ==
    /\ wpc \in {"read_status", "read_stat", "snapshot"} /\ asked = "ended"
          => mistaken \/ Exited(start_ticks)
    /\ asked = "final_poll" \/ wpc = "print"
          => \/ mistaken
             \/ Exited(start_ticks) /\ snapshot = objects[session].process_lifecycle
    /\ report # "nothing" => /\ wpc = "returned"
                             /\ session # None
                             /\ FinalLifecycle

\* The identity is read once, before the descriptor and the session, and a session is
\* accepted for that identity only.
LEMMA IdentitySteps ==
  ASSUME EndpointInv, TypeOK, ControlInv, AttachedInv, IdentityInv, WatcherStep
  PROVE  IdentityInv'
<1> USE DEF Goto, CallAlive, Stay, Return, Kept, KeptAside, endpointVars, handleVars,
           pollVars, historyVars,
           ControlInv, AttachedInv, Callers, IdentityInv, RightProcess, StatReadable
<1>a. proc \in Nat /\ start_ticks \in Nat /\ pid_descriptor \in Nat
  BY DEF EndpointInv, EndpointTypeOK, TypeOK
<1>b. phase # "none" => proc # None
  BY DEF EndpointInv, MappedInv
<1>c. \A o \in Created : objects[o].process_start_ticks \in {0, objects[o].maker}
  BY DEF EndpointInv, MadeInv, Created
<1>d. opened \in Created \cup {None} /\ sample \in [memory : Nat, identity : Nat]
  BY DEF TypeOK
<1> USE <1>a, <1>b, <1>c, <1>d DEF None
<1>1. CASE ReadIdentity
  BY <1>1 DEF ReadIdentity
<1>2. CASE OpenDescriptor
  BY <1>2 DEF OpenDescriptor
<1>3. CASE Attempt
  BY <1>3 DEF Attempt, AttemptsLeft
<1>4. CASE TryAttach
  BY <1>4 DEF TryAttach
<1>5. CASE Open
  BY <1>5 DEF Open
<1>6. CASE CheckSize
  BY <1>6 DEF CheckSize, Check
<1>7. CASE CheckHeader
  BY <1>7 DEF CheckHeader, Check
<1>8. CASE CheckTicks
  BY <1>8 DEF CheckTicks, OurTicks
<1>9. CASE Pause
  BY <1>9 DEF Pause, Wait
<1>10. CASE CountAttempt
  BY <1>10 DEF CountAttempt, NextAttempt
<1>11. CASE Attempted
  BY <1>11 DEF Attempted
<1>12. CASE Loop
  BY <1>12 DEF Loop
<1>13. CASE ReadStatus
  BY <1>13 DEF ReadStatus
<1>14. CASE ReadStat
  BY <1>14 DEF ReadStat
<1>15. CASE TakeSnapshot
  BY <1>15 DEF TakeSnapshot
<1>16. CASE AcceptSample
  BY <1>16 DEF AcceptSample, IdentityKept, NoSample
<1>17. CASE AcceptExit
  BY <1>17 DEF AcceptExit, NoSample
<1>18. CASE Observed
  BY <1>18 DEF Observed
<1>19. CASE Interval
  BY <1>19 DEF Interval, Wait
<1>20. CASE Ended
  BY <1>20 DEF Ended
<1>21. CASE PrintLifecycle
  BY <1>21 DEF PrintLifecycle
<1>22. CASE PollDescriptor
  BY <1>22, Dead DEF PollDescriptor, DeadGoes
<1>23. CASE RereadIdentity
  BY <1>23, Alive, Dead DEF RereadIdentity, SameIdentity, AliveGoes, DeadGoes
<1> QED
  BY <1>1, <1>2, <1>3, <1>4, <1>5, <1>6, <1>7, <1>8, <1>9, <1>10, <1>11,
     <1>12, <1>13, <1>14, <1>15, <1>16, <1>17, <1>18, <1>19, <1>20, <1>21, <1>22, <1>23
  DEF WatcherStep

\* alive() comes between the sample and its acceptance, and rereads the identity.
LEMMA SampleSteps ==
  ASSUME EndpointInv, TypeOK, ControlInv, AttachedInv, IdentityInv, SampleInv, WatcherStep
  PROVE  SampleInv'
<1> USE DEF Goto, CallAlive, Stay, Return, Kept, KeptAside, endpointVars, handleVars,
           pollVars, historyVars,
           ControlInv, AttachedInv, Callers, IdentityInv, SampleInv, StatReadable,
           HasStatus, HasStat, Gone, Runs, Exited
<1>a. proc \in Nat /\ start_ticks \in Nat /\ pid_descriptor \in Nat
  BY DEF EndpointInv, EndpointTypeOK, TypeOK
<1>b. phase # "none" => proc # None
  BY DEF EndpointInv, MappedInv
<1>c. /\ sample \in [memory : Nat, identity : Nat]
      /\ misread \in BOOLEAN /\ mistaken \in BOOLEAN
  BY DEF TypeOK
<1> USE <1>a, <1>b, <1>c DEF None
<1>1. CASE ReadIdentity
  BY <1>1 DEF ReadIdentity
<1>2. CASE OpenDescriptor
  BY <1>2 DEF OpenDescriptor
<1>3. CASE Attempt
  BY <1>3 DEF Attempt, AttemptsLeft
<1>4. CASE TryAttach
  BY <1>4 DEF TryAttach
<1>5. CASE Open
  BY <1>5 DEF Open
<1>6. CASE CheckSize
  BY <1>6 DEF CheckSize, Check
<1>7. CASE CheckHeader
  BY <1>7 DEF CheckHeader, Check
<1>8. CASE CheckTicks
  BY <1>8 DEF CheckTicks, OurTicks
<1>9. CASE Pause
  BY <1>9 DEF Pause, Wait
<1>10. CASE CountAttempt
  BY <1>10 DEF CountAttempt, NextAttempt
<1>11. CASE Attempted
  BY <1>11 DEF Attempted
<1>12. CASE Loop
  BY <1>12 DEF Loop
<1>13. CASE ReadStatus
  BY <1>13, FailedRead DEF ReadStatus
<1>14. CASE ReadStat
  BY <1>14, FailedRead DEF ReadStat
<1>15. CASE TakeSnapshot
  BY <1>15 DEF TakeSnapshot
<1>16. CASE AcceptSample
  BY <1>16 DEF AcceptSample, IdentityKept, NoSample
<1>17. CASE AcceptExit
  BY <1>17 DEF AcceptExit, NoSample
<1>18. CASE Observed
  BY <1>18 DEF Observed
<1>19. CASE Interval
  BY <1>19 DEF Interval, Wait
<1>20. CASE Ended
  BY <1>20 DEF Ended
<1>21. CASE PrintLifecycle
  BY <1>21 DEF PrintLifecycle
<1>22. CASE PollDescriptor
  BY <1>22, Dead DEF PollDescriptor, DeadGoes
<1>23. CASE RereadIdentity
  BY <1>23, Alive, Dead, FailedRead DEF RereadIdentity, SameIdentity, AliveGoes, DeadGoes
<1> QED
  BY <1>1, <1>2, <1>3, <1>4, <1>5, <1>6, <1>7, <1>8, <1>9, <1>10, <1>11,
     <1>12, <1>13, <1>14, <1>15, <1>16, <1>17, <1>18, <1>19, <1>20, <1>21, <1>22, <1>23
  DEF WatcherStep

\* What a sample says of the process is what the console makes of it.
LEMMA StatusSteps ==
  ASSUME EndpointInv, TypeOK, ControlInv, AttachedInv, IdentityInv, SampleInv, StatusInv,
         WatcherStep
  PROVE  StatusInv'
<1> USE DEF Goto, CallAlive, Stay, Return, Kept, KeptAside, endpointVars, handleVars,
           pollVars, historyVars,
           ControlInv, AttachedInv, Callers, IdentityInv, SampleInv, StatusInv,
           ReplacedIsExited, LeavesOnlyOnExit, Returned,
           HasStatus, HasStat, Gone, Runs, Exited, StatReadable
<1>a. proc \in Nat /\ start_ticks \in Nat /\ pid_descriptor \in Nat
  BY DEF EndpointInv, EndpointTypeOK, TypeOK
<1>b. /\ misread \in BOOLEAN /\ mistaken \in BOOLEAN
      /\ stop_requested \in BOOLEAN /\ once \in BOOLEAN
  BY DEF TypeOK
<1> USE <1>a, <1>b DEF None
<1>1. CASE ReadIdentity
  BY <1>1 DEF ReadIdentity
<1>2. CASE OpenDescriptor
  BY <1>2 DEF OpenDescriptor
<1>3. CASE Attempt
  BY <1>3 DEF Attempt, AttemptsLeft
<1>4. CASE TryAttach
  BY <1>4 DEF TryAttach
<1>5. CASE Open
  BY <1>5 DEF Open
<1>6. CASE CheckSize
  BY <1>6 DEF CheckSize, Check
<1>7. CASE CheckHeader
  BY <1>7 DEF CheckHeader, Check
<1>8. CASE CheckTicks
  BY <1>8 DEF CheckTicks, OurTicks
<1>9. CASE Pause
  BY <1>9 DEF Pause, Wait
<1>10. CASE CountAttempt
  BY <1>10 DEF CountAttempt, NextAttempt
<1>11. CASE Attempted
  BY <1>11 DEF Attempted
<1>12. CASE Loop
  BY <1>12 DEF Loop
<1>13. CASE ReadStatus
  BY <1>13, FailedRead DEF ReadStatus
<1>14. CASE ReadStat
  BY <1>14, FailedRead DEF ReadStat
<1>15. CASE TakeSnapshot
  BY <1>15 DEF TakeSnapshot
<1>16. CASE AcceptSample
  BY <1>16 DEF AcceptSample, IdentityKept, NoSample
<1>17. CASE AcceptExit
  BY <1>17 DEF AcceptExit, NoSample
<1>18. CASE Observed
  BY <1>18 DEF Observed
<1>19. CASE Interval
  BY <1>19 DEF Interval, Wait
<1>20. CASE Ended
  BY <1>20 DEF Ended
<1>21. CASE PrintLifecycle
  BY <1>21 DEF PrintLifecycle
<1>22. CASE PollDescriptor
  BY <1>22, Dead DEF PollDescriptor, DeadGoes
<1>23. CASE RereadIdentity
  BY <1>23, Alive, Dead, FailedRead DEF RereadIdentity, SameIdentity, AliveGoes, DeadGoes
<1> QED
  BY <1>1, <1>2, <1>3, <1>4, <1>5, <1>6, <1>7, <1>8, <1>9, <1>10, <1>11,
     <1>12, <1>13, <1>14, <1>15, <1>16, <1>17, <1>18, <1>19, <1>20, <1>21, <1>22, <1>23
  DEF WatcherStep

\* The answer "dead" is given for a process that has exited: its descriptor says so, or
\* the identifier is free or another process's.
LEMMA FinalSteps ==
  ASSUME EndpointInv, TypeOK, ControlInv, AttachedInv, IdentityInv, FinalInv, WatcherStep
  PROVE  FinalInv'
<1> USE DEF Goto, CallAlive, Stay, Return, Kept, KeptAside, endpointVars, handleVars,
           pollVars, historyVars,
           ControlInv, AttachedInv, Callers, IdentityInv, FinalInv, FinalLifecycle,
           StatReadable, Exited
<1>a. proc \in Nat /\ start_ticks \in Nat /\ pid_descriptor \in Nat
  BY DEF EndpointInv, EndpointTypeOK, TypeOK
<1>b. misread \in BOOLEAN /\ mistaken \in BOOLEAN
  BY DEF TypeOK
<1> USE <1>a, <1>b DEF None
<1>1. CASE ReadIdentity
  BY <1>1 DEF ReadIdentity
<1>2. CASE OpenDescriptor
  BY <1>2 DEF OpenDescriptor
<1>3. CASE Attempt
  BY <1>3 DEF Attempt, AttemptsLeft
<1>4. CASE TryAttach
  BY <1>4 DEF TryAttach
<1>5. CASE Open
  BY <1>5 DEF Open
<1>6. CASE CheckSize
  BY <1>6 DEF CheckSize, Check
<1>7. CASE CheckHeader
  BY <1>7 DEF CheckHeader, Check
<1>8. CASE CheckTicks
  BY <1>8 DEF CheckTicks, OurTicks
<1>9. CASE Pause
  BY <1>9 DEF Pause, Wait
<1>10. CASE CountAttempt
  BY <1>10 DEF CountAttempt, NextAttempt
<1>11. CASE Attempted
  BY <1>11 DEF Attempted
<1>12. CASE Loop
  BY <1>12 DEF Loop
<1>13. CASE ReadStatus
  BY <1>13, FailedRead DEF ReadStatus
<1>14. CASE ReadStat
  BY <1>14, FailedRead DEF ReadStat
<1>15. CASE TakeSnapshot
  BY <1>15 DEF TakeSnapshot
<1>16. CASE AcceptSample
  BY <1>16 DEF AcceptSample, IdentityKept, NoSample
<1>17. CASE AcceptExit
  BY <1>17 DEF AcceptExit, NoSample
<1>18. CASE Observed
  BY <1>18 DEF Observed
<1>19. CASE Interval
  BY <1>19 DEF Interval, Wait
<1>20. CASE Ended
  BY <1>20 DEF Ended
<1>21. CASE PrintLifecycle
  BY <1>21 DEF PrintLifecycle
<1>22. CASE PollDescriptor
  BY <1>22, Dead DEF PollDescriptor, DeadGoes
<1>23. CASE RereadIdentity
  BY <1>23, Alive, Dead, FailedRead DEF RereadIdentity, SameIdentity, AliveGoes, DeadGoes
<1> QED
  BY <1>1, <1>2, <1>3, <1>4, <1>5, <1>6, <1>7, <1>8, <1>9, <1>10, <1>11,
     <1>12, <1>13, <1>14, <1>15, <1>16, <1>17, <1>18, <1>19, <1>20, <1>21, <1>22, <1>23
  DEF WatcherStep

-----------------------------------------------------------------------------
\* All of it.
Inv ==
    /\ EndpointInv
    /\ TypeOK
    /\ ControlInv
    /\ AttemptInv
    /\ AttachedInv
    /\ IdentityInv
    /\ SampleInv
    /\ StatusInv
    /\ FinalInv

\* The watcher's invariants survive whatever its endpoint does meanwhile.
LEMMA EndpointDisturbsNothing ==
  ASSUME Inv, EndpointInv', Meanwhile(start_ticks), UNCHANGED watcherVars
  PROVE  Inv'
<1> USE DEF Inv, watcherVars
<1>a. proc \in Nat /\ proc' \in Nat /\ start_ticks \in Nat
  BY DEF EndpointInv, EndpointTypeOK, TypeOK
<1>b. start_ticks <= proc
  BY DEF IdentityInv
<1>1. TypeOK'
  BY DEF TypeOK, EndpointInv, Meanwhile
<1>2. ControlInv' /\ AttemptInv' /\ AttachedInv'
  BY DEF ControlInv, AttemptInv, AttachedInv
<1>3. session # None => session \in Created
  BY DEF TypeOK
<1>4. IdentityInv'
  BY <1>a, <1>3 DEF IdentityInv, RightProcess, Meanwhile, TypeOK
<1>5. Gone(start_ticks) => Gone(start_ticks)'
  BY <1>b DEF Meanwhile
<1>6. SampleInv'
  <2>1. sample.identity \in Nat /\ proc <= proc'
    BY DEF TypeOK, Meanwhile
  <2>2. UNCHANGED <<sample, wpc, asked, start_ticks>>
    OBVIOUS
  <2> QED
    BY <1>a, <1>5, <2>1, <2>2 DEF SampleInv, HasStatus, HasStat
<1>7. StatusInv'
  BY <1>5 DEF StatusInv, ReplacedIsExited, LeavesOnlyOnExit, Returned, Gone
<1>8. Exited(start_ticks) => Exited(start_ticks)'
  BY <1>b DEF Meanwhile
<1>9. session # None /\ Exited(start_ticks) => objects'[session] = objects[session]
  BY <1>3 DEF Meanwhile, IdentityInv, RightProcess
<1>10. FinalInv'
  BY <1>8, <1>9 DEF FinalInv, FinalLifecycle, AttachedInv
<1> QED
  BY <1>1, <1>2, <1>4, <1>6, <1>7, <1>10

\* The invariant holds at the start.
LEMMA InvInitial == Init => Inv
<1> SUFFICES ASSUME Init PROVE Inv
  OBVIOUS
<1>1. EndpointInv
  BY EndpointInitial DEF Init
<1>2. TypeOK
  <2>1. EndpointTypeOK
    BY <1>1 DEF EndpointInv
  <2>2. sample \in [memory : Nat, identity : Nat]
    BY DEF Init, NoSample, None
  <2>3. stop_requested \in BOOLEAN /\ once \in BOOLEAN
    BY DEF Init
  <2>4. attempt \in 0 .. MaxAttempts
    BY ConsoleAssumption DEF Init
  <2> QED
    BY <2>1, <2>2, <2>3, <2>4 DEF Init, TypeOK, Lifecycles, None
<1>3. ControlInv /\ AttemptInv /\ AttachedInv
  BY DEF Init, ControlInv, AttemptInv, AttachedInv
<1>4. IdentityInv
  BY DEF Init, EndpointInit, IdentityInv, RightProcess, NoSample
<1>5. SampleInv
  BY DEF Init, SampleInv, HasStatus, HasStat, NoSample
<1>6. StatusInv /\ FinalInv
  BY DEF Init, StatusInv, ReplacedIsExited, LeavesOnlyOnExit, Returned, FinalInv
<1> QED
  BY <1>1, <1>2, <1>3, <1>4, <1>5, <1>6 DEF Inv

\* Every step keeps the invariant.
LEMMA InvSteps ==
  ASSUME Inv, [Next]_vars
  PROVE  Inv'
<1>a. start_ticks \in Nat
  BY DEF Inv, TypeOK
<1>1. CASE EndpointNext /\ UNCHANGED watcherVars
  <2>1. EndpointInv'
    BY <1>1, EndpointTyping, EndpointMapped, EndpointMade DEF Inv, EndpointInv
  <2>2. Meanwhile(start_ticks)
    BY <1>1, <1>a, EndpointMoves DEF Inv
  <2> QED
    BY <1>1, <2>1, <2>2, EndpointDisturbsNothing
<1>2. CASE WatcherStep
  <2>1. EndpointInv'
    BY <1>2, WatcherAside, EndpointIdle DEF Inv
  <2>2. ControlInv' /\ AttachedInv'
    BY <1>2, ControlSteps, AttachedSteps DEF Inv
  <2>3. AttemptInv'
    BY <1>2, AttemptSteps DEF Inv, TypeOK
  <2>4. TypeOK'
    BY <1>2, TypeSteps DEF Inv
  <2>5. IdentityInv' /\ SampleInv'
    BY <1>2, IdentitySteps, SampleSteps DEF Inv
  <2>6. StatusInv' /\ FinalInv'
    BY <1>2, StatusSteps, FinalSteps DEF Inv
  <2> QED
    BY <2>1, <2>2, <2>3, <2>4, <2>5, <2>6 DEF Inv
<1>3. CASE HandleSignal
  <2>1. /\ UNCHANGED endpointVars
        /\ UNCHANGED <<once, wpc, asked, start_ticks, pid_descriptor, attempt, opened,
                       session, sample, snapshot, status, report, exit_code, misread,
                       mistaken>>
        /\ stop_requested' = TRUE /\ ~Returned
    BY <1>3 DEF HandleSignal, handleVars, pollVars, historyVars
  <2>2. EndpointInv'
    BY <2>1, EndpointIdle DEF Inv
  <2>3. TypeOK'
    BY <2>1, <2>2 DEF Inv, TypeOK, EndpointInv, endpointVars, Created
  <2>4. ControlInv' /\ AttemptInv' /\ AttachedInv'
    BY <2>1 DEF Inv, ControlInv, AttemptInv, AttachedInv
  <2>5. IdentityInv' /\ SampleInv'
    BY <2>1 DEF Inv, IdentityInv, RightProcess, SampleInv, HasStatus, HasStat, Gone,
                Runs, endpointVars
  <2>6. StatusInv' /\ FinalInv'
    BY <2>1 DEF Inv, StatusInv, ReplacedIsExited, LeavesOnlyOnExit, Returned, FinalInv,
                FinalLifecycle, Gone, Runs, Exited, endpointVars
  <2> QED
    BY <2>2, <2>3, <2>4, <2>5, <2>6 DEF Inv
<1>4. CASE UNCHANGED vars
  <2>1. UNCHANGED endpointVars /\ UNCHANGED watcherVars
    BY <1>4 DEF vars, endpointVars, watcherVars
  <2>2. EndpointInv'
    BY <2>1, EndpointIdle DEF Inv
  <2>3. Meanwhile(start_ticks)
    <3>1. proc \in Nat /\ \A o \in Created : objects[o].process_lifecycle \in Lifecycles
      BY DEF Inv, EndpointInv, EndpointTypeOK, Created
    <3>2. UNCHANGED <<proc, phase, objects>>
      BY <2>1 DEF endpointVars
    <3>3. Created' = Created
      BY <3>2 DEF Created
    <3>4. Gone(start_ticks) => Gone(start_ticks)'
      BY <2>1, <3>2 DEF Gone, Runs, watcherVars
    <3>5. Exited(start_ticks) => Exited(start_ticks)'
      BY <2>1, <3>2 DEF Exited, watcherVars
    <3> QED
      BY <3>1, <3>2, <3>3, <3>4, <3>5 DEF Meanwhile
  <2> QED
    BY <2>1, <2>2, <2>3, EndpointDisturbsNothing
<1> QED
  BY <1>1, <1>2, <1>3, <1>4 DEF Next

\* It holds always.
THEOREM Invariance == Spec => []Inv
  BY InvInitial, InvSteps, PTL DEF Spec

-----------------------------------------------------------------------------
\* Type correctness.
THEOREM TypeCorrect == Spec => []TypeOK
<1>1. Inv => TypeOK
  BY DEF Inv
<1> QED
  BY <1>1, Invariance, PTL

\* A watcher that looks up the name while the client is available() finds its object.
THEOREM AvailableIsLinkedAlways == Spec => []AvailableIsLinked
<1>1. Inv => AvailableIsLinked
  BY DEF Inv, EndpointInv, MappedInv, HasObject, AvailableIsLinked, AtStep
<1> QED
  BY <1>1, Invariance, PTL

\* An object that has lost the name tells a watcher that still maps it.
THEOREM OrphanIsClosedAlways == Spec => []OrphanIsClosed
<1>1. Inv => OrphanIsClosed
  BY DEF Inv, EndpointInv, MappedInv, MadeInv, HasObject, OrphanIsClosed, Created
<1> QED
  BY <1>1, Invariance, PTL

\* A session is on the object of the process the handle was opened for.
THEOREM RightProcessAlways == Spec => []RightProcess
<1>1. Inv => RightProcess
  BY DEF Inv, IdentityInv
<1> QED
  BY <1>1, Invariance, PTL

\* A process that was replaced is reported as exited.
THEOREM ReplacedIsExitedAlways == Spec => []ReplacedIsExited
<1>1. Inv => ReplacedIsExited
  BY DEF Inv, StatusInv
<1> QED
  BY <1>1, Invariance, PTL

\* The lifecycle printed after the exit is the last one stored in the object of the
\* session, by a process that has exited, unless the alive() after the polling loop could
\* not read the identity of one that had not.
THEOREM FinalLifecycleAlways == Spec => []FinalLifecycle
<1>1. Inv => FinalLifecycle
  BY DEF Inv, FinalInv, FinalLifecycle
<1> QED
  BY <1>1, Invariance, PTL

\* As long as its reads of /proc succeed, an attached console leaves a process that runs
\* only because it was asked to, and without an error.
THEOREM LeavesOnlyOnExitAlways == Spec => []LeavesOnlyOnExit
<1>1. Inv => LeavesOnlyOnExit
  BY DEF Inv, StatusInv
<1> QED
  BY <1>1, Invariance, PTL
=============================================================================
