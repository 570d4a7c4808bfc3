------------------------------ MODULE Endpoint ------------------------------
(***************************************************************************)
(* The producer's side of one process identifier: the processes that hold  *)
(* the identifier one after the other, the client of each, which creates   *)
(* the shared object watchers look for (client::start,                     *)
(* create_process_mapping) and takes it down again (client::stop,          *)
(* shared_mapping::reset), and the one name under which all of them link   *)
(* their objects.                                                          *)
(*                                                                         *)
(* A process may be killed between any two system calls of its client and  *)
(* leaves its object linked then.  start and stop run under one mutex and  *)
(* a process has one client, client::process(), so the steps of a start or *)
(* a stop are never interleaved with those of another.                     *)
(***************************************************************************)
EXTENDS Integers

CONSTANTS
    MaxProcesses,   \* bound of the model: processes that ever get the identifier
    MaxObjects      \* bound of the model: objects ever created

ASSUME EndpointAssumption ==
    /\ MaxProcesses \in Nat
    /\ MaxObjects \in Nat

VARIABLES
    proc,      \* the latest process with the identifier; its number is its start time
    phase,     \* what is left of that process
    cpc,       \* where its client is in start or stop
    mapping,   \* object its client has mapped, or None
    linked,    \* object the name is linked to, or None
    objects    \* the objects created so far, in order

endpointVars == <<proc, phase, cpc, mapping, linked, objects>>

None == 0

\* lifecycle::starting, running and clean_exit; 0 is memory not yet written.
Lifecycles == {"zero", "starting", "running", "clean_exit"}

Objects == 1 .. MaxObjects
Absent == [maker |-> None, sized |-> FALSE, header |-> FALSE,
           process_start_ticks |-> 0, process_lifecycle |-> "zero",
           abandoned |-> FALSE]   \* history: a start that failed left it, saying running

Created == {o \in Objects : objects[o].maker # None}

Runs == phase = "running"

\* The client is at the step named label, in a process that runs.
AtStep(label) == Runs /\ cpc = label

UnchangedProcess == UNCHANGED <<proc, phase>>

-----------------------------------------------------------------------------
(***************************************************************************)
(* The operating system: the life of a process.                            *)
(***************************************************************************)

Spawn ==
    /\ phase = "none"
    /\ proc < MaxProcesses
    /\ proc' = proc + 1
    /\ phase' = "running"
    /\ cpc' = "stopped"
    /\ mapping' = None
    /\ UNCHANGED <<linked, objects>>

\* A process that dies gives its memory back first, then turns into a zombie,
\* and loses its identifier when its parent has waited for it.
Die ==
    /\ Runs
    /\ phase' = "exiting"
    /\ UNCHANGED <<proc, cpc, mapping, linked, objects>>

BecomeZombie ==
    /\ phase = "exiting"
    /\ phase' = "zombie"
    /\ UNCHANGED <<proc, cpc, mapping, linked, objects>>

Reap ==
    /\ phase = "zombie"
    /\ phase' = "none"
    /\ UNCHANGED <<proc, cpc, mapping, linked, objects>>

-----------------------------------------------------------------------------
(***************************************************************************)
(* client::start and create_process_mapping.                               *)
(***************************************************************************)

\* Removes what an earlier process with this identifier may have left.
UnlinkOld ==
    /\ AtStep("stopped")
    /\ cpc' = "create"
    /\ linked' = None
    /\ UnchangedProcess
    /\ UNCHANGED <<mapping, objects>>

CreateObject ==
    \E o \in Objects \ Created :
        /\ AtStep("create")
        /\ \A other \in Objects \ Created : o <= other
        /\ linked = None
        /\ objects' = [objects EXCEPT ![o] = [Absent EXCEPT !.maker = proc]]
        /\ linked' = o
        /\ mapping' = o
        /\ cpc' = "size"
        /\ UnchangedProcess

\* shm_open fails: nothing to undo.
FailCreate ==
    /\ AtStep("create")
    /\ cpc' = "stopped"
    /\ UnchangedProcess
    /\ UNCHANGED <<mapping, linked, objects>>

SizeObject ==
    /\ AtStep("size")
    /\ objects' = [objects EXCEPT ![mapping].sized = TRUE]
    /\ cpc' = "fill"
    /\ UnchangedProcess
    /\ UNCHANGED <<mapping, linked>>

\* ftruncate, fchmod or mmap fails: the name is unlinked again.
FailMapping ==
    /\ cpc \in {"size", "fill"}
    /\ Runs
    /\ linked' = None
    /\ mapping' = None
    /\ cpc' = "stopped"
    /\ UnchangedProcess
    /\ UNCHANGED objects

\* new (address) shared_state and the fields up to the user identifier.
FillHeader ==
    /\ AtStep("fill")
    /\ objects' = [objects EXCEPT ![mapping] =
                      [@ EXCEPT !.header = TRUE, !.process_lifecycle = "starting"]]
    /\ cpc' = "ticks"
    /\ UnchangedProcess
    /\ UNCHANGED <<mapping, linked>>

\* The start time stays zero when the process cannot read its own.
StoreTicks ==
    \E ticks \in {0, proc} :
        /\ AtStep("ticks")
        /\ objects' = [objects EXCEPT ![mapping].process_start_ticks = ticks]
        /\ cpc' = "publish"
        /\ UnchangedProcess
        /\ UNCHANGED <<mapping, linked>>

\* An allocation fails while the process reads its own identity.  The catch of start
\* returns false; the object stays mapped by nobody, and linked.
ThrowUnread ==
    /\ AtStep("ticks")
    /\ mapping' = None
    /\ cpc' = "stopped"
    /\ UnchangedProcess
    /\ UNCHANGED <<linked, objects>>

\* Mutant: the moved-from mapping still owns the name and unlinks it.
MovedFromUnlinks == None

\* What moving the mapping into the client leaves of the link.
LinkKept == linked

\* The object says running, the mapping moves into the client and state_ is set:
\* a watcher sees the first of these only.
Publish ==
    /\ AtStep("publish")
    /\ objects' = [objects EXCEPT ![mapping].process_lifecycle = "running"]
    /\ linked' = LinkKept
    /\ cpc' = "available"
    /\ UnchangedProcess
    /\ UNCHANGED mapping

\* An allocation fails when the name is copied into the mapping, after the object
\* says running.  What is thrown away then has no name to unlink.
ThrowUnnamed ==
    /\ AtStep("publish")
    /\ objects' = [objects EXCEPT ![mapping] =
                      [@ EXCEPT !.process_lifecycle = "running", !.abandoned = TRUE]]
    /\ mapping' = None
    /\ cpc' = "stopped"
    /\ UnchangedProcess
    /\ UNCHANGED linked

-----------------------------------------------------------------------------
(***************************************************************************)
(* client::stop; also what the destructor of the client does at exit.      *)
(***************************************************************************)

\* Mutant: the object is not marked.
StopUnmarked ==
    /\ AtStep("available")
    /\ cpc' = "unmap"
    /\ UnchangedProcess
    /\ UNCHANGED <<mapping, linked, objects>>

\* state_ is taken back and the object marked.
MarkCleanExit ==
    /\ AtStep("available")
    /\ objects' = [objects EXCEPT ![mapping].process_lifecycle = "clean_exit"]
    /\ cpc' = "unmap"
    /\ UnchangedProcess
    /\ UNCHANGED <<mapping, linked>>

UnmapAndUnlink ==
    /\ AtStep("unmap")
    /\ linked' = None
    /\ mapping' = None
    /\ cpc' = "stopped"
    /\ UnchangedProcess
    /\ UNCHANGED objects

-----------------------------------------------------------------------------
EndpointInit ==
    /\ proc = 0
    /\ phase = "none"
    /\ cpc = "stopped"
    /\ mapping = None
    /\ linked = None
    /\ objects = [o \in Objects |-> Absent]

EndpointNext ==
    \/ Spawn \/ Die \/ BecomeZombie \/ Reap
    \/ UnlinkOld \/ CreateObject \/ FailCreate \/ SizeObject \/ FailMapping
    \/ FillHeader \/ StoreTicks \/ ThrowUnread \/ Publish \/ ThrowUnnamed
    \/ MarkCleanExit \/ UnmapAndUnlink

-----------------------------------------------------------------------------
(***************************************************************************)
(* Properties.                                                             *)
(***************************************************************************)

EndpointTypeOK ==
    /\ proc \in Nat
    /\ phase \in {"none", "running", "exiting", "zombie"}
    /\ cpc \in {"stopped", "create", "size", "fill", "ticks", "publish", "available",
                "unmap"}
    /\ mapping \in Objects \cup {None}
    /\ linked \in Objects \cup {None}
    /\ objects \in [Objects -> [maker : Nat, sized : BOOLEAN, header : BOOLEAN,
                                process_start_ticks : Nat,
                                process_lifecycle : Lifecycles,
                                abandoned : BOOLEAN]]

\* While a client is available() watchers that look up the name find its object,
\* and not one an earlier process or an earlier start left there.
AvailableIsLinked == AtStep("available") => linked = mapping

\* An object that was fit for a watcher and is no longer the linked one says
\* clean_exit, or its process is dead: a watcher that kept its mapping can tell.  The
\* exception is an object that a start could not even name: nobody marks it.
OrphanIsClosed ==
    \A o \in Created :
        objects[o].process_lifecycle = "running" /\ o # linked /\ ~objects[o].abandoned
            => ~Runs \/ objects[o].maker # proc
=============================================================================
