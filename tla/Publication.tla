------------------------------ MODULE Publication ------------------------------
(***************************************************************************)
(* The verification of a commit by the Checks and the CodeQL workflow, the *)
(* reuse of what both have verified for the pull request it merges, and    *)
(* the Deploy workflow, which publishes a commit both have verified.       *)
(*                                                                         *)
(* A job learns of the other workflows by calls to the GitHub API, one     *)
(* after the other.  Between two of them runs end, fail and are run again, *)
(* artifacts expire and the default branch moves on: every call is a step. *)
(* The jobs and the artifact of a completed attempt do not change, so what *)
(* they say is read with the run.                                          *)
(***************************************************************************)
EXTENDS Integers, Sequences

CONSTANTS
    Deploys,       \* Deploy workflow runs that may be under way at a time
    MaxCommits,    \* bound of the model: commits on the default branch
    MaxUpsets      \* bound of the model: failures, reruns, expired artifacts and
                   \* Deploy runs that overlap with another one

ASSUME PublicationAssumption ==
    /\ {MaxCommits, MaxUpsets} \subseteq Nat
    /\ MaxCommits # 0
    /\ Deploys \cap {"checks", "codeql"} = {}

Kinds == {"checks", "codeql"}

\* Run <<c, k>> is the run of k for the push of commit c; <<0, k>> the one for the
\* pull request that commit 1 merges.  Other commits merge none.
Runs == (0 .. MaxCommits) \X Kinds

\* The jobs that make calls: the select jobs of the runs for commit 1, by their kind,
\* and the Deploy runs.
Actors == Kinds \cup Deploys

VARIABLES
    tip,         \* commit at the tip of the default branch
    attempt,     \* run_attempt of every run
    status,      \* of its latest attempt
    mode,        \* what that attempt is about: "full", "delta" or "reuse"
    tree,        \* tree the pull request's runs tested: that of commit 1, or 0
    evidence,    \* artifacts of full verification, by run and attempt
    triggers,    \* completions that have yet to start a Deploy run, by run and attempt
    phase,       \* of a Deploy run
    trigger,     \* the completion that started it
    todo,        \* calls an actor has yet to make
    seen,        \* attempts of the runs it has read, 0 for the others
    source,      \* commit or pull request whose runs its evidence is from
    expected,    \* what it has found in the publication phase
    deployed,    \* commit that is published, 0 for none
    coherent,    \* history: was all it had read so when it read the last of it?
    verified,    \* history: full verifications that succeeded, by tree and kind
    touched,     \* history: 1 once the pull request's runs or an artifact have changed
    upsets       \* history: number of upsets

world   == <<tip, attempt, status, mode, tree, evidence, triggers>>
deploys == <<phase, trigger, expected, deployed>>
actors  == <<todo, seen, source, coherent>>
history == <<verified, touched, upsets>>
vars == <<tip, attempt, status, mode, tree, evidence, triggers, phase, trigger, todo,
          seen, source, expected, deployed, coherent, verified, touched, upsets>>

Unseen == [r \in Runs |-> 0]
NoSource == [k \in Kinds |-> 0]
NoRun == <<0, "checks", 0>>

Upset == upsets < MaxUpsets /\ upsets' = upsets + 1

Commit(d) == trigger[d][1]

-----------------------------------------------------------------------------
(***************************************************************************)
(* The calls of a verification.                                            *)
(***************************************************************************)

Call(op, r) == [op |-> op, run |-> r]

Failed == Call("failed", <<0, "checks">>)

\* Both runs of the pull request are verified, then both are looked at once more.
ReusablePair ==
    <<Call("verify", <<0, "checks">>), Call("verify", <<0, "codeql">>),
      Call("confirm", <<0, "checks">>), Call("confirm", <<0, "codeql">>)>>

\* Mutant: any commit of the default branch will do.
AnyCommit(c) == <<>>

CurrentDefault(c) == <<Call("tip", <<c, "checks">>)>>

\* Mutant: the push runs are looked at only once.
NoPushes(c) == <<>>

\* The push runs once more.
ConfirmPushes(c) == <<Call("confirm", <<c, "checks">>), Call("confirm", <<c, "codeql">>)>>

\* The latest push runs with their evidence, both once more, then the runs the
\* evidence is from, and the tip again.
PublicationPair(c) ==
    CurrentDefault(c)
    \o <<Call("latest", <<c, "checks">>), Call("latest", <<c, "codeql">>)>>
    \o ConfirmPushes(c)
    \o <<Call("source", <<c, "checks">>), Call("source", <<c, "codeql">>)>>
    \o CurrentDefault(c)

Makes(a, op) == todo[a] # <<>> /\ Head(todo[a]).op = op

Run(a) == Head(todo[a]).run

\* The next call is answered; if the answer will do, the calls it leads to come first.
Answer(a, ok, calls) ==
    todo' = [todo EXCEPT ![a] = IF ok THEN calls \o Tail(@) ELSE <<Failed>>]

CheckTip(a) ==
    /\ Makes(a, "tip")
    /\ Answer(a, tip = Commit(a), <<>>)
    /\ UNCHANGED <<seen, source, coherent>>

\* completed, and still the attempt that was seen.
Unchanged(r, n) == status[r] = "success" /\ attempt[r] = n

\* The runs that what a has found rests on.
RestsOn(a, from) ==
    IF a \in Kinds THEN {<<0, k>> : k \in Kinds}
    ELSE {<<Commit(a), k>> : k \in Kinds} \cup {<<from[k], k>> : k \in Kinds}

\* Actor a reads run r, which makes its evidence that of the runs of from.
Read(a, r, from) ==
    /\ seen' = [seen EXCEPT ![a][r] = attempt[r]]
    /\ source' = [source EXCEPT ![a] = from]
    /\ coherent' = [coherent EXCEPT ![a] =
          /\ a \in Deploys => tip = Commit(a)
          /\ \A q \in RestsOn(a, from) : seen'[a][q] = 0 \/ Unchanged(q, seen'[a][q])]

\* Mutant: the evidence of another tree will do.
AnyTree(r) == TRUE

\* The receipt is about the tree that is checked out.
SameTree(r) == r[1] = 0 => tree = 1

\* verifiedRun: the run has succeeded, and the artifact of its attempt is there and
\* vouches for a full verification of the tree.  Its last call, unchangedRun, finds
\* the attempt that the calls before it were about, so that they are one step.
HasEvidence(r) == status[r] = "success" /\ <<r, attempt[r]>> \in evidence /\ SameTree(r)

VerifyRun(a) ==
    /\ Makes(a, "verify")
    /\ Read(a, Run(a), source[a])
    /\ Answer(a, HasEvidence(Run(a)), <<>>)

\* A trigger of an obsolete attempt will not do.
Triggered(d, r) == r = <<trigger[d][1], trigger[d][2]>> => attempt[r] = trigger[d][3]

\* latestPush and requiredJob: the run either recorded a verification of its own or
\* reused the pull request's, whose runs are verified unless they have been.
ReadLatest(d) ==
    /\ Makes(d, "latest")
    /\ LET r == Run(d)
           reuse == mode[r] = "reuse"
       IN  /\ Read(d, r, [source[d] EXCEPT ![r[2]] = IF reuse THEN 0 ELSE r[1]])
           /\ Answer(d, /\ status[r] = "success" /\ Triggered(d, r)
                        /\ reuse \/ HasEvidence(r),
                     IF reuse /\ seen[d][<<0, "checks">>] = 0 THEN ReusablePair ELSE <<>>)

\* unchangedRun, or a second latestPush.
Confirm(a) ==
    /\ Makes(a, "confirm")
    /\ Answer(a, Unchanged(Run(a), seen[a][Run(a)]), <<>>)
    /\ UNCHANGED <<seen, source, coherent>>

ConfirmSource(d) ==
    /\ Makes(d, "source")
    /\ LET r == <<source[d][Run(d)[2]], Run(d)[2]>>
       IN  Answer(d, Unchanged(r, seen[d][r]), <<>>)
    /\ UNCHANGED <<seen, source, coherent>>

\* One call of an actor.
MakeCall(a) ==
    /\ a \in Kinds => status[<<1, a>>] = "selecting"
    /\ CheckTip(a) \/ VerifyRun(a) \/ ReadLatest(a) \/ Confirm(a) \/ ConfirmSource(a)
    /\ UNCHANGED world
    /\ UNCHANGED deploys
    /\ UNCHANGED history

\* An actor begins with the given calls, or forgets what it has seen.
Begin(a, calls) ==
    /\ todo' = [todo EXCEPT ![a] = calls]
    /\ seen' = [seen EXCEPT ![a] = Unseen]
    /\ source' = [source EXCEPT ![a] = NoSource]
    /\ coherent' = [coherent EXCEPT ![a] = TRUE]

-----------------------------------------------------------------------------
(***************************************************************************)
(* The runs of Checks and CodeQL.                                          *)
(***************************************************************************)

\* The select job of a run for commit 1 looks for evidence of its pull request.
Starts(r) == IF r[1] = 1 THEN "selecting" ELSE "running"

InProgress(r) == status[r] \in {"selecting", "running"}

\* The runs of a workflow for pushes, which all are to one branch, or for the pull
\* request are of one concurrency group: cancel-in-progress.
SameGroup(r, q) == r[2] = q[2] /\ (r[1] = 0 <=> q[1] = 0)

StartRuns(rs) ==
    /\ attempt' = [r \in Runs |-> IF r \in rs THEN attempt[r] + 1 ELSE attempt[r]]
    /\ status' = [r \in Runs |->
          IF r \in rs THEN Starts(r)
          ELSE IF InProgress(r) /\ \E q \in rs : SameGroup(r, q) THEN "failure"
          ELSE status[r]]

\* A commit is pushed, or the pull request merged; both workflows start.
Push ==
    /\ tip < MaxCommits
    /\ tip' = tip + 1
    /\ StartRuns({<<tip', k>> : k \in Kinds})
    /\ UNCHANGED <<mode, tree, evidence, triggers>>
    /\ UNCHANGED actors
    /\ UNCHANGED deploys
    /\ UNCHANGED history

\* select: both kinds are verified for the pull request, or a full verification it is.
Select(k) ==
    /\ status[<<1, k>>] = "selecting"
    /\ todo[k] \in {<<>>, <<Failed>>}
    /\ mode' = [mode EXCEPT ![<<1, k>>] = IF todo[k] = <<>> THEN "reuse" ELSE "full"]
    /\ status' = [status EXCEPT ![<<1, k>>] = "running"]
    /\ Begin(k, ReusablePair)
    /\ UNCHANGED <<tip, attempt, tree, evidence, triggers>>
    /\ UNCHANGED deploys
    /\ UNCHANGED history

\* Mutant: the artifact is named after the next attempt.
NextAttempt(r) == attempt[r] + 1

ThisAttempt(r) == attempt[r]

\* Mutant: only CodeQL, which takes longer, triggers a Deploy run.
LongerTriggers(r) == r[1] # 0 /\ r = <<tip, "codeql">>

\* A push run triggers a Deploy run if its commit is the tip.
TriggersDeploy(r) == r[1] # 0 /\ r[1] = tip

\* A run that succeeds has recorded what it verified, under its attempt.
Succeed(r) ==
    /\ status[r] = "running"
    /\ status' = [status EXCEPT ![r] = "success"]
    /\ evidence' = evidence \cup (IF mode[r] = "full" THEN {<<r, ThisAttempt(r)>>} ELSE {})
    /\ verified' = verified \cup
          (IF mode[r] = "full" THEN {<<IF r[1] = 0 THEN tree ELSE r[1], r[2]>>} ELSE {})
    /\ triggers' = triggers \cup
          (IF TriggersDeploy(r) THEN {<<r[1], r[2], attempt[r]>>} ELSE {})
    /\ UNCHANGED <<tip, attempt, mode, tree, touched, upsets>>
    /\ UNCHANGED actors
    /\ UNCHANGED deploys

\* A run fails, or somebody cancels it.
Fail(r) ==
    /\ Upset
    /\ InProgress(r)
    /\ status' = [status EXCEPT ![r] = "failure"]
    /\ UNCHANGED <<tip, attempt, mode, tree, evidence, triggers, verified, touched>>
    /\ UNCHANGED actors
    /\ UNCHANGED deploys

\* Somebody has a run that is over run again.
Rerun(r) ==
    /\ Upset
    /\ status[r] \in {"success", "failure"}
    /\ StartRuns({r})
    /\ touched' = IF r[1] = 0 THEN 1 ELSE touched
    /\ IF r[1] = 1 THEN Begin(r[2], ReusablePair) ELSE UNCHANGED actors
    /\ UNCHANGED <<tip, mode, tree, evidence, triggers, verified>>
    /\ UNCHANGED deploys

\* An artifact expires or is deleted.
Expire ==
    /\ Upset
    /\ \E e \in evidence : evidence' = evidence \ {e}
    /\ touched' = 1
    /\ UNCHANGED <<tip, attempt, status, mode, tree, triggers, verified>>
    /\ UNCHANGED actors
    /\ UNCHANGED deploys

-----------------------------------------------------------------------------
(***************************************************************************)
(* The Deploy workflow.                                                    *)
(***************************************************************************)

\* The build job selects the evidence ...
StartDeploy(d) ==
    /\ phase[d] = "idle"
    /\ \E t \in triggers :
          /\ triggers' = triggers \ {t}
          /\ trigger' = [trigger EXCEPT ![d] = t]
          /\ Begin(d, PublicationPair(t[1]))
    /\ phase' = [phase EXCEPT ![d] = "publication"]
    /\ IF \A e \in Deploys : phase[e] = "idle" THEN UNCHANGED upsets ELSE Upset
    /\ UNCHANGED <<tip, attempt, status, mode, tree, evidence, expected, deployed>>
    /\ UNCHANGED <<verified, touched>>

\* The source that publication returns, and revalidatePublication compares.
Found(d) == [r \in RestsOn(d, source[d]) |-> seen[d][r]]

\* A phase whose calls have all been answered well is followed by the next one.
Advance(d, from, to, calls) ==
    /\ phase[d] = from
    /\ todo[d] = <<>>
    /\ from \in {"revalidation", "deployment"} => Found(d) = expected[d]
    /\ phase' = [phase EXCEPT ![d] = to]
    /\ expected' = [expected EXCEPT ![d] = IF from = "publication" THEN Found(d) ELSE @]
    /\ Begin(d, calls)
    /\ UNCHANGED <<trigger, deployed>>
    /\ UNCHANGED world
    /\ UNCHANGED history

\* ... builds the documentation, looks at the evidence again ...
Revalidate(d) == Advance(d, "publication", "revalidation", PublicationPair(Commit(d)))

\* ... and, having uploaded the pages, at the tip.
FinishBuild(d) == tip = Commit(d) /\ Advance(d, "revalidation", "waiting", <<>>)

\* The deploy job, one at a time, looks at all the evidence a third time ...
StartDeployment(d) ==
    /\ \A e \in Deploys : phase[e] \notin {"deployment", "deploying"}
    /\ Advance(d, "waiting", "deployment", PublicationPair(Commit(d)))

\* ... and deploys.
FinishRevalidation(d) == Advance(d, "deployment", "deploying", <<>>)

Over(d) ==
    /\ phase' = [phase EXCEPT ![d] = "idle"]
    /\ trigger' = [trigger EXCEPT ![d] = NoRun]
    /\ expected' = [expected EXCEPT ![d] = <<>>]
    /\ Begin(d, <<>>)
    /\ UNCHANGED world
    /\ UNCHANGED history

Deploy(d) ==
    /\ phase[d] = "deploying"
    /\ deployed' = Commit(d)
    /\ Over(d)

\* "Publication deferred", or evidence that is missing or has changed.
Defer(d) ==
    /\ \/ todo[d] = <<Failed>>
       \/ /\ phase[d] \in {"revalidation", "deployment"}
          /\ todo[d] = <<>>
          /\ \/ Found(d) # expected[d]
             \/ phase[d] = "revalidation" /\ tip # Commit(d)
    /\ UNCHANGED deployed
    /\ Over(d)

-----------------------------------------------------------------------------
\* A pull request that both workflows have verified, against the base it was merged
\* into or another one; CodeQL in full or only by its delta.
Init ==
    /\ tip = 0
    /\ attempt = [r \in Runs |-> IF r[1] = 0 THEN 1 ELSE 0]
    /\ status = [r \in Runs |-> IF r[1] = 0 THEN "success" ELSE "none"]
    /\ \E m \in {"full", "delta"} :
          mode = [r \in Runs |-> IF r = <<0, "codeql">> THEN m ELSE "full"]
    /\ tree \in {0, 1}
    /\ evidence = {<<r, 1>> : r \in {s \in Runs : s[1] = 0 /\ mode[s] = "full"}}
    /\ triggers = {}
    /\ phase = [d \in Deploys |-> "idle"]
    /\ trigger = [d \in Deploys |-> NoRun]
    /\ todo = [a \in Actors |-> IF a \in Kinds THEN ReusablePair ELSE <<>>]
    /\ seen = [a \in Actors |-> Unseen]
    /\ source = [a \in Actors |-> NoSource]
    /\ expected = [d \in Deploys |-> <<>>]
    /\ deployed = 0
    /\ coherent = [a \in Actors |-> TRUE]
    /\ verified = {<<tree, e[1][2]>> : e \in evidence}
    /\ touched = 0
    /\ upsets = 0

Next ==
    \/ \E a \in Actors : MakeCall(a)
    \/ \E k \in Kinds : Select(k)
    \/ \E r \in Runs : Succeed(r) \/ Fail(r) \/ Rerun(r)
    \/ Push \/ Expire
    \/ \E d \in Deploys : \/ StartDeploy(d) \/ Revalidate(d) \/ FinishBuild(d)
                          \/ StartDeployment(d) \/ FinishRevalidation(d)
                          \/ Deploy(d) \/ Defer(d)

Spec == Init /\ [][Next]_vars

-----------------------------------------------------------------------------
(***************************************************************************)
(* Properties.                                                             *)
(***************************************************************************)

\* The state stays within its types, and evidence is of attempts there have been.
TypeOK ==
    /\ tip \in 0 .. MaxCommits
    /\ attempt \in [Runs -> 0 .. MaxUpsets + 1]
    /\ status \in [Runs -> {"none", "selecting", "running", "success", "failure"}]
    /\ mode \in [Runs -> {"full", "delta", "reuse"}]
    /\ tree \in {0, 1}
    /\ \A e \in evidence : e[1] \in Runs /\ e[2] \in 1 .. attempt[e[1]]
    /\ \A t \in triggers : <<t[1], t[2]>> \in Runs /\ t[1] # 0
    /\ phase \in [Deploys -> {"idle", "publication", "revalidation", "waiting", "deployment",
                              "deploying"}]
    /\ todo \in [Actors -> Seq([op : {"tip", "verify", "latest", "confirm", "source",
                                      "failed"}, run : Runs])]
    /\ seen \in [Actors -> [Runs -> Nat]]
    /\ source \in [Actors -> [Kinds -> 0 .. MaxCommits]]
    /\ deployed \in 0 .. MaxCommits
    /\ coherent \in [Actors -> BOOLEAN]
    /\ verified \subseteq (0 .. MaxCommits) \X Kinds
    /\ touched \in {0, 1}
    /\ upsets \in 0 .. MaxUpsets

\* What is published has been verified in full, by both workflows, and the very tree
\* of it: by its own runs or, tree for tree, by those of the pull request, whatever
\* was run again, failed or expired meanwhile.
PublishedIsVerified == deployed # 0 => \A k \in Kinds : <<deployed, k>> \in verified

\* The pages never go back to an older commit, however the Deploy runs of two
\* commits overtake each other.
NoRollback == [][deployed' >= deployed]_vars

\* What is concluded from a series of calls was so at one moment, though no call sees
\* more than a part: when a Deploy run goes on to its next phase, its commit was the
\* tip and the latest attempts of both workflows, and of the runs of the pull request
\* they reuse, had succeeded ("the latest failed/incomplete attempt blocks Pages");
\* when a select job reuses the pull request's verification, both workflows had
\* verified the very tree of the commit.
ConclusionsAreCoherent ==
    [][/\ \A d \in Deploys :
             /\ phase[d] \in {"publication", "revalidation", "deployment"}
             /\ phase'[d] \in {"revalidation", "waiting", "deploying"}
             /\ phase'[d] # phase[d]
             => coherent[d]
       /\ \A k \in Kinds :
             status[<<1, k>>] = "selecting" /\ mode'[<<1, k>>] = "reuse"
                /\ status'[<<1, k>>] = "running"
             => coherent[k] /\ \A j \in Kinds : <<1, j>> \in verified]_vars

\* Whichever of the two workflows comes last starts the Deploy run that finds both:
\* when all completions have been dealt with, a tip both have verified is published,
\* also after reruns, unless the evidence it reuses was disturbed.
SettledIsPublished ==
    /\ tip # 0
    /\ \A k \in Kinds : status[<<tip, k>>] = "success"
    /\ triggers = {}
    /\ \A d \in Deploys : phase[d] = "idle"
    /\ touched = 0
    => deployed = tip
=============================================================================
