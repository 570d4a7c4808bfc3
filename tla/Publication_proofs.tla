-------------------------- MODULE Publication_proofs --------------------------
(***************************************************************************)
(* For any number of commits, Deploy runs and upsets: the pages never go   *)
(* back to an older commit, what is published was verified in full by both *)
(* workflows, what a Deploy run concludes from several calls was so at one *)
(* moment, and a tip that both workflows have verified is published when   *)
(* nothing is left to do.                                                  *)
(***************************************************************************)
EXTENDS Publication, SequenceTheorems, TLAPS

\* Commits are numbers; completions and publications are of commits up to the tip.
CommitInv ==
    /\ tip \in Nat
    /\ deployed \in 0 .. tip
    /\ \A t \in triggers : t[1] \in 0 .. tip
    /\ \A d \in Deploys : Commit(d) \in 0 .. tip

\* The deploy job runs one at a time.
ExclusionInv ==
    \A d, e \in Deploys :
        /\ phase[d] \in {"deployment", "deploying"}
        /\ phase[e] \in {"deployment", "deploying"}
        => d = e

\* The deploy job begins by looking at the tip, which is no older than what is
\* published.  From then on its commit is not either, unless the job is given up.
NewerInv ==
    \A d \in Deploys :
        /\ phase[d] = "deployment" => \/ todo[d] = PublicationPair(Commit(d))
                                      \/ todo[d] = <<Failed>>
                                      \/ deployed <= Commit(d)
        /\ phase[d] = "deploying" => deployed <= Commit(d)

\* What there is of every run and actor.
DomainInv ==
    /\ phase = [d \in Deploys |-> phase[d]]
    /\ trigger = [d \in Deploys |-> trigger[d]]
    /\ todo = [a \in Actors |-> todo[a]]

Inv == CommitInv /\ ExclusionInv /\ NewerInv /\ DomainInv

-----------------------------------------------------------------------------
\* The first element of a concatenation.
LEMMA HeadOfConcat ==
  ASSUME NEW S, NEW s \in Seq(S), NEW t \in Seq(S), s # <<>>
  PROVE  s \o t \in Seq(S) /\ s \o t # <<>> /\ Head(s \o t) = Head(s)
<1>1. Len(s) \in Nat /\ Len(t) \in Nat /\ Len(s) # 0
  BY EmptySeq, LenProperties
<1>2. /\ s \o t \in Seq(S)
      /\ Len(s \o t) = Len(s) + Len(t)
      /\ (s \o t)[1] = s[1]
  BY <1>1, ConcatProperties
<1>3. s \o t # <<>>
  BY <1>1, <1>2, EmptySeq
<1> QED
  BY <1>2, <1>3, HeadTailProperties

\* A publication begins with the tip.
LEMMA TipFirst ==
  ASSUME NEW c \in Nat
  PROVE  PublicationPair(c) # <<>> /\ Head(PublicationPair(c)).op = "tip"
<1> DEFINE S == [op : {"tip", "verify", "latest", "confirm", "source", "failed"},
                 run : Nat \X Kinds]
           latest == <<Call("latest", <<c, "checks">>), Call("latest", <<c, "codeql">>)>>
           sources == <<Call("source", <<c, "checks">>), Call("source", <<c, "codeql">>)>>
<1>1. /\ CurrentDefault(c) \in Seq(S)
      /\ CurrentDefault(c) # <<>>
      /\ Head(CurrentDefault(c)).op = "tip"
  BY DEF CurrentDefault, Call, Kinds
<1>2. latest \in Seq(S) /\ sources \in Seq(S) /\ ConfirmPushes(c) \in Seq(S)
  BY DEF ConfirmPushes, Call, Kinds
<1>3. PublicationPair(c)
        = (((CurrentDefault(c) \o latest) \o ConfirmPushes(c)) \o sources) \o CurrentDefault(c)
  BY DEF PublicationPair
<1> HIDE DEF S, latest, sources
<1> DEFINE first == CurrentDefault(c) \o latest
           second == first \o ConfirmPushes(c)
           third == second \o sources
<1>4. first \in Seq(S) /\ first # <<>> /\ Head(first) = Head(CurrentDefault(c))
  BY <1>1, <1>2, HeadOfConcat
<1>5. second \in Seq(S) /\ second # <<>> /\ Head(second) = Head(first)
  BY <1>2, <1>4, HeadOfConcat
<1>6. third \in Seq(S) /\ third # <<>> /\ Head(third) = Head(second)
  BY <1>2, <1>5, HeadOfConcat
<1>7. PublicationPair(c) # <<>> /\ Head(PublicationPair(c)) = Head(third)
  BY <1>1, <1>3, <1>6, HeadOfConcat
<1> QED
  BY <1>1, <1>4, <1>5, <1>6, <1>7

-----------------------------------------------------------------------------
\* A step that leaves the Deploy runs, their calls and the commits as they are.
LEMMA Elsewhere ==
  ASSUME Inv, UNCHANGED <<phase, trigger, deployed>>,
         tip' \in Nat, tip <= tip',
         \A t \in triggers' : t[1] \in 0 .. tip',
         todo' = [a \in Actors |-> todo'[a]],
         \A d \in Deploys : todo'[d] = todo[d]
  PROVE  Inv'
<1>1. CommitInv'
  BY DEF Inv, CommitInv, Commit
<1>2. ExclusionInv' /\ DomainInv'
  BY DEF Inv, ExclusionInv, DomainInv
<1>3. NewerInv'
  BY DEF Inv, NewerInv, Commit
<1> QED
  BY <1>1, <1>2, <1>3 DEF Inv

\* A call of an actor.
LEMMA CallSteps ==
  ASSUME Inv, NEW a \in Actors, MakeCall(a)
  PROVE  Inv'
<1>1. UNCHANGED <<tip, triggers, phase, trigger, deployed>>
  BY DEF MakeCall, world, deploys
<1>2. /\ todo' = [b \in Actors |-> todo'[b]]
      /\ \A b \in Actors \ {a} : todo'[b] = todo[b]
  BY DEF MakeCall, CheckTip, VerifyRun, ReadLatest, Confirm, ConfirmSource, Answer, Inv,
         DomainInv
<1>3. ASSUME a \in Deploys, phase[a] = "deployment"
      PROVE  \/ todo'[a] = <<Failed>>
             \/ deployed <= Commit(a)
  <2>1. Commit(a) \in Nat /\ deployed \in Nat /\ deployed <= tip
    BY <1>3 DEF Inv, CommitInv
  <2>2. CASE todo[a] = PublicationPair(Commit(a))
    <3>1. CheckTip(a)
      BY <2>1, <2>2, TipFirst
         DEF MakeCall, CheckTip, VerifyRun, ReadLatest, Confirm, ConfirmSource, Makes
    <3>2. tip = Commit(a) \/ todo'[a] = <<Failed>>
      BY <3>1 DEF CheckTip, Answer, Inv, DomainInv
    <3> QED
      BY <2>1, <3>2
  <2>3. CASE todo[a] = <<Failed>>
    <3>1. Head(todo[a]).op = "failed"
      BY <2>3 DEF Failed, Call
    <3> QED
      BY <3>1 DEF MakeCall, CheckTip, VerifyRun, ReadLatest, Confirm, ConfirmSource, Makes
  <2>4. CASE deployed <= Commit(a)
    BY <2>4
  <2> QED
    BY <1>3, <2>2, <2>3, <2>4 DEF Inv, NewerInv
<1>4. NewerInv'
  <2> SUFFICES ASSUME NEW d \in Deploys
               PROVE  /\ phase'[d] = "deployment" => \/ todo'[d] = PublicationPair(Commit(d))'
                                                     \/ todo'[d] = <<Failed>>'
                                                     \/ deployed' <= Commit(d)'
                      /\ phase'[d] = "deploying" => deployed' <= Commit(d)'
    BY DEF NewerInv
  <2>1. CASE d = a
    BY <1>1, <1>3, <2>1 DEF Inv, NewerInv, Commit
  <2>2. CASE d # a
    BY <1>1, <1>2, <2>2 DEF Inv, NewerInv, Commit, Actors
  <2> QED
    BY <2>1, <2>2
<1>5. CommitInv' /\ ExclusionInv' /\ DomainInv'
  BY <1>1, <1>2 DEF Inv, CommitInv, ExclusionInv, DomainInv, Commit
<1> QED
  BY <1>4, <1>5 DEF Inv

\* A step of the runs of Checks and CodeQL, or a push.
LEMMA RunSteps ==
  ASSUME Inv,
         \/ \E k \in Kinds : Select(k)
         \/ \E r \in Runs : Succeed(r) \/ Fail(r) \/ Rerun(r)
         \/ Push \/ Expire
  PROVE  Inv'
<1>1. UNCHANGED <<phase, trigger, deployed>>
  BY DEF Select, Succeed, Fail, Rerun, Push, Expire, deploys
<1>2. tip' \in Nat /\ tip <= tip'
  <2>1. tip' = tip \/ tip' = tip + 1
    BY DEF Select, Succeed, Fail, Rerun, Push, Expire
  <2> QED
    BY <2>1 DEF Inv, CommitInv
<1>3. \A t \in triggers' : t[1] \in 0 .. tip'
  <2>1. CASE \E r \in Runs : Succeed(r)
    <3>1. PICK r \in Runs : Succeed(r)
      BY <2>1
    <3>2. TriggersDeploy(r) => r[1] = tip
      BY DEF TriggersDeploy
    <3>3. tip \in 0 .. tip
      BY DEF Inv, CommitInv
    <3> QED
      BY <3>1, <3>2, <3>3 DEF Succeed, Inv, CommitInv
  <2>2. CASE ~\E r \in Runs : Succeed(r)
    <3>1. triggers' = triggers
      BY <2>2 DEF Select, Fail, Rerun, Push, Expire
    <3> QED
      BY <1>2, <3>1 DEF Inv, CommitInv
  <2> QED
    BY <2>1, <2>2
<1>4. Deploys \cap Kinds = {}
  BY PublicationAssumption DEF Kinds
<1>5. /\ todo' = [a \in Actors |-> todo'[a]]
      /\ \A d \in Deploys : todo'[d] = todo[d]
  <2>1. CASE \E k \in Kinds : Select(k)
    BY <1>4, <2>1 DEF Select, Begin, Inv, DomainInv, Actors
  <2>2. CASE \E r \in Runs : Rerun(r)
    <3>1. PICK r \in Runs : Rerun(r)
      BY <2>2
    <3>2. r[2] \in Kinds
      BY <3>1 DEF Runs
    <3> QED
      BY <1>4, <3>1, <3>2 DEF Rerun, Begin, actors, Inv, DomainInv, Actors
  <2>3. CASE (\E r \in Runs : Succeed(r) \/ Fail(r)) \/ Push \/ Expire
    BY <2>3 DEF Succeed, Fail, Push, Expire, actors, Inv, DomainInv
  <2> QED
    BY <2>1, <2>2, <2>3
<1> QED
  BY <1>1, <1>2, <1>3, <1>5, Elsewhere

\* A Deploy run goes on, is given up, or begins: nothing is published.
LEMMA DeploySteps ==
  ASSUME Inv, NEW d \in Deploys,
         \/ StartDeploy(d) \/ Revalidate(d) \/ FinishBuild(d)
         \/ StartDeployment(d) \/ FinishRevalidation(d) \/ Deploy(d) \/ Defer(d)
  PROVE  Inv' /\ deployed' >= deployed
<1> USE DEF Inv, DomainInv, Begin, Actors
<1>0. /\ tip \in Nat /\ deployed \in Nat /\ Commit(d) \in Nat
      /\ deployed <= tip /\ Commit(d) <= tip /\ 0 \in 0 .. tip
  BY DEF CommitInv
<1>1. /\ tip' = tip /\ triggers' \subseteq triggers
      /\ DomainInv'
      /\ \A e \in Deploys \ {d} :
            phase'[e] = phase[e] /\ trigger'[e] = trigger[e] /\ todo'[e] = todo[e]
  BY DEF StartDeploy, Revalidate, FinishBuild, StartDeployment, FinishRevalidation,
         Deploy, Defer, Advance, Over, world
<1>2. CASE StartDeploy(d)
  <2>1. /\ deployed' = deployed
        /\ phase'[d] = "publication"
        /\ \E t \in triggers : trigger'[d] = t
    BY <1>2 DEF StartDeploy
  <2>2. CommitInv'
    BY <1>0, <1>1, <2>1 DEF CommitInv, Commit
  <2>3. ExclusionInv' /\ NewerInv'
    BY <1>1, <2>1 DEF ExclusionInv, NewerInv, Commit
  <2> QED
    BY <1>0, <1>1, <2>1, <2>2, <2>3
<1>3. CASE Revalidate(d) \/ FinishBuild(d)
  <2>1. /\ deployed' = deployed
        /\ phase'[d] \in {"revalidation", "waiting"}
        /\ trigger' = trigger
    BY <1>3 DEF Revalidate, FinishBuild, Advance
  <2>2. CommitInv'
    BY <1>1, <2>1 DEF CommitInv, Commit
  <2>3. ExclusionInv' /\ NewerInv'
    BY <1>1, <2>1 DEF ExclusionInv, NewerInv, Commit
  <2> QED
    BY <1>0, <1>1, <2>1, <2>2, <2>3
<1>4. CASE StartDeployment(d)
  <2>1. /\ deployed' = deployed
        /\ phase'[d] = "deployment"
        /\ trigger' = trigger
        /\ todo'[d] = PublicationPair(Commit(d))
        /\ \A e \in Deploys : phase[e] \notin {"deployment", "deploying"}
    BY <1>4 DEF StartDeployment, Advance
  <2>2. CommitInv'
    BY <1>1, <2>1 DEF CommitInv, Commit
  <2>3. ExclusionInv' /\ NewerInv'
    BY <1>1, <2>1 DEF ExclusionInv, NewerInv, Commit
  <2> QED
    BY <1>0, <1>1, <2>1, <2>2, <2>3
<1>5. CASE FinishRevalidation(d)
  <2>1. /\ deployed' = deployed
        /\ phase[d] = "deployment" /\ phase'[d] = "deploying"
        /\ trigger' = trigger
        /\ todo[d] = <<>>
    BY <1>5 DEF FinishRevalidation, Advance
  <2>2. deployed <= Commit(d)
    <3>1. PublicationPair(Commit(d)) # <<>>
      BY <1>0, TipFirst
    <3>2. <<Failed>> # <<>>
      OBVIOUS
    <3> QED
      BY <2>1, <3>1, <3>2 DEF NewerInv
  <2>3. CommitInv'
    BY <1>1, <2>1 DEF CommitInv, Commit
  <2>4. ExclusionInv' /\ NewerInv'
    BY <1>1, <2>1, <2>2 DEF ExclusionInv, NewerInv, Commit
  <2> QED
    BY <1>0, <1>1, <2>1, <2>3, <2>4
<1>6. CASE Deploy(d)
  <2>1. /\ phase[d] = "deploying" /\ phase'[d] = "idle"
        /\ deployed' = Commit(d)
        /\ trigger'[d] = NoRun
    BY <1>6 DEF Deploy, Over
  <2>2. deployed <= Commit(d)
    BY <2>1 DEF NewerInv
  <2>3. CommitInv'
    BY <1>0, <1>1, <2>1 DEF CommitInv, Commit, NoRun
  <2>4. \A e \in Deploys : phase'[e] \notin {"deployment", "deploying"}
    BY <1>1, <2>1 DEF ExclusionInv
  <2>5. ExclusionInv' /\ NewerInv'
    BY <2>4 DEF ExclusionInv, NewerInv
  <2> QED
    BY <1>0, <1>1, <2>1, <2>2, <2>3, <2>5
<1>7. CASE Defer(d)
  <2>1. /\ phase'[d] = "idle"
        /\ deployed' = deployed
        /\ trigger'[d] = NoRun
    BY <1>7 DEF Defer, Over
  <2>2. CommitInv'
    BY <1>0, <1>1, <2>1 DEF CommitInv, Commit, NoRun
  <2>3. ExclusionInv' /\ NewerInv'
    BY <1>1, <2>1 DEF ExclusionInv, NewerInv, Commit
  <2> QED
    BY <1>0, <1>1, <2>1, <2>2, <2>3
<1> QED
  BY <1>2, <1>3, <1>4, <1>5, <1>6, <1>7

\* The invariant holds at the start.
LEMMA InvInitial == Init => Inv
<1> SUFFICES ASSUME Init PROVE Inv
  OBVIOUS
<1>1. CommitInv
  BY DEF Init, CommitInv, Commit, NoRun
<1>2. ExclusionInv /\ NewerInv /\ DomainInv
  BY DEF Init, ExclusionInv, NewerInv, DomainInv
<1> QED
  BY <1>1, <1>2 DEF Inv

\* Every step keeps the invariant, and none takes the pages back.
LEMMA InvStep ==
  ASSUME Inv, [Next]_vars
  PROVE  Inv' /\ deployed' >= deployed
<1>0. deployed \in Nat
  BY DEF Inv, CommitInv
<1>1. CASE \E a \in Actors : MakeCall(a)
  <2>1. deployed' = deployed
    BY <1>1 DEF MakeCall, deploys
  <2> QED
    BY <1>0, <1>1, <2>1, CallSteps
<1>2. CASE \/ \E k \in Kinds : Select(k)
           \/ \E r \in Runs : Succeed(r) \/ Fail(r) \/ Rerun(r)
           \/ Push \/ Expire
  <2>1. deployed' = deployed
    BY <1>2 DEF Select, Succeed, Fail, Rerun, Push, Expire, deploys
  <2> QED
    BY <1>0, <1>2, <2>1, RunSteps
<1>3. CASE \E d \in Deploys : \/ StartDeploy(d) \/ Revalidate(d) \/ FinishBuild(d)
                              \/ StartDeployment(d) \/ FinishRevalidation(d)
                              \/ Deploy(d) \/ Defer(d)
  BY <1>3, DeploySteps
<1>4. CASE UNCHANGED vars
  <2>1. Inv'
    BY <1>4 DEF vars, Inv, CommitInv, ExclusionInv, NewerInv, DomainInv, Commit
  <2> QED
    BY <1>0, <1>4, <2>1 DEF vars
<1> QED
  BY <1>1, <1>2, <1>3, <1>4 DEF Next

\* What is published is never older than what was published before.
THEOREM NoRollbackTheorem == Spec => NoRollback
<1>1. Inv /\ [Next]_vars => Inv' /\ [deployed' >= deployed]_vars
  BY InvStep
<1> QED
  BY <1>1, InvInitial, PTL DEF Spec, NoRollback

-----------------------------------------------------------------------------
(***************************************************************************)
(* Type correctness.                                                       *)
(***************************************************************************)

Ops   == {"tip", "verify", "latest", "confirm", "source", "failed"}
Calls == [op : Ops, run : Runs]

\* A run that was started has an attempt, and one more with every upset at most.
AttemptInv ==
    \A r \in Runs : /\ attempt[r] <= upsets + 1
                    /\ status[r] # "none" => attempt[r] # 0
                    /\ r[1] > tip => attempt[r] = 0

\* A Deploy run is about a commit, and was started by a completion of it.
StartedInv ==
    \A d \in Deploys : phase[d] # "idle" =>
        Commit(d) # 0 /\ <<trigger[d][1], trigger[d][2]>> \in Runs

\* What the types rest on.
TypeInv == TypeOK /\ AttemptInv /\ StartedInv /\ Inv

\* The runs of a commit and of the pull request.
LEMMA RunTypes ==
  /\ \A c \in 0 .. MaxCommits, k \in Kinds : <<c, k>> \in Runs
  /\ \A r \in Runs : r[1] \in 0 .. MaxCommits /\ r[2] \in Kinds /\ r = <<r[1], r[2]>>
  /\ 0 \in 0 .. MaxCommits /\ 1 \in 0 .. MaxCommits
  /\ "checks" \in Kinds /\ "codeql" \in Kinds
BY PublicationAssumption DEF Runs, Kinds

\* The calls for the evidence of the pull request, one by one.
LEMMA ReusableCalls ==
  /\ ReusablePair \in Seq(Calls) /\ Len(ReusablePair) = 4
  /\ ReusablePair[1] = Call("verify", <<0, "checks">>)
  /\ ReusablePair[2] = Call("verify", <<0, "codeql">>)
  /\ ReusablePair[3] = Call("confirm", <<0, "checks">>)
  /\ ReusablePair[4] = Call("confirm", <<0, "codeql">>)
BY RunTypes DEF ReusablePair, Calls, Call, Ops

\* The calls for the evidence of a commit, one by one.
LEMMA PublicationCalls ==
  ASSUME NEW c \in 0 .. MaxCommits
  PROVE  /\ PublicationPair(c) \in Seq(Calls) /\ Len(PublicationPair(c)) = 8
         /\ PublicationPair(c)[1] = Call("tip", <<c, "checks">>)
         /\ PublicationPair(c)[2] = Call("latest", <<c, "checks">>)
         /\ PublicationPair(c)[3] = Call("latest", <<c, "codeql">>)
         /\ PublicationPair(c)[4] = Call("confirm", <<c, "checks">>)
         /\ PublicationPair(c)[5] = Call("confirm", <<c, "codeql">>)
         /\ PublicationPair(c)[6] = Call("source", <<c, "checks">>)
         /\ PublicationPair(c)[7] = Call("source", <<c, "codeql">>)
         /\ PublicationPair(c)[8] = Call("tip", <<c, "checks">>)
<1>1. \A op \in Ops, k \in Kinds : Call(op, <<c, k>>) \in Calls
  BY RunTypes DEF Calls, Call
<1>2. \A x, a, b, d, e, f, g, y \in Calls :
        LET t == <<x>> \o <<a, b>> \o <<d, e>> \o <<f, g>> \o <<y>>
        IN  /\ t \in Seq(Calls) /\ Len(t) = 8
            /\ t[1] = x /\ t[2] = a /\ t[3] = b /\ t[4] = d /\ t[5] = e /\ t[6] = f
            /\ t[7] = g /\ t[8] = y
  OBVIOUS
<1> HIDE DEF Calls
<1> QED
  BY <1>1, <1>2, RunTypes DEF PublicationPair, CurrentDefault, ConfirmPushes, Ops

\* A call that failed.
LEMMA FailedCall ==
  /\ <<Failed>> \in Seq(Calls) /\ <<Failed>> # <<>> /\ Len(<<Failed>>) = 1
  /\ Failed.op = "failed" /\ Head(<<Failed>>) = Failed /\ <<Failed>>[1] = Failed
BY RunTypes DEF Failed, Calls, Call, Ops

\* A call has an operation and a run.
LEMMA CallFields ==
  /\ \A op, r : Call(op, r).op = op /\ Call(op, r).run = r
  /\ \A x \in Calls : x.op \in Ops /\ x.run \in Runs /\ x = Call(x.op, x.run)
BY DEF Call, Calls

-----------------------------------------------------------------------------
\* A call that is answered well gives way to those it leads to.
Well(a, calls) == todo[a] # <<>> /\ todo'[a] = calls \o Tail(todo[a])

\* Every call either fails or is answered well.
LEMMA CallMade ==
  ASSUME TypeInv, NEW a \in Actors, MakeCall(a)
  PROVE  /\ todo[a] # <<>> /\ todo[a] \in Seq(Calls)
         /\ Head(todo[a]) = todo[a][1] /\ 1 \in 1 .. Len(todo[a]) /\ todo[a][1] \in Calls
         /\ \/ todo'[a] = <<Failed>>
            \/ Well(a, <<>>)
            \/ Well(a, ReusablePair) /\ ReadLatest(a)
         /\ \A b \in Actors \ {a} : /\ todo'[b] = todo[b] /\ seen'[b] = seen[b]
                                    /\ source'[b] = source[b] /\ coherent'[b] = coherent[b]
         /\ todo' = [todo EXCEPT ![a] = todo'[a]]
<1>1. todo[a] # <<>>
  BY DEF MakeCall, CheckTip, VerifyRun, ReadLatest, Confirm, ConfirmSource, Makes
<1>2. todo \in [Actors -> Seq(Calls)]
  BY DEF TypeInv, TypeOK, Calls, Ops
<1>3. /\ Head(todo[a]) = todo[a][1] /\ 1 \in 1 .. Len(todo[a]) /\ todo[a][1] \in Calls
  BY <1>1, <1>2
<1>4. ASSUME NEW ok \in BOOLEAN, NEW calls, Answer(a, ok, calls)
      PROVE  /\ todo'[a] = <<Failed>> \/ Well(a, calls)
             /\ \A b \in Actors \ {a} : todo'[b] = todo[b]
             /\ todo' = [todo EXCEPT ![a] = todo'[a]]
  BY <1>1, <1>2, <1>4 DEF Answer, Well
<1>5. /\ \/ todo'[a] = <<Failed>>
         \/ Well(a, <<>>)
         \/ Well(a, ReusablePair) /\ ReadLatest(a)
      /\ \A b \in Actors \ {a} : todo'[b] = todo[b]
      /\ todo' = [todo EXCEPT ![a] = todo'[a]]
  <2>1. CASE CheckTip(a)
    BY <1>4, <2>1 DEF CheckTip
  <2>2. CASE VerifyRun(a)
    BY <1>4, <2>2 DEF VerifyRun, HasEvidence
  <2>3. CASE ReadLatest(a)
    BY <1>1, <1>2, <2>3 DEF ReadLatest, Answer, Well
  <2>4. CASE Confirm(a)
    BY <1>4, <2>4 DEF Confirm, Unchanged
  <2>5. CASE ConfirmSource(a)
    BY <1>1, <1>2, <2>5 DEF ConfirmSource, Answer, Well
  <2> QED
    BY <2>1, <2>2, <2>3, <2>4, <2>5 DEF MakeCall
<1>6. \A b \in Actors \ {a} : /\ seen'[b] = seen[b] /\ source'[b] = source[b]
                              /\ coherent'[b] = coherent[b]
  BY DEF MakeCall, CheckTip, VerifyRun, ReadLatest, Confirm, ConfirmSource, Read, TypeInv,
         TypeOK
<1> QED
  BY <1>1, <1>2, <1>3, <1>5, <1>6

\* What is left of a series of calls once the first gives way to those it leads to.
LEMMA Shifted ==
  ASSUME NEW s \in Seq(Calls), s # <<>>, NEW calls \in {<<>>, ReusablePair}
  PROVE  /\ Len(s) \in Nat /\ Len(s) >= 1 /\ Len(calls) \in {0, 4}
         /\ calls \o Tail(s) \in Seq(Calls)
         /\ Len(calls \o Tail(s)) = Len(calls) + Len(s) - 1
         /\ \A i \in 1 .. Len(calls) : (calls \o Tail(s))[i] = calls[i]
         /\ \A j \in 2 .. Len(s) : (calls \o Tail(s))[Len(calls) + j - 1] = s[j]
<1>1. calls \in Seq(Calls) /\ Len(calls) \in {0, 4}
  BY ReusableCalls, EmptySeq
<1>2. \A S : \A t \in Seq(S), q \in Seq(S) : t # <<>> =>
        /\ Len(t) \in Nat /\ Len(t) >= 1
        /\ q \o Tail(t) \in Seq(S)
        /\ Len(q \o Tail(t)) = Len(q) + Len(t) - 1
        /\ \A i \in 1 .. Len(q) : (q \o Tail(t))[i] = q[i]
        /\ \A j \in 2 .. Len(t) : (q \o Tail(t))[Len(q) + j - 1] = t[j]
  <2> SUFFICES ASSUME NEW S, NEW t \in Seq(S), NEW q \in Seq(S), t # <<>>
               PROVE  /\ Len(t) \in Nat /\ Len(t) >= 1
                      /\ q \o Tail(t) \in Seq(S)
                      /\ Len(q \o Tail(t)) = Len(q) + Len(t) - 1
                      /\ \A i \in 1 .. Len(q) : (q \o Tail(t))[i] = q[i]
                      /\ \A j \in 2 .. Len(t) : (q \o Tail(t))[Len(q) + j - 1] = t[j]
    OBVIOUS
  <2> QED
    OBVIOUS
<1> HIDE DEF Calls
<1> QED
  BY <1>1, <1>2

\* A call that is still to be made, wherever in the series.
Pending(a, x) == \E i \in 1 .. Len(todo[a]) : todo[a][i] = x

\* Nothing is forgotten: what was to be made still is, or was the call answered.
LEMMA StillPending ==
  ASSUME NEW a \in Actors, todo[a] \in Seq(Calls), NEW calls \in {<<>>, ReusablePair},
         Well(a, calls), NEW x, Pending(a, x), x # todo[a][1]
  PROVE  Pending(a, x)'
<1>1. PICK j \in 1 .. Len(todo[a]) : todo[a][j] = x
  BY DEF Pending
<1>2. /\ Len(todo[a]) \in Nat /\ Len(calls) \in {0, 4}
      /\ Len(todo'[a]) = Len(calls) + Len(todo[a]) - 1
      /\ \A i \in 2 .. Len(todo[a]) : todo'[a][Len(calls) + i - 1] = todo[a][i]
  BY Shifted DEF Well
<1>3. j \in 2 .. Len(todo[a])
  BY <1>1, <1>2
<1>4. Len(calls) + j - 1 \in 1 .. Len(todo'[a])
  BY <1>2, <1>3
<1> QED
  BY <1>1, <1>2, <1>3, <1>4 DEF Pending

\* Starting runs adds an attempt to each and changes the status of others of their group.
LEMMA StartTypes ==
  ASSUME TypeOK, NEW rs \in SUBSET Runs, StartRuns(rs)
  PROVE  /\ \A r \in Runs : attempt'[r] = IF r \in rs THEN attempt[r] + 1 ELSE attempt[r]
         /\ attempt' = [r \in Runs |-> attempt'[r]]
         /\ status' \in [Runs -> {"none", "selecting", "running", "success", "failure"}]
         /\ \A r \in Runs : r \in rs => status'[r] \in {"selecting", "running"}
         /\ \A r \in Runs : r \notin rs /\ status'[r] # status[r] =>
                               InProgress(r) /\ status'[r] = "failure"
BY DEF TypeOK, StartRuns, Starts

\* The attempts that there have been.
LEMMA AttemptStep ==
  ASSUME TypeInv, [Next]_vars
  PROVE  /\ AttemptInv'
         /\ attempt' \in [Runs -> 0 .. MaxUpsets + 1]
         /\ status' \in [Runs -> {"none", "selecting", "running", "success", "failure"}]
         /\ tip' \in 0 .. MaxCommits /\ upsets' \in 0 .. MaxUpsets
         /\ \A r \in Runs : attempt[r] <= attempt'[r]
<1>0. /\ tip \in 0 .. MaxCommits /\ upsets \in 0 .. MaxUpsets
      /\ MaxUpsets \in Nat /\ MaxCommits \in Nat
      /\ attempt \in [Runs -> 0 .. MaxUpsets + 1]
      /\ status \in [Runs -> {"none", "selecting", "running", "success", "failure"}]
      /\ \A r \in Runs : attempt[r] \in Nat /\ r[1] \in 0 .. MaxCommits
  BY PublicationAssumption, RunTypes DEF TypeInv, TypeOK
<1>1. CASE UNCHANGED <<attempt, status, tip, upsets>>
  BY <1>0, <1>1 DEF TypeInv, AttemptInv
<1>2. CASE Push
  <2> DEFINE rs == {<<tip + 1, k>> : k \in Kinds}
  <2>1. /\ tip' = tip + 1 /\ tip' \in 0 .. MaxCommits /\ upsets' = upsets
        /\ rs \in SUBSET Runs /\ StartRuns(rs)
    <3>1. tip' = tip + 1 /\ tip < MaxCommits /\ upsets' = upsets
      BY <1>2 DEF Push, history
    <3>2. tip' \in 0 .. MaxCommits
      BY <1>0, <3>1
    <3>3. rs \in SUBSET Runs
      BY <3>1, <3>2, RunTypes
    <3>4. StartRuns({<<tip', k>> : k \in Kinds})
      BY <1>2 DEF Push
    <3> QED
      BY <3>1, <3>2, <3>3, <3>4
  <2>2. \A r \in rs : r[1] = tip + 1 /\ r \in Runs
    BY <2>1
  <2>3. \A r \in rs : attempt[r] = 0
    BY <1>0, <2>2 DEF TypeInv, AttemptInv
  <2> HIDE DEF rs
  <2>4. /\ \A r \in Runs : attempt'[r] = IF r \in rs THEN attempt[r] + 1 ELSE attempt[r]
        /\ attempt' = [r \in Runs |-> attempt'[r]]
        /\ status' \in [Runs -> {"none", "selecting", "running", "success", "failure"}]
        /\ \A r \in Runs : r \notin rs /\ status'[r] # "none" => status[r] # "none"
    BY <2>1, StartTypes DEF TypeInv, InProgress
  <2>5. ASSUME NEW r \in Runs
        PROVE  /\ attempt'[r] <= upsets + 1 /\ attempt[r] <= attempt'[r] /\ attempt'[r] \in Nat
               /\ status'[r] # "none" => attempt'[r] # 0
               /\ r[1] > tip + 1 => attempt'[r] = 0
    <3>1. CASE r \in rs
      <4>1. attempt'[r] = 1 /\ r[1] = tip + 1 /\ attempt[r] = 0
        BY <2>2, <2>3, <2>4, <3>1
      <4> QED
        BY <1>0, <4>1
    <3>2. CASE r \notin rs
      <4>1. attempt'[r] = attempt[r] /\ (status'[r] # "none" => status[r] # "none")
        BY <2>4, <3>2
      <4>2. /\ attempt[r] <= upsets + 1 /\ (status[r] # "none" => attempt[r] # 0)
            /\ r[1] > tip => attempt[r] = 0
        BY DEF TypeInv, AttemptInv
      <4>3. r[1] > tip + 1 => r[1] > tip
        BY <1>0
      <4> QED
        BY <1>0, <4>1, <4>2, <4>3
    <3> QED
      BY <3>1, <3>2
  <2>6. attempt' \in [Runs -> 0 .. MaxUpsets + 1]
    <3>1. \A r \in Runs : attempt'[r] \in 0 .. MaxUpsets + 1
      BY <1>0, <2>5
    <3> QED
      BY <2>4, <3>1
  <2> QED
    BY <1>0, <2>1, <2>4, <2>5, <2>6 DEF AttemptInv
<1>3. ASSUME NEW s \in Runs, Rerun(s)
      PROVE  /\ AttemptInv'
             /\ attempt' \in [Runs -> 0 .. MaxUpsets + 1]
             /\ status' \in [Runs -> {"none", "selecting", "running", "success", "failure"}]
             /\ tip' \in 0 .. MaxCommits /\ upsets' \in 0 .. MaxUpsets
             /\ \A r \in Runs : attempt[r] <= attempt'[r]
  <2>1. /\ tip' = tip /\ upsets' = upsets + 1 /\ upsets < MaxUpsets
        /\ StartRuns({s}) /\ status[s] # "none"
    BY <1>3 DEF Rerun, Upset
  <2>2. /\ \A r \in Runs : attempt'[r] = IF r = s THEN attempt[r] + 1 ELSE attempt[r]
        /\ attempt' = [r \in Runs |-> attempt'[r]]
        /\ status' \in [Runs -> {"none", "selecting", "running", "success", "failure"}]
        /\ \A r \in Runs : r # s /\ status'[r] # "none" => status[r] # "none"
    BY <2>1, StartTypes DEF TypeInv, InProgress
  <2>3. ASSUME NEW r \in Runs
        PROVE  /\ attempt'[r] <= upsets + 2 /\ attempt[r] <= attempt'[r] /\ attempt'[r] \in Nat
               /\ status'[r] # "none" => attempt'[r] # 0
               /\ r[1] > tip => attempt'[r] = 0
    <3>1. /\ attempt[r] <= upsets + 1 /\ (status[r] # "none" => attempt[r] # 0)
          /\ r[1] > tip => attempt[r] = 0
      BY DEF TypeInv, AttemptInv
    <3>2. CASE r = s
      BY <1>0, <2>1, <2>2, <3>1, <3>2
    <3>3. CASE r # s
      <4>1. attempt'[r] = attempt[r] /\ (status'[r] # "none" => status[r] # "none")
        BY <2>2, <3>3
      <4> QED
        BY <1>0, <3>1, <4>1
    <3> QED
      BY <3>2, <3>3
  <2>4. attempt' \in [Runs -> 0 .. MaxUpsets + 1]
    <3>1. \A r \in Runs : attempt'[r] \in 0 .. MaxUpsets + 1
      BY <1>0, <2>1, <2>3
    <3> QED
      BY <2>2, <3>1
  <2> QED
    BY <1>0, <2>1, <2>2, <2>3, <2>4 DEF AttemptInv
<1>4. ASSUME /\ attempt' = attempt /\ tip' = tip
             /\ upsets' = upsets \/ Upset
             /\ \E r \in Runs, to \in {"running", "success", "failure"} :
                 \/ status[r] # "none" /\ status' = [status EXCEPT ![r] = to]
                 \/ UNCHANGED status
      PROVE  /\ AttemptInv'
             /\ status' \in [Runs -> {"none", "selecting", "running", "success", "failure"}]
             /\ upsets' \in 0 .. MaxUpsets
             /\ \A r \in Runs : attempt[r] <= attempt'[r]
  <2>1. upsets' \in 0 .. MaxUpsets /\ upsets <= upsets'
    BY <1>0, <1>4 DEF Upset
  <2>2. /\ status' \in [Runs -> {"none", "selecting", "running", "success", "failure"}]
        /\ \A r \in Runs : status'[r] # "none" => status[r] # "none"
    BY <1>0, <1>4
  <2> QED
    BY <1>0, <1>4, <2>1, <2>2 DEF TypeInv, AttemptInv
<1>5. CASE \/ \E r \in Runs : Succeed(r) \/ Fail(r)
           \/ \E k \in Kinds : Select(k)
           \/ Expire
  <2>1. /\ attempt' = attempt /\ tip' = tip
        /\ upsets' = upsets \/ Upset
        /\ \E r \in Runs, to \in {"running", "success", "failure"} :
              \/ status[r] # "none" /\ status' = [status EXCEPT ![r] = to]
              \/ UNCHANGED status
    <3>1. CASE \E r \in Runs : Succeed(r) \/ Fail(r)
      BY <3>1 DEF Succeed, Fail, InProgress
    <3>2. CASE \E k \in Kinds : Select(k)
      BY <3>2, RunTypes DEF Select, history
    <3>3. CASE Expire
      BY <3>3, RunTypes DEF Expire
    <3> QED
      BY <1>5, <3>1, <3>2, <3>3
  <2> QED
    BY <1>0, <1>4, <2>1
<1>6. CASE \E d \in Deploys : StartDeploy(d)
  <2>1. UNCHANGED <<attempt, status, tip>> /\ (upsets' = upsets \/ Upset)
    BY <1>6 DEF StartDeploy
  <2> QED
    BY <1>0, <1>4, <2>1, RunTypes
<1>7. CASE \/ \E a \in Actors : MakeCall(a)
           \/ \E d \in Deploys : \/ Revalidate(d) \/ FinishBuild(d)
                                 \/ StartDeployment(d) \/ FinishRevalidation(d)
                                 \/ Deploy(d) \/ Defer(d)
           \/ UNCHANGED vars
  <2>1. UNCHANGED <<attempt, status, tip, upsets>>
    BY <1>7 DEF MakeCall, Revalidate, FinishBuild, StartDeployment, FinishRevalidation,
                Deploy, Defer, Advance, Over, world, history, vars
  <2> QED
    BY <1>1, <2>1
<1> QED
  BY <1>2, <1>3, <1>5, <1>6, <1>7 DEF Next

-----------------------------------------------------------------------------
\* The calls an actor begins with.
Opening(a) ==
    IF a \in Kinds THEN {ReusablePair} ELSE {<<>>, PublicationPair(Commit(a))}

\* A step that does not concern actor a ...
SameActor(a) ==
    /\ todo'[a] = todo[a] /\ seen'[a] = seen[a]
    /\ source'[a] = source[a] /\ coherent'[a] = coherent[a]
    /\ a \in Deploys => phase'[a] = phase[a] /\ trigger'[a] = trigger[a]

\* ... and one with which it begins.
FreshActor(a) ==
    /\ todo'[a] \in Opening(a)'
    /\ seen'[a] = Unseen /\ source'[a] = NoSource /\ coherent'[a] = TRUE

\* A step of a Deploy run other than a call.
DeployStep(d) == \/ StartDeploy(d) \/ Revalidate(d) \/ FinishBuild(d)
                 \/ StartDeployment(d) \/ FinishRevalidation(d) \/ Deploy(d) \/ Defer(d)

\* Actors are jobs of the one or the other kind.
LEMMA ActorKinds ==
  /\ Deploys \cap Kinds = {}
  /\ \A a \in Actors : a \in Kinds <=> a \notin Deploys
BY PublicationAssumption DEF Actors, Kinds

\* Begin concerns one actor.
LEMMA BeginOne ==
  ASSUME TypeInv, NEW a \in Actors, NEW calls, Begin(a, calls)
  PROVE  /\ todo'[a] = calls /\ seen'[a] = Unseen
         /\ source'[a] = NoSource /\ coherent'[a] = TRUE
         /\ \A b \in Actors \ {a} : /\ todo'[b] = todo[b] /\ seen'[b] = seen[b]
                                    /\ source'[b] = source[b] /\ coherent'[b] = coherent[b]
BY DEF Begin, TypeInv, TypeOK

\* Every step is one call of an actor, begins with it, or does not concern it.
LEMMA ActorSteps ==
  ASSUME TypeInv, [Next]_vars, NEW a \in Actors
  PROVE  \/ MakeCall(a) /\ (a \in Deploys => phase'[a] = phase[a] /\ trigger'[a] = trigger[a])
         \/ SameActor(a)
         \/ FreshActor(a) /\ (a \in Deploys => DeployStep(a))
<1>1. ASSUME NEW b \in Actors, MakeCall(b) PROVE MakeCall(a) \/ SameActor(a)
  BY <1>1, CallMade DEF SameActor, MakeCall, deploys
<1> DEFINE Fresh == FreshActor(a) /\ (a \in Deploys => DeployStep(a))
<1>2. ASSUME NEW k \in Kinds, Select(k) PROVE SameActor(a) \/ Fresh
  <2>1. Begin(k, ReusablePair) /\ UNCHANGED deploys /\ k \in Actors
    BY <1>2 DEF Select, Actors
  <2> QED
    BY <2>1, BeginOne, ActorKinds DEF SameActor, FreshActor, Opening, deploys
<1>3. ASSUME NEW r \in Runs, Rerun(r) PROVE SameActor(a) \/ Fresh
  <2>1. UNCHANGED deploys /\ r[2] \in Kinds
    BY <1>3, RunTypes DEF Rerun
  <2>2. CASE r[1] = 1
    <3>1. Begin(r[2], ReusablePair) /\ r[2] \in Actors
      BY <1>3, <2>1, <2>2 DEF Rerun, Actors
    <3>2. CASE a = r[2]
      <4>1. FreshActor(a)
        BY <2>1, <3>1, <3>2, BeginOne DEF FreshActor, Opening
      <4>2. a \notin Deploys
        BY <2>1, <3>2, ActorKinds
      <4> QED
        BY <4>1, <4>2
    <3>3. CASE a # r[2]
      <4>1. /\ todo'[a] = todo[a] /\ seen'[a] = seen[a]
            /\ source'[a] = source[a] /\ coherent'[a] = coherent[a]
        BY <3>1, <3>3, BeginOne
      <4> QED
        BY <2>1, <4>1 DEF SameActor, deploys
    <3> QED
      BY <3>2, <3>3
  <2>3. CASE r[1] # 1
    BY <1>3, <2>1, <2>3 DEF Rerun, actors, deploys, SameActor
  <2> QED
    BY <2>2, <2>3
<1>4. CASE (\E r \in Runs : Succeed(r) \/ Fail(r)) \/ Push \/ Expire \/ UNCHANGED vars
  BY <1>4 DEF Succeed, Fail, Push, Expire, vars, actors, deploys, SameActor
<1>5. ASSUME NEW d \in Deploys, DeployStep(d)
      PROVE  SameActor(a) \/ Fresh
  <2>0. d \in Actors /\ d \notin Kinds
    BY ActorKinds DEF Actors
  <2>1. \E calls \in {<<>>, PublicationPair(Commit(d)')} : Begin(d, calls)
    <3>1. CASE StartDeploy(d)
      BY <3>1 DEF StartDeploy, Commit, Inv, DomainInv, TypeInv
    <3>2. CASE \/ Revalidate(d) \/ FinishBuild(d)
               \/ StartDeployment(d) \/ FinishRevalidation(d)
      BY <3>2 DEF Revalidate, FinishBuild, StartDeployment, FinishRevalidation, Advance,
                  Commit
    <3>3. CASE Deploy(d) \/ Defer(d)
      BY <3>3 DEF Deploy, Defer, Over
    <3> QED
      BY <1>5, <3>1, <3>2, <3>3 DEF DeployStep
  <2>2. \A e \in Deploys \ {d} : phase'[e] = phase[e] /\ trigger'[e] = trigger[e]
    BY <1>5 DEF DeployStep, StartDeploy, Revalidate, FinishBuild, StartDeployment, FinishRevalidation,
                Deploy, Defer, Advance, Over, Inv, DomainInv, TypeInv
  <2>3. PICK calls \in {<<>>, PublicationPair(Commit(d)')} : Begin(d, calls)
    BY <2>1
  <2>4. CASE a = d
    <3>1. FreshActor(a)
      BY <2>0, <2>3, <2>4, BeginOne DEF FreshActor, Opening
    <3> QED
      BY <1>5, <2>4, <3>1
  <2>5. CASE a # d
    <3>1. /\ todo'[a] = todo[a] /\ seen'[a] = seen[a]
          /\ source'[a] = source[a] /\ coherent'[a] = coherent[a]
      BY <2>0, <2>3, <2>5, BeginOne
    <3> QED
      BY <2>2, <2>5, <3>1 DEF SameActor
  <2> QED
    BY <2>4, <2>5
<1>6. ASSUME MakeCall(a), a \in Deploys
      PROVE  phase'[a] = phase[a] /\ trigger'[a] = trigger[a]
  BY <1>6 DEF MakeCall, deploys
<1> QED
  BY <1>1, <1>2, <1>3, <1>4, <1>5, <1>6 DEF Next, DeployStep

\* The actors' own variables stay within their types.
LEMMA ActorTypes ==
  ASSUME TypeInv, [Next]_vars, Inv', tip' \in 0 .. MaxCommits
  PROVE  /\ todo' \in [Actors -> Seq(Calls)]
         /\ seen' \in [Actors -> [Runs -> Nat]]
         /\ source' \in [Actors -> [Kinds -> 0 .. MaxCommits]]
         /\ coherent' \in [Actors -> BOOLEAN]
<1>0. /\ todo \in [Actors -> Seq(Calls)]
      /\ seen \in [Actors -> [Runs -> Nat]]
      /\ source \in [Actors -> [Kinds -> 0 .. MaxCommits]]
      /\ coherent \in [Actors -> BOOLEAN]
  BY DEF TypeInv, TypeOK, Calls, Ops
<1>a. \A r \in Runs : attempt[r] \in Nat
  BY PublicationAssumption DEF TypeInv, TypeOK
<1>1. /\ todo' = [a \in Actors |-> todo'[a]]
      /\ seen' = [a \in Actors |-> seen'[a]]
      /\ source' = [a \in Actors |-> source'[a]]
      /\ coherent' = [a \in Actors |-> coherent'[a]]
  <2>1. CASE \E a \in Actors : MakeCall(a)
    BY <1>0, <2>1 DEF MakeCall, CheckTip, VerifyRun, ReadLatest, Confirm, ConfirmSource,
                      Answer, Read
  <2>2. CASE \E a \in Actors : \E calls : Begin(a, calls)
    BY <1>0, <2>2 DEF Begin
  <2>3. CASE UNCHANGED actors
    BY <1>0, <2>3 DEF actors
  <2>4. ASSUME NEW r \in Runs, Rerun(r)
        PROVE  UNCHANGED actors \/ \E a \in Actors : \E calls : Begin(a, calls)
    <3>1. r[2] \in Actors
      BY RunTypes DEF Actors
    <3> QED
      BY <2>4, <3>1 DEF Rerun
  <2>5. ASSUME NEW k \in Kinds, Select(k) PROVE \E a \in Actors : \E calls : Begin(a, calls)
    BY <2>5 DEF Select, Actors
  <2>6. ASSUME NEW d \in Deploys,
               \/ StartDeploy(d) \/ Revalidate(d) \/ FinishBuild(d)
               \/ StartDeployment(d) \/ FinishRevalidation(d) \/ Deploy(d) \/ Defer(d)
        PROVE  \E a \in Actors : \E calls : Begin(a, calls)
    <3>1. d \in Actors
      BY DEF Actors
    <3>2. \E calls : Begin(d, calls)
      BY <2>6 DEF StartDeploy, Revalidate, FinishBuild, StartDeployment,
                  FinishRevalidation, Advance, Deploy, Defer, Over
    <3> QED
      BY <3>1, <3>2
  <2>7. (\E r \in Runs : Succeed(r) \/ Fail(r)) \/ Push \/ Expire \/ UNCHANGED vars
           => UNCHANGED actors
    BY DEF Succeed, Fail, Push, Expire, vars, actors
  <2> QED
    BY <2>1, <2>2, <2>3, <2>4, <2>5, <2>6, <2>7 DEF Next
<1>2. ASSUME NEW a \in Actors
      PROVE  /\ todo'[a] \in Seq(Calls)
             /\ seen'[a] \in [Runs -> Nat]
             /\ source'[a] \in [Kinds -> 0 .. MaxCommits]
             /\ coherent'[a] \in BOOLEAN
  <2>1. CASE SameActor(a)
    BY <1>0, <2>1 DEF SameActor
  <2>2. CASE FreshActor(a)
    <3>1. /\ Unseen \in [Runs -> Nat] /\ NoSource \in [Kinds -> 0 .. MaxCommits]
      BY RunTypes DEF Unseen, NoSource
    <3>2. a \notin Kinds => Commit(a)' \in 0 .. MaxCommits
      <4>1. a \notin Kinds => a \in Deploys
        BY ActorKinds
      <4>2. a \notin Kinds => Commit(a)' \in 0 .. tip'
        BY <4>1 DEF Inv, CommitInv
      <4> QED
        BY <4>2, PublicationAssumption
    <3>3. todo'[a] \in Seq(Calls)
      <4>1. CASE a \in Kinds
        BY <2>2, <4>1, ReusableCalls DEF FreshActor, Opening
      <4>2. CASE a \notin Kinds
        <5>1. PublicationPair(Commit(a)') \in Seq(Calls) /\ <<>> \in Seq(Calls)
          BY <3>2, <4>2, PublicationCalls, EmptySeq
        <5> QED
          BY <2>2, <4>2, <5>1 DEF FreshActor, Opening
      <4> QED
        BY <4>1, <4>2
    <3> QED
      BY <2>2, <3>1, <3>3 DEF FreshActor
  <2>3. CASE MakeCall(a)
    <3>1. todo'[a] \in Seq(Calls)
      <4>1. CASE todo'[a] = <<Failed>>
        BY <4>1, FailedCall
      <4>2. ASSUME NEW calls \in {<<>>, ReusablePair}, Well(a, calls)
            PROVE  todo'[a] \in Seq(Calls)
        <5>1. todo[a] \in Seq(Calls) /\ todo[a] # <<>>
          BY <1>0, <4>2 DEF Well
        <5>2. calls \o Tail(todo[a]) \in Seq(Calls)
          BY <5>1, Shifted
        <5> QED
          BY <4>2, <5>2 DEF Well
      <4> QED
        BY <2>3, <4>1, <4>2, CallMade
    <3>2. ASSUME NEW r \in Runs, NEW from \in [Kinds -> 0 .. MaxCommits], Read(a, r, from)
          PROVE  /\ seen'[a] \in [Runs -> Nat]
                 /\ source'[a] \in [Kinds -> 0 .. MaxCommits]
                 /\ coherent'[a] \in BOOLEAN
      <4>1. attempt[r] \in Nat
        BY <1>a
      <4>2. seen'[a] = [seen[a] EXCEPT ![r] = attempt[r]] /\ source'[a] = from
        BY <1>0, <3>2 DEF Read
      <4>3. coherent'[a] \in BOOLEAN
        BY <1>0, <3>2 DEF Read, Unchanged
      <4> QED
        BY <1>0, <4>1, <4>2, <4>3
    <3>3. CASE UNCHANGED <<seen, source, coherent>>
      BY <1>0, <3>1, <3>3
    <3>4. Run(a) \in Runs
      BY <2>3, CallMade, CallFields DEF Run
    <3>5. CASE VerifyRun(a)
      <4>1. Read(a, Run(a), source[a]) /\ source[a] \in [Kinds -> 0 .. MaxCommits]
        BY <1>0, <3>5 DEF VerifyRun
      <4> QED
        BY <3>1, <3>2, <3>4, <4>1
    <3>6. CASE ReadLatest(a)
      <4> DEFINE from == [source[a] EXCEPT ![Run(a)[2]] =
                             IF mode[Run(a)] = "reuse" THEN 0 ELSE Run(a)[1]]
      <4>1. from \in [Kinds -> 0 .. MaxCommits]
        BY <1>0, <3>4, RunTypes
      <4>2. Read(a, Run(a), from)
        BY <3>6 DEF ReadLatest
      <4> HIDE DEF from
      <4> QED
        BY <3>1, <3>2, <3>4, <4>1, <4>2
    <3> QED
      BY <2>3, <3>1, <3>3, <3>5, <3>6 DEF MakeCall, CheckTip, Confirm, ConfirmSource
  <2> QED
    BY <2>1, <2>2, <2>3, ActorSteps
<1> HIDE DEF Calls
<1> QED
  BY <1>1, <1>2

\* The other variables stay within theirs.
LEMMA WorldTypes ==
  ASSUME TypeInv, [Next]_vars, Inv'
  PROVE  TypeOK'
<1>0. /\ AttemptInv' /\ attempt' \in [Runs -> 0 .. MaxUpsets + 1]
      /\ status' \in [Runs -> {"none", "selecting", "running", "success", "failure"}]
      /\ tip' \in 0 .. MaxCommits /\ upsets' \in 0 .. MaxUpsets
      /\ \A r \in Runs : attempt[r] <= attempt'[r]
  BY AttemptStep
<1>1. /\ todo' \in [Actors -> Seq(Calls)]
      /\ seen' \in [Actors -> [Runs -> Nat]]
      /\ source' \in [Actors -> [Kinds -> 0 .. MaxCommits]]
      /\ coherent' \in [Actors -> BOOLEAN]
  BY <1>0, ActorTypes
<1>2. tree' = tree
  BY DEF Next, MakeCall, Select, Succeed, Fail, Rerun, Push, Expire, StartDeploy,
         Revalidate, FinishBuild, StartDeployment, FinishRevalidation, Advance, Deploy,
         Defer, Over, world, vars
<1>3. /\ mode' \in [Runs -> {"full", "delta", "reuse"}]
      /\ touched' \in {0, 1}
      /\ phase' \in [Deploys -> {"idle", "publication", "revalidation", "waiting",
                                 "deployment", "deploying"}]
  <2> USE DEF TypeInv, TypeOK
  <2>1. CASE \E a \in Actors : MakeCall(a)
    BY <2>1 DEF MakeCall, world, deploys, history
  <2>2. CASE \E k \in Kinds : Select(k)
    BY <2>2 DEF Select, deploys, history
  <2>3. CASE \E r \in Runs : Succeed(r) \/ Fail(r)
    BY <2>3 DEF Succeed, Fail, deploys
  <2>4. CASE \E r \in Runs : Rerun(r)
    BY <2>4 DEF Rerun, deploys
  <2>5. CASE Push \/ Expire
    BY <2>5 DEF Push, Expire, deploys, history
  <2>6. CASE \E d \in Deploys : StartDeploy(d)
    BY <2>6 DEF StartDeploy
  <2>7. CASE \E d \in Deploys : \/ Revalidate(d) \/ FinishBuild(d)
                                \/ StartDeployment(d) \/ FinishRevalidation(d)
    BY <2>7 DEF Revalidate, FinishBuild, StartDeployment, FinishRevalidation, Advance,
                world, history
  <2>8. CASE \E d \in Deploys : Deploy(d) \/ Defer(d)
    BY <2>8 DEF Deploy, Defer, Over, world, history
  <2>9. CASE UNCHANGED vars
    BY <2>9 DEF vars
  <2> QED
    BY <2>1, <2>2, <2>3, <2>4, <2>5, <2>6, <2>7, <2>8, <2>9 DEF Next
<1>5. deployed' \in 0 .. MaxCommits
  BY <1>0, PublicationAssumption DEF Inv, CommitInv
<1>6. /\ \A e \in evidence' : e[1] \in Runs /\ e[2] \in 1 .. attempt'[e[1]]
      /\ \A t \in triggers' : <<t[1], t[2]>> \in Runs /\ t[1] # 0
      /\ verified' \subseteq (0 .. MaxCommits) \X Kinds
  <2>0. /\ \A e \in evidence : e[1] \in Runs /\ e[2] \in 1 .. attempt'[e[1]]
        /\ \A t \in triggers : <<t[1], t[2]>> \in Runs /\ t[1] # 0
        /\ verified \subseteq (0 .. MaxCommits) \X Kinds
    <3>1. ASSUME NEW e \in evidence PROVE e[1] \in Runs /\ e[2] \in 1 .. attempt'[e[1]]
      <4>1. e[1] \in Runs /\ e[2] \in 1 .. attempt[e[1]]
        BY DEF TypeInv, TypeOK
      <4>2. attempt[e[1]] \in Nat /\ attempt'[e[1]] \in Nat /\ attempt[e[1]] <= attempt'[e[1]]
        BY <1>0, <4>1, PublicationAssumption DEF TypeInv, TypeOK
      <4> QED
        BY <4>1, <4>2
    <3> QED
      BY <3>1 DEF TypeInv, TypeOK
  <2>1. ASSUME NEW r \in Runs, Succeed(r)
        PROVE  /\ evidence' \subseteq evidence \cup {<<r, attempt[r]>>}
               /\ triggers' \subseteq triggers
                     \cup (IF r[1] # 0 THEN {<<r[1], r[2], attempt[r]>>} ELSE {})
               /\ verified' \subseteq verified
                     \cup {<<IF r[1] = 0 THEN tree ELSE r[1], r[2]>>}
               /\ attempt[r] \in 1 .. attempt'[r]
    <3>1. attempt' = attempt /\ attempt[r] \in Nat /\ attempt[r] # 0
      <4>1. status[r] # "none"
        BY <2>1 DEF Succeed
      <4> QED
        BY <2>1, <4>1, PublicationAssumption DEF Succeed, TypeInv, TypeOK, AttemptInv
    <3>2. attempt[r] \in 1 .. attempt'[r]
      BY <3>1
    <3> QED
      BY <2>1, <3>2 DEF Succeed, ThisAttempt, TriggersDeploy
  <2>2. CASE \E r \in Runs : Succeed(r)
    <3>1. PICK r \in Runs : Succeed(r)
      BY <2>2
    <3>2. r[1] \in 0 .. MaxCommits /\ r[2] \in Kinds /\ <<r[1], r[2]>> \in Runs
      BY RunTypes
    <3>3. <<IF r[1] = 0 THEN tree ELSE r[1], r[2]>> \in (0 .. MaxCommits) \X Kinds
      BY <3>2, RunTypes DEF TypeInv, TypeOK
    <3>4. /\ <<r, attempt[r]>>[1] = r /\ <<r, attempt[r]>>[2] = attempt[r]
          /\ <<r[1], r[2], attempt[r]>>[1] = r[1] /\ <<r[1], r[2], attempt[r]>>[2] = r[2]
      OBVIOUS
    <3>5. \A e \in evidence' : e[1] \in Runs /\ e[2] \in 1 .. attempt'[e[1]]
      BY <2>0, <2>1, <3>1, <3>4
    <3>6. \A t \in triggers' : <<t[1], t[2]>> \in Runs /\ t[1] # 0
      BY <2>0, <2>1, <3>1, <3>2, <3>4
    <3>7. verified' \subseteq (0 .. MaxCommits) \X Kinds
      BY <2>0, <2>1, <3>1, <3>3
    <3> QED
      BY <3>5, <3>6, <3>7
  <2>3. CASE ~\E r \in Runs : Succeed(r)
    <3>1. evidence' \subseteq evidence /\ triggers' \subseteq triggers /\ verified' = verified
      BY <2>3 DEF Next, MakeCall, Select, Fail, Rerun, Push, Expire, StartDeploy,
         Revalidate, FinishBuild, StartDeployment, FinishRevalidation, Advance, Deploy,
         Defer, Over, world, history, vars
    <3> QED
      BY <2>0, <3>1
  <2> QED
    BY <2>2, <2>3
<1>7. tree' \in {0, 1}
  BY <1>2 DEF TypeInv, TypeOK
<1> QED
  BY <1>0, <1>1, <1>3, <1>5, <1>6, <1>7 DEF TypeOK, Calls, Ops

\* A Deploy run keeps its commit until it is over.
LEMMA StartedStep ==
  ASSUME TypeInv, [Next]_vars
  PROVE  StartedInv'
<1> SUFFICES ASSUME NEW d \in Deploys, phase'[d] # "idle"
             PROVE  Commit(d)' # 0 /\ <<trigger'[d][1], trigger'[d][2]>> \in Runs
  BY DEF StartedInv
<1>1. CASE phase[d] # "idle" /\ trigger'[d] = trigger[d]
  BY <1>1 DEF TypeInv, StartedInv, Commit
<1>2. CASE phase'[d] = phase[d] /\ trigger'[d] = trigger[d]
  BY <1>1, <1>2
<1>3. CASE DeployStep(d)
  <2>1. CASE StartDeploy(d)
    <3>1. trigger'[d] \in triggers
      BY <2>1 DEF StartDeploy, TypeInv, Inv, DomainInv
    <3> QED
      BY <3>1 DEF TypeInv, TypeOK, Commit
  <2>2. CASE Revalidate(d) \/ FinishBuild(d) \/ StartDeployment(d) \/ FinishRevalidation(d)
    <3>1. phase[d] # "idle" /\ trigger'[d] = trigger[d]
      BY <2>2 DEF Revalidate, FinishBuild, StartDeployment, FinishRevalidation, Advance
    <3> QED
      BY <1>1, <3>1
  <2>3. CASE Deploy(d) \/ Defer(d)
    BY <2>3 DEF Deploy, Defer, Over, TypeInv, TypeOK
  <2> QED
    BY <1>3, <2>1, <2>2, <2>3 DEF DeployStep
<1>4. d \in Actors
  BY DEF Actors
<1> QED
  BY <1>2, <1>3, <1>4, ActorSteps DEF SameActor

\* The first state is of its type.
LEMMA TypeInitial == Init => TypeInv
<1> SUFFICES ASSUME Init PROVE TypeInv
  OBVIOUS
<1>1. Inv
  BY InvInitial
<1>2. AttemptInv
  BY DEF Init, AttemptInv
<1>3. /\ \A a \in Actors : todo[a] \in Seq(Calls)
      /\ StartedInv
  BY ReusableCalls, EmptySeq DEF Init, StartedInv
<1>4. todo \in [Actors -> Seq(Calls)]
  BY <1>3 DEF Init
<1>5. /\ seen \in [Actors -> [Runs -> Nat]]
      /\ source \in [Actors -> [Kinds -> 0 .. MaxCommits]]
      /\ coherent \in [Actors -> BOOLEAN]
      /\ phase \in [Deploys -> {"idle"}]
      /\ tip \in 0 .. MaxCommits /\ deployed \in 0 .. MaxCommits
  BY RunTypes DEF Init, Unseen, NoSource
<1>6. /\ attempt \in [Runs -> 0 .. MaxUpsets + 1] /\ upsets \in 0 .. MaxUpsets
  BY PublicationAssumption DEF Init
<1>7. mode \in [Runs -> {"full", "delta", "reuse"}]
  BY DEF Init
<1>8. /\ \A e \in evidence : e[1] \in Runs /\ e[2] = 1 /\ attempt[e[1]] = 1
      /\ evidence = {<<r, 1>> : r \in {s \in Runs : s[1] = 0 /\ mode[s] = "full"}}
  BY DEF Init
<1>9. \A e \in evidence : e[1] \in Runs /\ e[2] \in 1 .. attempt[e[1]]
  BY <1>8
<1>10. verified \subseteq (0 .. MaxCommits) \X Kinds
  BY <1>8, RunTypes DEF Init
<1> QED
  BY <1>1, <1>2, <1>3, <1>4, <1>5, <1>6, <1>7, <1>9, <1>10 DEF TypeInv, TypeOK, Calls, Ops, Init

\* Type correctness.
LEMMA TypeInvariant == Spec => []TypeInv
<1>1. TypeInv /\ [Next]_vars => TypeInv'
  <2> SUFFICES ASSUME TypeInv, [Next]_vars PROVE TypeInv'
    OBVIOUS
  <2>1. Inv'
    BY InvStep DEF TypeInv
  <2> QED
    BY <2>1, AttemptStep, StartedStep, WorldTypes DEF TypeInv
<1> QED
  BY <1>1, TypeInitial, PTL DEF Spec

\* In particular the state stays within its types and the attempts within the bounds.
THEOREM TypeCorrect == Spec => []TypeOK
BY TypeInvariant, PTL DEF TypeInv

-----------------------------------------------------------------------------
(***************************************************************************)
(* What is published has been verified.                                    *)
(***************************************************************************)

\* A call that does not fail has been answered well: what it asks for is so.
LEMMA CallAnswered ==
  ASSUME TypeInv, NEW a \in Actors, MakeCall(a), todo'[a] # <<Failed>>,
         NEW op, NEW r, todo[a][1] = Call(op, r)
  PROVE  /\ op \in {"tip", "verify", "latest", "confirm", "source"} /\ r \in Runs
         /\ op = "tip" => tip = Commit(a)
         /\ op = "verify" => /\ HasEvidence(r)
                             /\ Read(a, r, source[a])
         /\ op = "latest" =>
               /\ status[r] = "success" /\ Triggered(a, r)
               /\ mode[r] = "reuse" \/ HasEvidence(r)
               /\ Read(a, r, [source[a] EXCEPT ![r[2]] =
                                 IF mode[r] = "reuse" THEN 0 ELSE r[1]])
               /\ Well(a, IF mode[r] = "reuse" /\ seen[a][<<0, "checks">>] = 0
                          THEN ReusablePair ELSE <<>>)
         /\ op = "confirm" => Unchanged(r, seen[a][r])
         /\ op = "source" =>
               Unchanged(<<source[a][r[2]], r[2]>>, seen[a][<<source[a][r[2]], r[2]>>])
         /\ op \in {"tip", "confirm", "source"} => UNCHANGED <<seen, source, coherent>>
         /\ op # "latest" => Well(a, <<>>)
<1>1. /\ todo[a] # <<>> /\ Head(todo[a]) = Call(op, r) /\ Call(op, r) \in Calls
  BY CallMade
<1>2. Head(todo[a]).op = op /\ Run(a) = r /\ r \in Runs
  BY <1>1, CallFields DEF Run
<1>3. ASSUME NEW ok \in BOOLEAN, NEW calls, Answer(a, ok, calls)
      PROVE  ok /\ Well(a, calls)
  BY <1>1, <1>3 DEF Answer, Well, TypeInv, Inv, DomainInv
<1>4. CASE CheckTip(a)
  <2>1. op = "tip" /\ Answer(a, tip = Commit(a), <<>>) /\ UNCHANGED <<seen, source, coherent>>
    BY <1>2, <1>4 DEF CheckTip, Makes
  <2> QED
    BY <1>2, <1>3, <2>1
<1>5. CASE VerifyRun(a)
  <2>1. op = "verify" /\ Answer(a, HasEvidence(r), <<>>) /\ Read(a, r, source[a])
    BY <1>2, <1>5 DEF VerifyRun, Makes
  <2>2. HasEvidence(r) \in BOOLEAN
    BY DEF HasEvidence
  <2> QED
    BY <1>2, <1>3, <2>1, <2>2
<1>6. CASE ReadLatest(a)
  <2> DEFINE ok == /\ status[r] = "success" /\ Triggered(a, r)
                   /\ mode[r] = "reuse" \/ HasEvidence(r)
             calls == IF mode[r] = "reuse" /\ seen[a][<<0, "checks">>] = 0
                      THEN ReusablePair ELSE <<>>
  <2>1. /\ op = "latest" /\ Answer(a, ok, calls)
        /\ Read(a, r, [source[a] EXCEPT ![r[2]] = IF mode[r] = "reuse" THEN 0 ELSE r[1]])
    BY <1>2, <1>6 DEF ReadLatest, Makes
  <2>2. ok \in BOOLEAN
    OBVIOUS
  <2>3. ok /\ Well(a, calls)
    <3> HIDE DEF ok, calls
    <3> QED
      BY <1>3, <2>1, <2>2
  <2> QED
    BY <1>2, <2>1, <2>3
<1>7. CASE Confirm(a)
  <2>1. /\ op = "confirm" /\ Answer(a, Unchanged(r, seen[a][r]), <<>>)
        /\ UNCHANGED <<seen, source, coherent>>
    BY <1>2, <1>7 DEF Confirm, Makes
  <2>2. Unchanged(r, seen[a][r]) \in BOOLEAN
    BY DEF Unchanged
  <2> QED
    BY <1>2, <1>3, <2>1, <2>2
<1>8. CASE ConfirmSource(a)
  <2> DEFINE ok == Unchanged(<<source[a][r[2]], r[2]>>, seen[a][<<source[a][r[2]], r[2]>>])
  <2>1. /\ op = "source" /\ Answer(a, ok, <<>>) /\ UNCHANGED <<seen, source, coherent>>
    BY <1>2, <1>8 DEF ConfirmSource, Makes
  <2>2. ok \in BOOLEAN
    BY DEF Unchanged
  <2>3. ok /\ Well(a, <<>>)
    <3> HIDE DEF ok
    <3> QED
      BY <1>3, <2>1, <2>2
  <2> QED
    BY <1>2, <2>1, <2>3
<1> QED
  BY <1>4, <1>5, <1>6, <1>7, <1>8 DEF MakeCall

\* A call that has failed is not answered.
LEMMA FailedStays ==
  ASSUME TypeInv, NEW a \in Actors, MakeCall(a)
  PROVE  todo[a] # <<Failed>>
<1> SUFFICES ASSUME todo[a] = <<Failed>> PROVE FALSE
  OBVIOUS
<1>1. Head(todo[a]).op = "failed"
  BY FailedCall
<1> QED
  BY <1>1 DEF MakeCall, CheckTip, VerifyRun, ReadLatest, Confirm, ConfirmSource, Makes

\* What has been verified stays so, of the tree that was tested.
LEMMA VerifiedStays == [Next]_vars => verified \subseteq verified' /\ tree' = tree
BY DEF Next, MakeCall, Select, Succeed, Fail, Rerun, Push, Expire, StartDeploy,
       Revalidate, FinishBuild, StartDeployment, FinishRevalidation, Advance, Deploy,
       Defer, Over, world, history, vars

\* What an artifact vouches for, or a run that reuses others, has been verified.
VouchedInv ==
    /\ \A e \in evidence : <<IF e[1][1] = 0 THEN tree ELSE e[1][1], e[1][2]>> \in verified
    /\ \A r \in Runs : mode[r] = "reuse" => r[1] = 1 /\ \A k \in Kinds : <<1, k>> \in verified

\* A select job that has had all its answers has seen both verifications.
SelectInv ==
    \A k \in Kinds :
        \/ todo[k] = <<Failed>>
        \/ \A j \in Kinds : <<1, j>> \in verified \/ Pending(k, Call("verify", <<0, j>>))

\* A Deploy run has seen both verifications of its commit, in its first phase unless
\* it is still to ask for them.
DeployInv ==
    \A d \in Deploys :
        /\ phase[d] = "publication" =>
              \/ todo[d] = <<Failed>>
              \/ \A k \in Kinds : \/ <<Commit(d), k>> \in verified
                                  \/ Pending(d, Call("latest", <<Commit(d), k>>))
        /\ phase[d] \notin {"idle", "publication"} =>
              \A k \in Kinds : <<Commit(d), k>> \in verified

VerifiedInv == VouchedInv /\ SelectInv /\ DeployInv /\ PublishedIsVerified

\* Both verifications of the pull request are asked for, and those of a commit.
LEMMA OpeningAsks ==
  /\ \A k \in Kinds : \E i \in 1 .. Len(ReusablePair) :
        ReusablePair[i] = Call("verify", <<0, k>>)
  /\ \A c \in 0 .. MaxCommits : \A k \in Kinds : \E i \in 1 .. Len(PublicationPair(c)) :
        PublicationPair(c)[i] = Call("latest", <<c, k>>)
<1>1. \A k \in Kinds : k = "checks" \/ k = "codeql"
  BY DEF Kinds
<1>2. 1 \in 1 .. 4 /\ 2 \in 1 .. 4 /\ 2 \in 1 .. 8 /\ 3 \in 1 .. 8
  OBVIOUS
<1>3. \A k \in Kinds : \E i \in 1 .. Len(ReusablePair) :
         ReusablePair[i] = Call("verify", <<0, k>>)
  BY <1>1, <1>2, ReusableCalls
<1>4. ASSUME NEW c \in 0 .. MaxCommits, NEW k \in Kinds
      PROVE  \E i \in 1 .. Len(PublicationPair(c)) :
                PublicationPair(c)[i] = Call("latest", <<c, k>>)
  BY <1>1, <1>2, PublicationCalls
<1> QED
  BY <1>3, <1>4

\* A full verification that a call finds is one that succeeded, of the tree at hand.
LEMMA EvidenceVouches ==
  ASSUME VouchedInv, NEW r \in Runs, HasEvidence(r)
  PROVE  <<IF r[1] = 0 THEN 1 ELSE r[1], r[2]>> \in verified
<1>1. <<r, attempt[r]>> \in evidence /\ (r[1] = 0 => tree = 1)
  BY DEF HasEvidence, SameTree
<1>2. <<r, attempt[r]>>[1] = r
  OBVIOUS
<1>3. <<IF r[1] = 0 THEN tree ELSE r[1], r[2]>> \in verified
  BY <1>1, <1>2 DEF VouchedInv
<1> QED
  BY <1>1, <1>3

\* The artifacts and reuses there are after a step vouch for what has been verified.
LEMMA VouchedStep ==
  ASSUME TypeInv, VerifiedInv, [Next]_vars
  PROVE  VouchedInv'
<1>0. verified \subseteq verified' /\ tree' = tree
  BY VerifiedStays
<1>1. ASSUME NEW r \in Runs, Succeed(r) PROVE VouchedInv'
  <2>1. mode' = mode
    BY <1>1 DEF Succeed
  <2>2. ASSUME NEW e \in evidence', e \notin evidence
        PROVE  <<IF e[1][1] = 0 THEN tree ELSE e[1][1], e[1][2]>> \in verified'
    <3>1. e = <<r, attempt[r]>> /\ mode[r] = "full"
      BY <1>1, <2>2 DEF Succeed, ThisAttempt
    <3>2. e[1] = r
      BY <3>1
    <3> QED
      BY <1>1, <3>1, <3>2 DEF Succeed
  <2> QED
    BY <1>0, <2>1, <2>2 DEF VerifiedInv, VouchedInv
<1>2. ASSUME NEW k \in Kinds, Select(k) PROVE VouchedInv'
  <2>1. ASSUME NEW r \in Runs, mode'[r] = "reuse", mode[r] # "reuse"
        PROVE  r[1] = 1 /\ \A j \in Kinds : <<1, j>> \in verified
    <3>1. r = <<1, k>> /\ todo[k] = <<>>
      BY <1>2, <2>1 DEF Select, TypeInv, TypeOK
    <3>2. todo[k] # <<Failed>> /\ ~\E j \in Kinds : Pending(k, Call("verify", <<0, j>>))
      BY <3>1, FailedCall DEF Pending
    <3> QED
      BY <3>1, <3>2 DEF VerifiedInv, SelectInv
  <2>2. evidence' = evidence
    BY <1>2 DEF Select
  <2> QED
    BY <1>0, <2>1, <2>2 DEF VerifiedInv, VouchedInv
<1>3. CASE mode' = mode /\ evidence' \subseteq evidence
  BY <1>0, <1>3 DEF VerifiedInv, VouchedInv
<1>4. (~\E r \in Runs : Succeed(r)) /\ (~\E k \in Kinds : Select(k))
         => mode' = mode /\ evidence' \subseteq evidence
  BY DEF Next, MakeCall, Fail, Rerun, Push, Expire, StartDeploy, Revalidate, FinishBuild,
         StartDeployment, FinishRevalidation, Advance, Deploy, Defer, Over, world, vars
<1> QED
  BY <1>1, <1>2, <1>3, <1>4

\* A select job goes on asking.
LEMMA SelectInvStep ==
  ASSUME TypeInv, VerifiedInv, [Next]_vars
  PROVE  SelectInv'
<1> SUFFICES ASSUME NEW k \in Kinds, todo'[k] # <<Failed>>, NEW j \in Kinds
             PROVE  <<1, j>> \in verified' \/ Pending(k, Call("verify", <<0, j>>))'
  BY FailedCall DEF SelectInv
<1>0. verified \subseteq verified' /\ k \in Actors /\ k \notin Deploys
  BY VerifiedStays, ActorKinds DEF Actors
<1>1. CASE SameActor(k)
  BY <1>0, <1>1 DEF SameActor, VerifiedInv, SelectInv, Pending
<1>2. CASE FreshActor(k)
  <2>1. todo'[k] = ReusablePair
    BY <1>2 DEF FreshActor, Opening
  <2> QED
    BY <2>1, OpeningAsks DEF Pending
<1>3. CASE MakeCall(k)
  <2> DEFINE x == Call("verify", <<0, j>>)
  <2>1. /\ todo[k] \in Seq(Calls) /\ todo[k] # <<Failed>>
        /\ \E calls \in {<<>>, ReusablePair} : Well(k, calls)
    BY <1>0, <1>3, CallMade, FailedStays
  <2>2. CASE <<1, j>> \in verified
    BY <1>0, <2>2
  <2>3. CASE Pending(k, x) /\ todo[k][1] # x
    BY <1>0, <2>1, <2>3, StillPending
  <2>4. CASE todo[k][1] = x
    <3>1. <<0, j>> \in Runs /\ HasEvidence(<<0, j>>)
      BY <1>0, <1>3, <2>4, CallAnswered
    <3>2. <<0, j>>[1] = 0 /\ <<0, j>>[2] = j
      OBVIOUS
    <3> QED
      BY <1>0, <3>1, <3>2, EvidenceVouches DEF VerifiedInv
  <2> QED
    BY <2>1, <2>2, <2>3, <2>4 DEF VerifiedInv, SelectInv
<1> QED
  BY <1>0, <1>1, <1>2, <1>3, ActorSteps

\* A Deploy run goes on asking, or goes on when it has had its answers.
LEMMA DeployInvStep ==
  ASSUME TypeInv, TypeInv', VerifiedInv, [Next]_vars
  PROVE  DeployInv'
<1> SUFFICES ASSUME NEW d \in Deploys
             PROVE  /\ phase'[d] = "publication" =>
                          \/ todo'[d] = <<Failed>>
                          \/ \A k \in Kinds : \/ <<Commit(d)', k>> \in verified'
                                              \/ Pending(d, Call("latest", <<Commit(d), k>>))'
                    /\ phase'[d] \notin {"idle", "publication"} =>
                          \A k \in Kinds : <<Commit(d)', k>> \in verified'
  BY FailedCall DEF DeployInv
<1>0. verified \subseteq verified' /\ d \in Actors /\ d \notin Kinds
  BY VerifiedStays, ActorKinds DEF Actors
<1>1. CASE SameActor(d)
  <2>1. /\ todo'[d] = todo[d] /\ phase'[d] = phase[d] /\ Commit(d)' = Commit(d)
        /\ \A x : Pending(d, x)' <=> Pending(d, x)
    BY <1>1 DEF SameActor, Commit, Pending
  <2>2. \A k \in Kinds : Call("latest", <<Commit(d), k>>)' = Call("latest", <<Commit(d), k>>)
    BY <2>1
  <2> QED
    BY <1>0, <2>1, <2>2 DEF VerifiedInv, DeployInv
<1>2. CASE MakeCall(d) /\ phase'[d] = phase[d] /\ trigger'[d] = trigger[d]
  <2>1. Commit(d)' = Commit(d)
    BY <1>2 DEF Commit
  <2>2. ASSUME phase[d] = "publication", todo'[d] # <<Failed>>, NEW k \in Kinds
        PROVE  <<Commit(d), k>> \in verified' \/ Pending(d, Call("latest", <<Commit(d), k>>))'
    <3> DEFINE r == <<Commit(d), k>>
               x == Call("latest", r)
    <3>0. x' = x
      BY <2>1
    <3>1. /\ todo[d] \in Seq(Calls) /\ todo[d] # <<Failed>>
          /\ \E calls \in {<<>>, ReusablePair} : Well(d, calls)
      BY <1>0, <1>2, <2>2, CallMade, FailedStays
    <3>2. CASE r \in verified
      BY <1>0, <3>2
    <3>3. CASE Pending(d, x) /\ todo[d][1] # x
      BY <1>0, <3>0, <3>1, <3>3, StillPending
    <3>4. CASE todo[d][1] = x
      <4>1. r \in Runs /\ (mode[r] = "reuse" \/ HasEvidence(r))
        BY <1>0, <1>2, <2>2, <3>4, CallAnswered
      <4>2. r[1] = Commit(d) /\ r[2] = k
        OBVIOUS
      <4>3. CASE mode[r] = "reuse"
        BY <1>0, <4>1, <4>2, <4>3 DEF VerifiedInv, VouchedInv
      <4>4. CASE HasEvidence(r)
        <5>1. <<IF r[1] = 0 THEN 1 ELSE r[1], r[2]>> \in verified
          BY <4>1, <4>4, EvidenceVouches DEF VerifiedInv
        <5>2. Commit(d) # 0
          BY <2>2 DEF TypeInv, StartedInv
        <5> QED
          BY <1>0, <4>2, <5>1, <5>2
      <4> QED
        BY <4>1, <4>3, <4>4
    <3> QED
      BY <2>2, <3>1, <3>2, <3>3, <3>4 DEF VerifiedInv, DeployInv
  <2> QED
    BY <1>0, <1>2, <2>1, <2>2 DEF VerifiedInv, DeployInv
<1>3. CASE DeployStep(d)
  <2>1. CASE StartDeploy(d)
    <3>1. phase'[d] = "publication" /\ todo'[d] = PublicationPair(Commit(d)')
      BY <1>0, <2>1, BeginOne DEF StartDeploy, Commit, TypeInv, Inv, DomainInv
    <3>2. Commit(d)' \in 0 .. MaxCommits
      BY PublicationAssumption DEF TypeInv, TypeOK, Inv, CommitInv
    <3> QED
      BY <3>1, <3>2, OpeningAsks DEF Pending
  <2>2. CASE Revalidate(d)
    <3>1. /\ phase[d] = "publication" /\ todo[d] = <<>>
          /\ phase'[d] = "revalidation" /\ Commit(d)' = Commit(d)
      BY <2>2 DEF Revalidate, Advance, Commit, TypeInv, TypeOK
    <3>2. todo[d] # <<Failed>> /\ \A x : ~Pending(d, x)
      BY <3>1, FailedCall DEF Pending
    <3> QED
      BY <1>0, <3>1, <3>2 DEF VerifiedInv, DeployInv
  <2>3. CASE FinishBuild(d) \/ StartDeployment(d) \/ FinishRevalidation(d)
    <3>1. /\ phase[d] \notin {"idle", "publication"} /\ Commit(d)' = Commit(d)
          /\ phase'[d] # "publication"
      BY <2>3 DEF FinishBuild, StartDeployment, FinishRevalidation, Advance, Commit, TypeInv,
                  TypeOK
    <3> QED
      BY <1>0, <3>1 DEF VerifiedInv, DeployInv
  <2>4. CASE Deploy(d) \/ Defer(d)
    <3>1. phase'[d] = "idle"
      BY <2>4 DEF Deploy, Defer, Over, TypeInv, TypeOK
    <3> QED
      BY <3>1
  <2> QED
    BY <1>3, <2>1, <2>2, <2>3, <2>4 DEF DeployStep
<1> QED
  BY <1>0, <1>1, <1>2, <1>3, ActorSteps

\* It all holds throughout.
LEMMA VerifiedInvariant == Spec => []VerifiedInv
<1>1. Init => VerifiedInv
  <2> SUFFICES ASSUME Init PROVE VerifiedInv
    OBVIOUS
  <2>1. VouchedInv
    <3>1. \A e \in evidence : e[1][1] = 0 /\ <<tree, e[1][2]>> \in verified
      <4>1. evidence = {<<r, 1>> : r \in {q \in Runs : q[1] = 0 /\ mode[q] = "full"}}
        BY DEF Init
      <4>2. \A e \in evidence : e[1][1] = 0
        BY <4>1
      <4>3. verified = {<<tree, e[1][2]>> : e \in evidence}
        BY DEF Init
      <4> QED
        BY <4>2, <4>3
    <3>2. \A r \in Runs : mode[r] # "reuse"
      BY DEF Init
    <3> QED
      BY <3>1, <3>2 DEF VouchedInv
  <2>2. SelectInv
    <3>1. \A k \in Kinds : todo[k] = ReusablePair
      BY DEF Init, Actors
    <3> QED
      BY <3>1, OpeningAsks DEF SelectInv, Pending
  <2>3. DeployInv /\ PublishedIsVerified
    BY DEF Init, DeployInv, PublishedIsVerified
  <2> QED
    BY <2>1, <2>2, <2>3 DEF VerifiedInv
<1>2. TypeInv /\ TypeInv' /\ VerifiedInv /\ [Next]_vars => VerifiedInv'
  <2> SUFFICES ASSUME TypeInv, TypeInv', VerifiedInv, [Next]_vars PROVE VerifiedInv'
    OBVIOUS
  <2>1. PublishedIsVerified'
    <3>0. verified \subseteq verified'
      BY VerifiedStays
    <3>1. ASSUME NEW d \in Deploys, Deploy(d) PROVE PublishedIsVerified'
      <4>1. phase[d] = "deploying" /\ deployed' = Commit(d)
        BY <3>1 DEF Deploy
      <4> QED
        BY <3>0, <4>1 DEF VerifiedInv, DeployInv, PublishedIsVerified
    <3>2. (~\E d \in Deploys : Deploy(d)) => deployed' = deployed
      BY DEF Next, MakeCall, Select, Succeed, Fail, Rerun, Push, Expire, StartDeploy,
             Revalidate, FinishBuild, StartDeployment, FinishRevalidation, Advance, Defer,
             deploys, vars
    <3> QED
      BY <3>0, <3>1, <3>2 DEF VerifiedInv, PublishedIsVerified
  <2> QED
    BY <2>1, VouchedStep, SelectInvStep, DeployInvStep DEF VerifiedInv
<1> QED
  BY <1>1, <1>2, TypeInvariant, PTL DEF Spec

\* Both workflows have verified the very tree of whatever is published, for any number
\* of commits and Deploy runs and whatever is run again, fails or expires.
THEOREM PublishedIsVerifiedTheorem == Spec => []PublishedIsVerified
BY VerifiedInvariant, PTL DEF VerifiedInv

-----------------------------------------------------------------------------
(***************************************************************************)
(* What is concluded from a series of calls was so at one moment: that of  *)
(* the last reading.  What had changed by then is found by a call that     *)
(* looks again, and all of these come after the readings.                  *)
(***************************************************************************)

Reads == {"verify", "latest"}

\* The calls that look again at what the actor's readings rest on.
Rechecks(a) ==
    IF a \in Kinds THEN {Call("confirm", <<0, k>>) : k \in Kinds}
    ELSE {Call("confirm", <<Commit(a), k>>) : k \in Kinds}
         \cup {Call("source", <<Commit(a), k>>) : k \in Kinds}
         \cup {Call("tip", <<Commit(a), "checks">>)}

\* All of the given calls follow every reading.
ReadsFirst(calls, again) ==
    \A i \in 1 .. Len(calls) : calls[i].op \in Reads =>
        \A x \in again : \E j \in i + 1 .. Len(calls) : calls[j] = x

OrderInv == \A a \in Actors : ReadsFirst(todo[a], Rechecks(a))

\* A run that was read had succeeded, so that it has or is being run again.
SeenInv ==
    \A a \in Actors :
        \/ todo[a] = <<Failed>>
        \/ \A q \in Runs : seen[a][q] # 0 =>
              /\ seen[a][q] <= attempt[q]
              /\ seen[a][q] = attempt[q] => status[q] = "success"

\* There is a call to come that looks at run q again.
Rechecked(a, q) ==
    \/ Pending(a, Call("confirm", q))
    \/ /\ a \in Deploys
       /\ \E k \in Kinds : /\ q = <<source[a][k], k>>
                           /\ Pending(a, Call("source", <<Commit(a), k>>))

\* What was not so when it was read will be found out.
CoherentInv ==
    \A a \in Actors :
        \/ todo[a] = <<Failed>>
        \/ coherent[a]
        \/ /\ a \in Deploys
           /\ tip > Commit(a)
           /\ Pending(a, Call("tip", <<Commit(a), "checks">>))
        \/ \E q \in RestsOn(a, source[a]) :
              seen[a][q] # 0 /\ seen[a][q] < attempt[q] /\ Rechecked(a, q)

ConcludeInv == OrderInv /\ SeenInv /\ CoherentInv

\* The order is kept when a call gives way to others.
LEMMA OrderKept ==
  ASSUME NEW s \in Seq(Calls), s # <<>>, NEW calls \in {<<>>, ReusablePair},
         calls = ReusablePair => s[1].op \in Reads,
         NEW again, ReadsFirst(s, again)
  PROVE  ReadsFirst(calls \o Tail(s), again)
<1> DEFINE t == calls \o Tail(s)
           n == Len(calls)
<1>1. /\ Len(s) \in Nat /\ Len(s) >= 1 /\ n \in Nat
      /\ Len(t) = n + Len(s) - 1
      /\ \A j \in 2 .. Len(s) : t[n + j - 1] = s[j]
  <2>1. {0, 4} \subseteq Nat
    OBVIOUS
  <2> QED
    BY <2>1, Shifted
<1>2. n # 0 => calls = ReusablePair
  BY EmptySeq
<1> HIDE DEF t, n
<1> SUFFICES ASSUME NEW i \in 1 .. Len(t), t[i].op \in Reads, NEW x \in again
             PROVE  \E j \in i + 1 .. Len(t) : t[j] = x
  BY DEF ReadsFirst, t
<1>3. CASE i <= n
  <2>1. n # 0
    BY <1>1, <1>3
  <2>2. s[1].op \in Reads /\ 1 \in 1 .. Len(s)
    BY <1>1, <1>2, <2>1
  <2>3. PICK j \in 2 .. Len(s) : s[j] = x
    BY <2>2 DEF ReadsFirst
  <2>4. n + j - 1 \in i + 1 .. Len(t)
    BY <1>1, <1>3
  <2> QED
    BY <1>1, <2>3, <2>4
<1>4. CASE i > n
  <2> DEFINE m == i - n + 1
  <2>1. m \in 2 .. Len(s) /\ n + m - 1 = i
    BY <1>1, <1>4
  <2>2. t[i] = s[m]
    BY <1>1, <2>1
  <2>3. m \in 1 .. Len(s)
    BY <1>1, <2>1
  <2> HIDE DEF m
  <2>4. PICK j \in m + 1 .. Len(s) : s[j] = x
    BY <2>2, <2>3 DEF ReadsFirst
  <2>5. n + j - 1 \in i + 1 .. Len(t) /\ j \in 2 .. Len(s)
    BY <1>1, <2>1
  <2> QED
    BY <1>1, <2>4, <2>5
<1> QED
  BY <1>1, <1>3, <1>4

\* It is that of the calls an actor begins with.
LEMMA OpeningOrder ==
  /\ ReadsFirst(<<>>, {}) /\ \A again : ReadsFirst(<<>>, again)
  /\ \A again : ReadsFirst(<<Failed>>, again)
  /\ ReadsFirst(ReusablePair, {Call("confirm", <<0, k>>) : k \in Kinds})
  /\ \A c \in 0 .. MaxCommits :
        ReadsFirst(PublicationPair(c), {Call("confirm", <<c, k>>) : k \in Kinds}
                                          \cup {Call("source", <<c, k>>) : k \in Kinds}
                                          \cup {Call("tip", <<c, "checks">>)})
<1>1. \A again : ReadsFirst(<<>>, again)
  BY EmptySeq DEF ReadsFirst
<1>2. \A again : ReadsFirst(<<Failed>>, again)
  BY FailedCall DEF ReadsFirst, Reads
<1>3. \A op, r : Call(op, r).op = op
  BY CallFields
<1>4. ReadsFirst(ReusablePair, {Call("confirm", <<0, k>>) : k \in Kinds})
  <2>1. \A i \in 1 .. 4 : i \in {1, 2} \/ ReusablePair[i].op = "confirm"
    <3>1. \A i \in 1 .. 4 : i = 1 \/ i = 2 \/ i = 3 \/ i = 4
      OBVIOUS
    <3> QED
      BY <1>3, <3>1, ReusableCalls
  <2>2. \A i \in {1, 2} : 3 \in i + 1 .. 4 /\ 4 \in i + 1 .. 4
    OBVIOUS
  <2>3. \A k \in Kinds : ReusablePair[3] = Call("confirm", <<0, k>>)
                         \/ ReusablePair[4] = Call("confirm", <<0, k>>)
    BY ReusableCalls DEF Kinds
  <2> QED
    BY <2>1, <2>2, <2>3, ReusableCalls DEF ReadsFirst, Reads
<1>5. ASSUME NEW c \in 0 .. MaxCommits
      PROVE  ReadsFirst(PublicationPair(c), {Call("confirm", <<c, k>>) : k \in Kinds}
                                               \cup {Call("source", <<c, k>>) : k \in Kinds}
                                               \cup {Call("tip", <<c, "checks">>)})
  <2> DEFINE s == PublicationPair(c)
  <2>1. \A i \in 1 .. 8 : i \in {2, 3} \/ s[i].op \notin Reads
    <3>1. \A i \in 1 .. 8 : i = 1 \/ i = 2 \/ i = 3 \/ i = 4 \/ i = 5 \/ i = 6 \/ i = 7 \/ i = 8
      OBVIOUS
    <3>2. /\ \E q : s[1] = Call("tip", q)
          /\ \E q : s[4] = Call("confirm", q)
          /\ \E q : s[5] = Call("confirm", q)
          /\ \E q : s[6] = Call("source", q)
          /\ \E q : s[7] = Call("source", q)
          /\ \E q : s[8] = Call("tip", q)
      BY PublicationCalls
    <3> HIDE DEF s
    <3>3. /\ s[1].op = "tip" /\ s[4].op = "confirm" /\ s[5].op = "confirm"
          /\ s[6].op = "source" /\ s[7].op = "source" /\ s[8].op = "tip"
      BY <1>3, <3>2
    <3> QED
      BY <3>1, <3>3 DEF Reads
  <2>2. \A i \in {2, 3} : /\ 4 \in i + 1 .. 8 /\ 5 \in i + 1 .. 8 /\ 6 \in i + 1 .. 8
                          /\ 7 \in i + 1 .. 8 /\ 8 \in i + 1 .. 8
    OBVIOUS
  <2>3. \A k \in Kinds : s[4] = Call("confirm", <<c, k>>) \/ s[5] = Call("confirm", <<c, k>>)
    BY PublicationCalls DEF Kinds
  <2>4. \A k \in Kinds : s[6] = Call("source", <<c, k>>) \/ s[7] = Call("source", <<c, k>>)
    BY PublicationCalls DEF Kinds
  <2>5. s[8] = Call("tip", <<c, "checks">>) /\ Len(s) = 8
    BY PublicationCalls
  <2> HIDE DEF s
  <2>6. ReadsFirst(s, {Call("confirm", <<c, k>>) : k \in Kinds}
                         \cup {Call("source", <<c, k>>) : k \in Kinds}
                         \cup {Call("tip", <<c, "checks">>)})
    <3> SUFFICES ASSUME NEW i \in {2, 3},
                        NEW x \in {Call("confirm", <<c, k>>) : k \in Kinds}
                                    \cup {Call("source", <<c, k>>) : k \in Kinds}
                                    \cup {Call("tip", <<c, "checks">>)}
                 PROVE  \E j \in i + 1 .. 8 : s[j] = x
      BY <2>1, <2>5 DEF ReadsFirst
    <3>1. \E j \in {4, 5, 6, 7, 8} : s[j] = x
      BY <2>3, <2>4, <2>5
    <3> QED
      BY <2>2, <3>1
  <2> QED
    BY <2>6 DEF s
<1> QED
  BY <1>1, <1>2, <1>4, <1>5

\* A run that has succeeded has until it is run again.
LEMMA SuccessStays ==
  ASSUME TypeInv, [Next]_vars, NEW r \in Runs
  PROVE  /\ attempt[r] \in Nat /\ attempt'[r] \in Nat /\ attempt[r] <= attempt'[r]
         /\ status[r] = "success" /\ attempt'[r] = attempt[r] => status'[r] = "success"
<1>1. attempt[r] \in Nat /\ attempt'[r] \in Nat /\ attempt[r] <= attempt'[r]
  <2>1. attempt[r] \in 0 .. MaxUpsets + 1 /\ attempt'[r] \in 0 .. MaxUpsets + 1
    BY AttemptStep DEF TypeInv, TypeOK
  <2> QED
    BY <2>1, AttemptStep, PublicationAssumption
<1>2. ASSUME status[r] = "success", attempt'[r] = attempt[r]
      PROVE  status'[r] = "success"
  <2>1. ASSUME NEW rs \in SUBSET Runs, StartRuns(rs) PROVE status'[r] = "success"
    <3>1. r \notin rs
      BY <1>1, <1>2, <2>1, StartTypes DEF TypeInv
    <3> QED
      BY <1>2, <2>1, <3>1, StartTypes DEF TypeInv, InProgress
  <2>2. CASE Push
    <3>1. {<<tip', k>> : k \in Kinds} \in SUBSET Runs
      BY AttemptStep, RunTypes
    <3> QED
      BY <2>1, <2>2, <3>1 DEF Push
  <2>3. ASSUME NEW q \in Runs, Rerun(q) PROVE status'[r] = "success"
    BY <2>1, <2>3 DEF Rerun
  <2>4. CASE (\E q \in Runs : Succeed(q) \/ Fail(q)) \/ \E k \in Kinds : Select(k)
    <3>1. ASSUME NEW q \in Runs, Succeed(q) \/ Fail(q) PROVE status'[r] = "success"
      BY <1>2, <3>1 DEF Succeed, Fail, InProgress, TypeInv, TypeOK
    <3>2. ASSUME NEW k \in Kinds, Select(k) PROVE status'[r] = "success"
      BY <1>2, <3>2, RunTypes DEF Select, TypeInv, TypeOK
    <3> QED
      BY <2>4, <3>1, <3>2
  <2>5. CASE UNCHANGED status
    BY <1>2, <2>5
  <2>6. \/ Push \/ \E q \in Runs : Rerun(q)
        \/ (\E q \in Runs : Succeed(q) \/ Fail(q)) \/ \E k \in Kinds : Select(k)
        \/ UNCHANGED status
    BY DEF Next, MakeCall, Expire, StartDeploy, Revalidate, FinishBuild, StartDeployment,
           FinishRevalidation, Advance, Deploy, Defer, Over, world, vars
  <2> QED
    BY <2>2, <2>3, <2>4, <2>5, <2>6
<1> QED
  BY <1>1, <1>2

\* What remains to be called after a step that does not fail.
LEMMA CallsShift ==
  ASSUME TypeInv, NEW a \in Actors, MakeCall(a), todo'[a] # <<Failed>>
  PROVE  /\ todo[a] \in Seq(Calls) /\ todo[a] # <<>> /\ todo[a] # <<Failed>>
         /\ \E op \in Ops, r \in Runs : todo[a][1] = Call(op, r)
         /\ \E calls \in {<<>>, ReusablePair} :
               /\ Well(a, calls)
               /\ calls = ReusablePair => todo[a][1].op \in Reads
<1>1. todo[a][1] \in Calls
  BY CallMade
<1>2. PICK op \in Ops, r \in Runs : todo[a][1] = Call(op, r)
  BY <1>1, CallFields
<1>3. todo[a][1].op = op
  BY <1>2, CallFields
<1>4. CASE op = "latest"
  <2>1. \E calls \in {<<>>, ReusablePair} : Well(a, calls)
    BY CallMade
  <2> QED
    BY <1>2, <1>3, <1>4, <2>1, CallMade, FailedStays DEF Reads
<1>5. CASE op # "latest"
  <2>1. Well(a, <<>>)
    BY <1>2, <1>5, CallAnswered
  <2>2. <<>> # ReusablePair
    BY ReusableCalls, EmptySeq
  <2> QED
    BY <1>2, <2>1, <2>2, CallMade, FailedStays
<1> QED
  BY <1>4, <1>5

\* The order is kept by every step.
LEMMA OrderStep ==
  ASSUME TypeInv, TypeInv', OrderInv, [Next]_vars
  PROVE  OrderInv'
<1> SUFFICES ASSUME NEW a \in Actors PROVE ReadsFirst(todo'[a], Rechecks(a)')
  BY DEF OrderInv, ReadsFirst
<1>1. ASSUME a \in Deploys => trigger'[a] = trigger[a]
      PROVE  Rechecks(a)' = Rechecks(a)
  <2>1. a \notin Kinds => a \in Deploys
    BY ActorKinds
  <2> QED
    BY <1>1, <2>1 DEF Rechecks, Commit
<1>2. CASE SameActor(a)
  BY <1>1, <1>2 DEF SameActor, OrderInv
<1>3. CASE MakeCall(a) /\ (a \in Deploys => trigger'[a] = trigger[a])
  <2>1. CASE todo'[a] = <<Failed>>
    BY <2>1, OpeningOrder
  <2>2. CASE todo'[a] # <<Failed>>
    <3>1. PICK calls \in {<<>>, ReusablePair} :
             /\ Well(a, calls)
             /\ calls = ReusablePair => todo[a][1].op \in Reads
      BY <1>3, <2>2, CallsShift
    <3>2. todo[a] \in Seq(Calls) /\ todo[a] # <<>> /\ ReadsFirst(todo[a], Rechecks(a))
      BY <1>3, <2>2, CallsShift DEF OrderInv
    <3>3. ReadsFirst(calls \o Tail(todo[a]), Rechecks(a))
      BY <3>1, <3>2, OrderKept
    <3> QED
      BY <1>1, <1>3, <3>1, <3>3 DEF Well
  <2> QED
    BY <2>1, <2>2
<1>4. CASE FreshActor(a)
  <2>1. CASE a \in Kinds
    <3>1. todo'[a] = ReusablePair /\ Rechecks(a)' = {Call("confirm", <<0, k>>) : k \in Kinds}
      BY <1>4, <2>1 DEF FreshActor, Opening, Rechecks
    <3> QED
      BY <3>1, OpeningOrder
  <2>2. CASE a \notin Kinds
    <3>1. a \in Deploys
      BY <2>2, ActorKinds
    <3>2. Commit(a)' \in 0 .. MaxCommits
      BY <3>1, PublicationAssumption DEF TypeInv, TypeOK, Inv, CommitInv
    <3>3. todo'[a] = <<>> \/ todo'[a] = PublicationPair(Commit(a)')
      BY <1>4, <2>2 DEF FreshActor, Opening
    <3>4. Rechecks(a)' = {Call("confirm", <<Commit(a)', k>>) : k \in Kinds}
                            \cup {Call("source", <<Commit(a)', k>>) : k \in Kinds}
                            \cup {Call("tip", <<Commit(a)', "checks">>)}
      BY <2>2 DEF Rechecks, Call
    <3> QED
      BY <3>2, <3>3, <3>4, OpeningOrder
  <2> QED
    BY <2>1, <2>2
<1> QED
  BY <1>2, <1>3, <1>4, ActorSteps

\* What a reading leaves behind.
LEMMA ReadSeen ==
  ASSUME TypeInv, NEW a \in Actors, NEW r \in Runs, NEW from, Read(a, r, from)
  PROVE  /\ seen'[a] = [seen[a] EXCEPT ![r] = attempt[r]]
         /\ \A q \in Runs : seen'[a][q] = IF q = r THEN attempt[r] ELSE seen[a][q]
         /\ source'[a] = from
         /\ coherent'[a] = (/\ a \in Deploys => tip = Commit(a)
                            /\ \A q \in RestsOn(a, from) :
                                  seen'[a][q] = 0 \/ Unchanged(q, seen'[a][q]))
BY DEF Read, TypeInv, TypeOK

\* What has been read was a success, and is or is being run again.
LEMMA SeenStep ==
  ASSUME TypeInv, TypeInv', SeenInv, [Next]_vars
  PROVE  SeenInv'
<1> SUFFICES ASSUME NEW a \in Actors, todo'[a] # <<Failed>>, NEW q \in Runs, seen'[a][q] # 0
             PROVE  /\ seen'[a][q] <= attempt'[q]
                    /\ seen'[a][q] = attempt'[q] => status'[q] = "success"
  BY FailedCall DEF SeenInv
<1>0. /\ attempt[q] \in Nat /\ attempt'[q] \in Nat /\ attempt[q] <= attempt'[q]
      /\ status[q] = "success" /\ attempt'[q] = attempt[q] => status'[q] = "success"
      /\ seen[a][q] \in Nat /\ seen'[a][q] \in Nat
  <2>1. seen[a][q] \in Nat /\ seen'[a][q] \in Nat
    BY DEF TypeInv, TypeOK
  <2> QED
    BY <2>1, SuccessStays
<1>1. CASE todo[a] # <<Failed>> /\ seen'[a][q] = seen[a][q]
  <2>1. seen[a][q] <= attempt[q] /\ (seen[a][q] = attempt[q] => status[q] = "success")
    BY <1>1 DEF SeenInv
  <2> QED
    BY <1>0, <1>1, <2>1
<1>2. CASE SameActor(a)
  BY <1>1, <1>2 DEF SameActor
<1>3. CASE FreshActor(a)
  BY <1>3 DEF FreshActor, Unseen
<1>4. CASE MakeCall(a)
  <2>1. todo[a] # <<Failed>> /\ attempt' = attempt /\ status' = status
    BY <1>4, FailedStays DEF MakeCall, world
  <2>2. PICK op \in Ops, r \in Runs : todo[a][1] = Call(op, r)
    BY <1>4, CallsShift
  <2>3. CASE op \in Reads
    <3>1. status[r] = "success" /\ \E from : Read(a, r, from)
      BY <1>4, <2>2, <2>3, CallAnswered DEF Reads, HasEvidence
    <3>2. PICK from : Read(a, r, from)
      BY <3>1
    <3>3. \A s \in Runs : seen'[a][s] = IF s = r THEN attempt[r] ELSE seen[a][s]
      BY <3>2, ReadSeen
    <3>4. CASE q = r
      <4>1. seen'[a][q] = attempt[q] /\ status[q] = "success"
        BY <3>1, <3>3, <3>4
      <4>2. seen'[a][q] = attempt'[q] /\ status'[q] = "success" /\ attempt'[q] \in Nat
        BY <1>0, <2>1, <4>1
      <4> QED
        BY <4>2
    <3>5. CASE q # r
      <4>1. seen'[a][q] = seen[a][q]
        BY <3>3, <3>5
      <4> QED
        BY <1>1, <2>1, <4>1
    <3> QED
      BY <3>4, <3>5
  <2>4. CASE op \notin Reads
    <3>1. seen' = seen
      BY <1>4, <2>2, <2>4, CallAnswered DEF Reads, Ops
    <3> QED
      BY <1>1, <2>1, <3>1
  <2> QED
    BY <2>3, <2>4
<1> QED
  BY <1>2, <1>3, <1>4, ActorSteps

\* A call to come is still to come, or was answered and no longer is.
LEMMA RecheckedOrAnswered ==
  ASSUME TypeInv, NEW a \in Actors, MakeCall(a), todo'[a] # <<Failed>>,
         NEW x, Pending(a, x)
  PROVE  Pending(a, x)' \/ todo[a][1] = x
BY CallsShift, StillPending

\* A run whose attempt is no longer the one that was seen will be found out, or is by
\* the call itself.
LEMMA StaleIsFound ==
  ASSUME TypeInv, NEW a \in Actors, MakeCall(a), todo'[a] # <<Failed>>,
         source'[a] = source[a], Commit(a)' = Commit(a),
         NEW q \in Runs, seen[a][q] < attempt[q], Rechecked(a, q)
  PROVE  Rechecked(a, q)'
<1>0. seen[a][q] \in Nat /\ attempt[q] \in Nat
  BY PublicationAssumption DEF TypeInv, TypeOK
<1>1. ~Unchanged(q, seen[a][q])
  BY <1>0 DEF Unchanged
<1>2. CASE Pending(a, Call("confirm", q))
  <2>1. todo[a][1] # Call("confirm", q)
    BY <1>1, CallAnswered
  <2>2. Pending(a, Call("confirm", q))'
    BY <1>2, <2>1, RecheckedOrAnswered
  <2> QED
    BY <2>2 DEF Rechecked
<1>3. ASSUME a \in Deploys, NEW k \in Kinds, q = <<source[a][k], k>>,
             Pending(a, Call("source", <<Commit(a), k>>))
      PROVE  Rechecked(a, q)'
  <2> DEFINE r == <<Commit(a), k>>
             x == Call("source", r)
  <2>1. r[2] = k
    OBVIOUS
  <2>2. todo[a][1] # x
    <3> SUFFICES ASSUME todo[a][1] = x PROVE FALSE
      OBVIOUS
    <3>1. Unchanged(<<source[a][r[2]], r[2]>>, seen[a][<<source[a][r[2]], r[2]>>])
      BY CallAnswered
    <3> QED
      BY <1>1, <1>3, <2>1, <3>1
  <2>3. x' = x
    OBVIOUS
  <2>4. Pending(a, x)'
    BY <1>3, <2>2, <2>3, RecheckedOrAnswered
  <2> QED
    BY <1>3, <2>4 DEF Rechecked
<1> QED
  BY <1>2, <1>3 DEF Rechecked

\* What a conclusion rests on will be looked at again when it changed too early.
LEMMA CoherentStep ==
  ASSUME TypeInv, TypeInv', OrderInv, SeenInv, SeenInv', CoherentInv, [Next]_vars
  PROVE  CoherentInv'
<1> SUFFICES ASSUME NEW a \in Actors, todo'[a] # <<Failed>>, ~coherent'[a]
             PROVE  \/ /\ a \in Deploys
                       /\ tip' > Commit(a)'
                       /\ Pending(a, Call("tip", <<Commit(a), "checks">>))'
                    \/ \E q \in RestsOn(a, source[a])' :
                          seen'[a][q] # 0 /\ seen'[a][q] < attempt'[q] /\ Rechecked(a, q)'
  BY FailedCall DEF CoherentInv
<1>0. /\ tip \in Nat /\ tip' \in Nat /\ tip <= tip'
      /\ a \in Deploys => Commit(a) \in Nat /\ Commit(a) <= tip
  <2>1. tip' = tip \/ tip' = tip + 1
    BY DEF Next, MakeCall, Select, Succeed, Fail, Rerun, Push, Expire, StartDeploy,
           Revalidate, FinishBuild, StartDeployment, FinishRevalidation, Advance, Deploy,
           Defer, Over, world, vars
  <2> QED
    BY <2>1 DEF TypeInv, Inv, CommitInv
<1>1. ASSUME a \in Deploys => trigger'[a] = trigger[a], source'[a] = source[a]
      PROVE  /\ a \in Deploys => Commit(a)' = Commit(a)
             /\ RestsOn(a, source[a])' = RestsOn(a, source[a])
  <2>1. a \notin Kinds => a \in Deploys
    BY ActorKinds
  <2> QED
    BY <1>1, <2>1 DEF RestsOn, Commit
<1>2. RestsOn(a, source[a]) \subseteq Runs
  <2>1. a \notin Kinds => Commit(a) \in 0 .. MaxCommits
    <3>1. a \notin Kinds => a \in Deploys
      BY ActorKinds
    <3> QED
      BY <3>1, <1>0, PublicationAssumption DEF TypeInv, TypeOK
  <2>2. \A k \in Kinds : source[a][k] \in 0 .. MaxCommits
    BY DEF TypeInv, TypeOK
  <2> QED
    BY <2>1, <2>2, RunTypes DEF RestsOn
<1>3. CASE SameActor(a)
  <2>1. /\ (a \in Deploys => Commit(a)' = Commit(a))
        /\ RestsOn(a, source[a])' = RestsOn(a, source[a])
    BY <1>1, <1>3 DEF SameActor
  <2>2. \A x : Pending(a, x)' <=> Pending(a, x)
    BY <1>3 DEF SameActor, Pending
  <2>3. CASE /\ a \in Deploys
             /\ tip > Commit(a)
             /\ Pending(a, Call("tip", <<Commit(a), "checks">>))
    BY <1>0, <2>1, <2>2, <2>3
  <2>4. ASSUME NEW q \in RestsOn(a, source[a]), seen[a][q] # 0, seen[a][q] < attempt[q],
               Rechecked(a, q)
        PROVE  seen'[a][q] # 0 /\ seen'[a][q] < attempt'[q] /\ Rechecked(a, q)'
    <3>1. seen'[a][q] = seen[a][q] /\ source'[a] = source[a]
      BY <1>3 DEF SameActor
    <3>2. q \in Runs /\ seen[a][q] \in Nat
      BY <1>2 DEF TypeInv, TypeOK
    <3>3. seen[a][q] < attempt'[q]
      BY <2>4, <3>2, SuccessStays
    <3>4. Rechecked(a, q)'
      BY <2>1, <2>2, <2>4, <3>1 DEF Rechecked
    <3> QED
      BY <2>4, <3>1, <3>3, <3>4
  <2> QED
    BY <1>3, <2>1, <2>3, <2>4 DEF SameActor, CoherentInv
<1>4. CASE FreshActor(a)
  BY <1>4 DEF FreshActor
<1>5. CASE MakeCall(a) /\ (a \in Deploys => trigger'[a] = trigger[a])
  <2>0. /\ UNCHANGED <<attempt, status, tip>>
        /\ todo[a] # <<Failed>> /\ todo[a] \in Seq(Calls)
        /\ a \in Deploys => Commit(a)' = Commit(a)
    BY <1>5, FailedStays, CallsShift DEF MakeCall, world, Commit
  <2>1. PICK op \in Ops, r \in Runs : todo[a][1] = Call(op, r)
    BY <1>5, CallsShift
  <2>2. CASE op \notin Reads
    <3>1. UNCHANGED <<seen, source, coherent>>
      BY <1>5, <2>1, <2>2, CallAnswered DEF Reads, Ops
    <3>2. RestsOn(a, source[a])' = RestsOn(a, source[a])
      BY <1>1, <1>5, <3>1
    <3>3. CASE /\ a \in Deploys
               /\ tip > Commit(a)
               /\ Pending(a, Call("tip", <<Commit(a), "checks">>))
      <4> DEFINE x == Call("tip", <<Commit(a), "checks">>)
      <4>1. todo[a][1] # x
        <5>1. tip # Commit(a)
          BY <1>0, <3>3
        <5> QED
          BY <1>5, <5>1, CallAnswered
      <4>2. Pending(a, x)'
        <5>1. x' = x
          BY <2>0, <3>3
        <5> QED
          BY <1>5, <3>3, <4>1, <5>1, RecheckedOrAnswered
      <4> QED
        BY <2>0, <3>3, <4>2
    <3>4. ASSUME NEW q \in RestsOn(a, source[a]), seen[a][q] # 0, seen[a][q] < attempt[q],
                 Rechecked(a, q)
          PROVE  Rechecked(a, q)'
      <4>1. q \in Runs
        BY <1>2
      <4>2. CASE a \in Deploys
        BY <1>5, <2>0, <3>1, <3>4, <4>1, <4>2, StaleIsFound
      <4>3. CASE a \notin Deploys
        <5>1. Pending(a, Call("confirm", q))
          BY <3>4, <4>3 DEF Rechecked
        <5>2. ~Unchanged(q, seen[a][q])
          <6>1. seen[a][q] \in Nat /\ attempt[q] \in Nat
            BY <4>1, SuccessStays DEF TypeInv, TypeOK
          <6> QED
            BY <3>4, <6>1 DEF Unchanged
        <5>3. todo[a][1] # Call("confirm", q)
          BY <1>5, <5>2, CallAnswered
        <5> QED
          BY <1>5, <5>1, <5>3, RecheckedOrAnswered DEF Rechecked
      <4> QED
        BY <4>2, <4>3
    <3> QED
      BY <2>0, <3>1, <3>2, <3>3, <3>4 DEF CoherentInv
  <2>3. CASE op \in Reads
    <3>1. PICK from : Read(a, r, from)
      BY <1>5, <2>1, <2>3, CallAnswered DEF Reads
    <3>2. /\ source'[a] = from
          /\ coherent'[a] = (/\ a \in Deploys => tip = Commit(a)
                             /\ \A q \in RestsOn(a, from) :
                                   seen'[a][q] = 0 \/ Unchanged(q, seen'[a][q]))
      BY <3>1, ReadSeen
    <3>3. \A x \in Rechecks(a) : Pending(a, x)'
      <4> SUFFICES ASSUME NEW x \in Rechecks(a) PROVE Pending(a, x)'
        BY DEF Rechecks, Pending
      <4>1. todo[a][1].op = op /\ 1 \in 1 .. Len(todo[a])
        BY <1>5, <2>1, CallFields, CallMade
      <4>2. \E j \in 2 .. Len(todo[a]) : todo[a][j] = x
        BY <2>3, <4>1 DEF OrderInv, ReadsFirst
      <4>3. Pending(a, x)
        <5>1. \A j \in 2 .. Len(todo[a]) : j \in 1 .. Len(todo[a])
          OBVIOUS
        <5> QED
          BY <4>2, <5>1 DEF Pending
      <4>4. x # todo[a][1]
        <5>0. \E y, o : o \in {"confirm", "source", "tip"} /\ x = Call(o, y)
          BY DEF Rechecks
        <5>1. x.op \notin Reads
          BY <5>0, CallFields DEF Reads
        <5> QED
          BY <2>3, <4>1, <5>1
      <4> QED
        BY <1>5, <4>3, <4>4, RecheckedOrAnswered
    <3>4. CASE a \in Deploys /\ tip # Commit(a)
      <4>1. tip > Commit(a)
        BY <1>0, <3>4
      <4>2. Call("tip", <<Commit(a), "checks">>) \in Rechecks(a)
        BY <3>4, ActorKinds DEF Rechecks
      <4>3. Pending(a, Call("tip", <<Commit(a), "checks">>))'
        BY <2>0, <3>3, <3>4, <4>2 DEF Pending
      <4> QED
        BY <2>0, <3>4, <4>1, <4>3
    <3>5. ASSUME NEW q \in RestsOn(a, from), seen'[a][q] # 0, ~Unchanged(q, seen'[a][q])
          PROVE  /\ q \in RestsOn(a, source[a])'
                 /\ seen'[a][q] < attempt'[q] /\ Rechecked(a, q)'
      <4>1. RestsOn(a, source[a])' = RestsOn(a, from)
        <5>1. a \notin Kinds => Commit(a)' = Commit(a)
          BY <2>0, ActorKinds
        <5> QED
          BY <3>2, <5>1 DEF RestsOn
      <4>2. q \in Runs
        <5>1. a \notin Kinds => Commit(a) \in 0 .. MaxCommits
          <6>1. a \notin Kinds => a \in Deploys
            BY ActorKinds
          <6> QED
            BY <6>1, <1>0, PublicationAssumption DEF TypeInv, TypeOK
        <5>2. \A k \in Kinds : from[k] \in 0 .. MaxCommits
          BY <3>2 DEF TypeInv, TypeOK
        <5> QED
          BY <3>5, <5>1, <5>2, RunTypes DEF RestsOn
      <4>3. seen'[a][q] < attempt'[q]
        <5>1. /\ seen'[a][q] <= attempt'[q]
              /\ seen'[a][q] = attempt'[q] => status'[q] = "success"
          BY <3>5, <4>2, FailedCall DEF SeenInv
        <5>2. seen'[a][q] \in Nat /\ attempt'[q] \in Nat
          BY <4>2, SuccessStays DEF TypeInv, TypeOK
        <5> QED
          BY <2>0, <3>5, <5>1, <5>2 DEF Unchanged
      <4>4. Rechecked(a, q)'
        <5>1. CASE Call("confirm", q) \in Rechecks(a)
          BY <3>3, <5>1 DEF Rechecked
        <5>2. ASSUME NEW k \in Kinds, q = <<from[k], k>>, a \in Deploys
              PROVE  Rechecked(a, q)'
          <6>1. Call("source", <<Commit(a), k>>) \in Rechecks(a)
            BY <5>2, ActorKinds DEF Rechecks
          <6>2. Pending(a, Call("source", <<Commit(a), k>>))'
            BY <2>0, <3>3, <5>2, <6>1 DEF Pending
          <6> QED
            BY <3>2, <5>2, <6>2 DEF Rechecked
        <5>3. \/ Call("confirm", q) \in Rechecks(a)
              \/ a \in Deploys /\ \E k \in Kinds : q = <<from[k], k>>
          BY ActorKinds DEF RestsOn, Rechecks
        <5> QED
          BY <5>1, <5>2, <5>3
      <4> QED
        BY <3>5, <4>1, <4>3, <4>4
    <3> QED
      BY <3>2, <3>4, <3>5
  <2> QED
    BY <2>2, <2>3
<1> QED
  BY <1>3, <1>4, <1>5, ActorSteps

\* It all holds throughout.
LEMMA ConcludeInvariant == Spec => []ConcludeInv
<1>1. Init => ConcludeInv
  <2> SUFFICES ASSUME Init PROVE ConcludeInv
    OBVIOUS
  <2>1. OrderInv
    <3>1. \A a \in Actors : todo[a] = IF a \in Kinds THEN ReusablePair ELSE <<>>
      BY DEF Init
    <3>2. \A a \in Actors : a \in Kinds =>
             Rechecks(a) = {Call("confirm", <<0, k>>) : k \in Kinds}
      BY DEF Rechecks
    <3>3. ASSUME NEW a \in Actors PROVE ReadsFirst(todo[a], Rechecks(a))
      BY <3>1, <3>2, OpeningOrder
    <3> QED
      BY <3>3 DEF OrderInv
  <2>2. SeenInv
    BY DEF Init, SeenInv, Unseen
  <2>3. CoherentInv
    BY DEF Init, CoherentInv
  <2> QED
    BY <2>1, <2>2, <2>3 DEF ConcludeInv
<1>2. TypeInv /\ TypeInv' /\ ConcludeInv /\ [Next]_vars => ConcludeInv'
  BY OrderStep, SeenStep, CoherentStep DEF ConcludeInv
<1> QED
  BY <1>1, <1>2, TypeInvariant, PTL DEF Spec

\* An actor whose calls have all been answered has nothing left to look at again.
LEMMA AllAnswered ==
  ASSUME NEW a \in Actors, todo[a] = <<>>
  PROVE  /\ todo[a] # <<Failed>> /\ \A x : ~Pending(a, x)
         /\ CoherentInv => coherent[a]
<1>1. todo[a] # <<Failed>> /\ \A x : ~Pending(a, x)
  BY FailedCall DEF Pending
<1> QED
  BY <1>1 DEF CoherentInv, Rechecked

\* A Deploy run that goes on, or a select job that decides to reuse what the pull
\* request has verified, rests on what all was so when it read the last of it, for any
\* number of commits and Deploy runs, and however runs end, fail and are run again.
THEOREM ConclusionsAreCoherentTheorem == Spec => ConclusionsAreCoherent
<1> DEFINE
      Deployed == \A d \in Deploys :
             /\ phase[d] \in {"publication", "revalidation", "deployment"}
             /\ phase'[d] \in {"revalidation", "waiting", "deploying"}
             /\ phase'[d] # phase[d]
             => coherent[d]
      Selected == \A k \in Kinds :
             status[<<1, k>>] = "selecting" /\ mode'[<<1, k>>] = "reuse"
                /\ status'[<<1, k>>] = "running"
             => coherent[k] /\ \A j \in Kinds : <<1, j>> \in verified
<1>1. TypeInv /\ VerifiedInv /\ ConcludeInv /\ Next => Deployed /\ Selected
  <2> SUFFICES ASSUME TypeInv, VerifiedInv, ConcludeInv, Next
               PROVE  Deployed /\ Selected
    OBVIOUS
  <2>1. ASSUME NEW d \in Deploys,
               phase[d] \in {"publication", "revalidation", "deployment"},
               phase'[d] \in {"revalidation", "waiting", "deploying"},
               phase'[d] # phase[d]
        PROVE  coherent[d]
    <3>0. d \in Actors /\ Next
      BY DEF Actors
    <3>1. DeployStep(d)
      BY <2>1, <3>0, ActorSteps DEF SameActor
    <3>2. ~StartDeploy(d)
      BY <2>1 DEF StartDeploy
    <3>3. ~Deploy(d) /\ ~Defer(d)
      BY <2>1 DEF Deploy, Defer, Over, TypeInv, TypeOK
    <3>4. todo[d] = <<>>
      BY <3>1, <3>2, <3>3 DEF DeployStep, Revalidate, FinishBuild, StartDeployment,
                              FinishRevalidation, Advance
    <3> QED
      BY <3>0, <3>4, AllAnswered DEF ConcludeInv
  <2>2. ASSUME NEW k \in Kinds, status[<<1, k>>] = "selecting", mode'[<<1, k>>] = "reuse",
               status'[<<1, k>>] = "running"
        PROVE  coherent[k] /\ \A j \in Kinds : <<1, j>> \in verified
    <3>0. k \in Actors /\ <<1, k>> \in Runs /\ status[<<1, k>>] # "running"
      BY <2>2, RunTypes DEF Actors
    <3>1. ~\E rs \in SUBSET Runs : StartRuns(rs)
      <4> SUFFICES ASSUME NEW rs \in SUBSET Runs, StartRuns(rs) PROVE FALSE
        OBVIOUS
      <4>1. status'[<<1, k>>] \in {Starts(<<1, k>>), "failure", status[<<1, k>>]}
        BY <3>0 DEF StartRuns
      <4>2. Starts(<<1, k>>) = "selecting"
        BY DEF Starts
      <4> QED
        BY <2>2, <4>1, <4>2
    <3>2. ~Push /\ ~\E r \in Runs : Rerun(r)
      <4>1. ASSUME Push PROVE FALSE
        <5>1. {<<tip', j>> : j \in Kinds} \in SUBSET Runs
          BY <4>1, AttemptStep, RunTypes
        <5> QED
          BY <3>1, <4>1, <5>1 DEF Push
      <4> QED
        BY <3>1, <4>1 DEF Rerun
    <3>3. ~\E r \in Runs : Succeed(r) \/ Fail(r)
      BY <2>2, <3>0 DEF Succeed, Fail, TypeInv, TypeOK
    <3>4. status' # status
      BY <2>2, <3>0
    <3>5. PICK j \in Kinds : Select(j)
      BY <3>2, <3>3, <3>4
         DEF Next, MakeCall, Expire, StartDeploy, Revalidate, FinishBuild, StartDeployment,
             FinishRevalidation, Advance, Deploy, Defer, Over, world
    <3>6. j = k
      BY <2>2, <3>0, <3>5 DEF Select, TypeInv, TypeOK
    <3>7. todo[k] = <<>>
      BY <2>2, <3>0, <3>5, <3>6 DEF Select, TypeInv, TypeOK
    <3> QED
      BY <3>0, <3>7, AllAnswered DEF ConcludeInv, VerifiedInv, SelectInv
  <2> QED
    BY <2>1, <2>2
<1>2. TypeInv /\ VerifiedInv /\ ConcludeInv /\ [Next]_vars => [Deployed /\ Selected]_vars
  BY <1>1
<1> QED
  BY <1>2, TypeInvariant, VerifiedInvariant, ConcludeInvariant, PTL
     DEF Spec, ConclusionsAreCoherent

-----------------------------------------------------------------------------
(***************************************************************************)
(* What both workflows have verified is published: the run that begins     *)
(* when both have succeeded gets good answers to all its calls, which come *)
(* in an order in which each finds what it needs.                          *)
(***************************************************************************)

\* Readings of the pull request's runs, then another look at them, then readings of the
\* push runs, another look at these and at the runs the evidence is from, and the tip.
Rank(x) ==
    IF x.op = "verify" THEN 0
    ELSE IF x.op = "confirm" /\ x.run[1] = 0 THEN 1
    ELSE IF x.op = "latest" THEN 2
    ELSE IF x.op = "confirm" THEN 3
    ELSE IF x.op = "source" THEN 4 ELSE 5

\* Calls come in this order, but for a first look at the tip.
InOrder(calls) ==
    \A i, j \in 1 .. Len(calls) :
        i < j /\ calls[i].op # "tip" => Rank(calls[i]) <= Rank(calls[j])

\* The calls that the verification of commit c makes.
CallOf(x, c) ==
    \/ x = Call("tip", <<c, "checks">>)
    \/ \E k \in Kinds :
          \/ x = Call("latest", <<c, k>>) \/ x = Call("confirm", <<c, k>>)
          \/ x = Call("source", <<c, k>>)
          \/ x = Call("verify", <<0, k>>) \/ x = Call("confirm", <<0, k>>)

RankInv ==
    /\ \A a \in Actors : InOrder(todo[a])
    /\ \A d \in Deploys : \/ todo[d] = <<Failed>>
                          \/ \A i \in 1 .. Len(todo[d]) : CallOf(todo[d][i], Commit(d))
    /\ expected = [d \in Deploys |-> expected[d]]

\* The ranks of the calls there are.
LEMMA CallRanks ==
  /\ \A x : Rank(x) \in 0 .. 5
  /\ \A k \in Kinds : /\ Rank(Call("verify", <<0, k>>)) = 0
                      /\ Rank(Call("confirm", <<0, k>>)) = 1
  /\ \A c, k : /\ Rank(Call("latest", <<c, k>>)) = 2
               /\ c # 0 => Rank(Call("confirm", <<c, k>>)) = 3
               /\ Rank(Call("source", <<c, k>>)) = 4
               /\ Rank(Call("tip", <<c, k>>)) = 5
<1>1. \A x : Rank(x) \in 0 .. 5
  BY DEF Rank
<1>2. \A c, k : <<c, k>>[1] = c
  OBVIOUS
<1> QED
  BY <1>1, <1>2, CallFields DEF Rank

\* The calls an actor begins with are in order.
LEMMA OpeningRanks ==
  /\ InOrder(<<>>) /\ InOrder(<<Failed>>) /\ InOrder(ReusablePair)
  /\ \A i \in 1 .. 4 : Rank(ReusablePair[i]) <= 1
  /\ \A c \in 1 .. MaxCommits : InOrder(PublicationPair(c))
<1>1. InOrder(<<>>) /\ InOrder(<<Failed>>)
  <2>1. Len(<<>>) = 0 /\ Len(<<Failed>>) = 1
    BY FailedCall, EmptySeq
  <2>2. \A i, j \in 1 .. 1 : ~(i < j)
    OBVIOUS
  <2>3. \A i, j \in 1 .. 0 : ~(i < j)
    OBVIOUS
  <2> QED
    BY <2>1, <2>2, <2>3 DEF InOrder
<1>2. /\ Rank(ReusablePair[1]) = 0 /\ Rank(ReusablePair[2]) = 0
      /\ Rank(ReusablePair[3]) = 1 /\ Rank(ReusablePair[4]) = 1
  BY ReusableCalls, CallRanks, RunTypes
<1>3. \A i \in 1 .. 4 : i = 1 \/ i = 2 \/ i = 3 \/ i = 4
  OBVIOUS
<1>4. \A i \in 1 .. 4 : Rank(ReusablePair[i]) <= 1
  BY <1>2, <1>3
<1>5. InOrder(ReusablePair)
  <2>1. \A i, j \in 1 .. 4 : i < j => Rank(ReusablePair[i]) <= Rank(ReusablePair[j])
    BY <1>2, <1>3
  <2> QED
    BY <2>1, ReusableCalls DEF InOrder
<1>6. ASSUME NEW c \in 1 .. MaxCommits PROVE InOrder(PublicationPair(c))
  <2> DEFINE s == PublicationPair(c)
  <2>1. c \in 0 .. MaxCommits /\ c # 0
    BY PublicationAssumption
  <2>2. /\ s[1].op = "tip" /\ Len(s) = 8
        /\ Rank(s[2]) = 2 /\ Rank(s[3]) = 2 /\ Rank(s[4]) = 3 /\ Rank(s[5]) = 3
        /\ Rank(s[6]) = 4 /\ Rank(s[7]) = 4 /\ Rank(s[8]) = 5
    <3>1. /\ Len(s) = 8 /\ s[1] = Call("tip", <<c, "checks">>)
          /\ \E k : s[2] = Call("latest", <<c, k>>)
          /\ \E k : s[3] = Call("latest", <<c, k>>)
          /\ \E k : s[4] = Call("confirm", <<c, k>>)
          /\ \E k : s[5] = Call("confirm", <<c, k>>)
          /\ \E k : s[6] = Call("source", <<c, k>>)
          /\ \E k : s[7] = Call("source", <<c, k>>)
          /\ \E k : s[8] = Call("tip", <<c, k>>)
      BY <2>1, PublicationCalls
    <3> HIDE DEF s
    <3>2. s[1].op = "tip"
      BY <3>1, CallFields
    <3> QED
      BY <2>1, <3>1, <3>2, CallRanks
  <2> HIDE DEF s
  <2>3. \A i \in 1 .. 8 : i = 1 \/ i = 2 \/ i = 3 \/ i = 4 \/ i = 5 \/ i = 6 \/ i = 7 \/ i = 8
    OBVIOUS
  <2>4. \A i, j \in 1 .. 8 : i < j /\ i # 1 => Rank(s[i]) <= Rank(s[j])
    BY <2>2, <2>3
  <2>5. InOrder(s)
    BY <2>2, <2>4 DEF InOrder
  <2> QED
    BY <2>5 DEF s
<1> QED
  BY <1>1, <1>4, <1>5, <1>6

\* The order is kept when a reading of a push run leads to those of the pull request's.
LEMMA RanksKept ==
  ASSUME NEW s \in Seq(Calls), s # <<>>, NEW calls \in {<<>>, ReusablePair},
         calls = ReusablePair => s[1].op = "latest", InOrder(s)
  PROVE  InOrder(calls \o Tail(s))
<1> DEFINE t == calls \o Tail(s)
           n == Len(calls)
<1>1. /\ Len(s) \in Nat /\ Len(s) >= 1 /\ n \in {0, 4}
      /\ Len(t) = n + Len(s) - 1
      /\ \A i \in 1 .. n : t[i] = calls[i]
      /\ \A j \in 2 .. Len(s) : t[n + j - 1] = s[j]
  BY Shifted
<1>2. n # 0 => calls = ReusablePair
  BY EmptySeq
<1> HIDE DEF t, n
<1> SUFFICES ASSUME NEW i \in 1 .. Len(t), NEW j \in 1 .. Len(t), i < j, t[i].op # "tip"
             PROVE  Rank(t[i]) <= Rank(t[j])
  BY DEF InOrder, t
<1>3. \A m \in 1 .. Len(t) : m > n => /\ m - n + 1 \in 2 .. Len(s)
                                      /\ m - n + 1 \in 1 .. Len(s)
                                      /\ t[m] = s[m - n + 1]
  <2> SUFFICES ASSUME NEW m \in 1 .. Len(t), m > n
               PROVE  /\ m - n + 1 \in 2 .. Len(s)
                      /\ m - n + 1 \in 1 .. Len(s)
                      /\ t[m] = s[m - n + 1]
    OBVIOUS
  <2>1. /\ m - n + 1 \in 2 .. Len(s) /\ m - n + 1 \in 1 .. Len(s)
        /\ n + (m - n + 1) - 1 = m
    BY <1>1
  <2> QED
    BY <1>1, <2>1
<1>4. CASE i > n
  <2>1. j > n /\ i - n + 1 < j - n + 1
    BY <1>1, <1>4
  <2> QED
    BY <1>3, <1>4, <2>1 DEF InOrder
<1>5. CASE j <= n
  <2>1. i \in 1 .. n /\ j \in 1 .. n /\ n = 4 /\ calls = ReusablePair
    BY <1>1, <1>2, <1>5
  <2>2. t[i] = ReusablePair[i] /\ t[j] = ReusablePair[j]
    BY <1>1, <2>1
  <2>3. Len(ReusablePair) = 4
    BY ReusableCalls
  <2> QED
    BY <2>1, <2>2, <2>3, OpeningRanks DEF InOrder
<1>6. CASE i <= n /\ j > n
  <2>1. i \in 1 .. 4 /\ n = 4 /\ calls = ReusablePair
    BY <1>1, <1>2, <1>6
  <2>2. Rank(t[i]) <= 1
    BY <1>1, <2>1, OpeningRanks
  <2>3. s[1].op = "latest" /\ 1 \in 1 .. Len(s)
    BY <1>1, <2>1
  <2>4. Rank(s[1]) = 2
    BY <2>3 DEF Rank
  <2>5. /\ j - n + 1 \in 1 .. Len(s) /\ t[j] = s[j - n + 1] /\ 1 < j - n + 1
    BY <1>1, <1>3, <1>6
  <2>6. Rank(s[1]) <= Rank(t[j])
    BY <2>3, <2>5 DEF InOrder
  <2>7. Rank(t[i]) \in 0 .. 5 /\ Rank(t[j]) \in 0 .. 5
    BY CallRanks
  <2> QED
    BY <2>2, <2>4, <2>6, <2>7
<1> QED
  BY <1>1, <1>4, <1>5, <1>6

\* The calls of a commit, when a run begins with them.
LEMMA OpeningCalls ==
  /\ \A i \in 1 .. Len(ReusablePair) : \A c : CallOf(ReusablePair[i], c)
  /\ \A c \in 0 .. MaxCommits : \A i \in 1 .. Len(PublicationPair(c)) :
        /\ CallOf(PublicationPair(c)[i], c)
        /\ \A k : PublicationPair(c)[i] # Call("verify", <<0, k>>)
        /\ c # 0 => \A k : PublicationPair(c)[i] # Call("confirm", <<0, k>>)
  /\ \A c : ~CallOf(Failed, c)
<1>1. ASSUME NEW c, NEW x, CallOf(x, c) PROVE x.op # "failed"
  <2>1. CASE x = Call("tip", <<c, "checks">>)
    BY <2>1, CallFields
  <2>2. ASSUME NEW k \in Kinds,
               \/ x = Call("latest", <<c, k>>) \/ x = Call("confirm", <<c, k>>)
               \/ x = Call("source", <<c, k>>)
               \/ x = Call("verify", <<0, k>>) \/ x = Call("confirm", <<0, k>>)
        PROVE  x.op # "failed"
    BY <2>2, CallFields
  <2> QED
    BY <1>1, <2>1, <2>2 DEF CallOf
<1>2. ASSUME NEW i \in 1 .. Len(ReusablePair), NEW c PROVE CallOf(ReusablePair[i], c)
  <2>1. \A m \in 1 .. 4 : m = 1 \/ m = 2 \/ m = 3 \/ m = 4
    OBVIOUS
  <2>2. \E k \in Kinds : \/ ReusablePair[i] = Call("verify", <<0, k>>)
                         \/ ReusablePair[i] = Call("confirm", <<0, k>>)
    BY <2>1, ReusableCalls, RunTypes
  <2> QED
    BY <2>2 DEF CallOf
<1>3. ASSUME NEW c \in 0 .. MaxCommits, NEW i \in 1 .. Len(PublicationPair(c))
      PROVE  /\ CallOf(PublicationPair(c)[i], c)
             /\ \A k : PublicationPair(c)[i] # Call("verify", <<0, k>>)
             /\ c # 0 => \A k : PublicationPair(c)[i] # Call("confirm", <<0, k>>)
  <2> DEFINE x == PublicationPair(c)[i]
  <2>1. \A m \in 1 .. 8 : m = 1 \/ m = 2 \/ m = 3 \/ m = 4 \/ m = 5 \/ m = 6 \/ m = 7 \/ m = 8
    OBVIOUS
  <2>2. \/ x = Call("tip", <<c, "checks">>)
        \/ \E k \in Kinds : \/ x = Call("latest", <<c, k>>) \/ x = Call("confirm", <<c, k>>)
                            \/ x = Call("source", <<c, k>>)
    BY <2>1, PublicationCalls, RunTypes
  <2> HIDE DEF x
  <2>3. CallOf(x, c)
    BY <2>2 DEF CallOf
  <2>0. /\ x.op \in {"tip", "latest", "confirm", "source"}
        /\ x.op = "confirm" => \E k : x.run = <<c, k>>
    <3>1. CASE x = Call("tip", <<c, "checks">>)
      BY <3>1, CallFields
    <3>2. ASSUME NEW k \in Kinds,
                 \/ x = Call("latest", <<c, k>>) \/ x = Call("confirm", <<c, k>>)
                 \/ x = Call("source", <<c, k>>)
          PROVE  /\ x.op \in {"latest", "confirm", "source"}
                 /\ x.run = <<c, k>>
      BY <3>2, CallFields
    <3> QED
      BY <2>2, <3>1, <3>2
  <2>4. \A k : x # Call("verify", <<0, k>>)
    BY <2>0, CallFields
  <2>5. ASSUME c # 0, NEW k PROVE x # Call("confirm", <<0, k>>)
    <3>1. x.op = "confirm" => x.run[1] = c
      BY <2>0
    <3>2. Call("confirm", <<0, k>>).op = "confirm" /\ Call("confirm", <<0, k>>).run[1] = 0
      BY CallFields
    <3> QED
      BY <2>5, <3>1, <3>2
  <2> QED
    BY <2>3, <2>4, <2>5 DEF x
<1> QED
  BY <1>1, <1>2, <1>3, FailedCall

\* A call that is pending after another was answered was so before, or has come with it.
LEMMA CameOrPending ==
  ASSUME NEW a \in Actors, todo[a] \in Seq(Calls), NEW calls \in {<<>>, ReusablePair},
         Well(a, calls), NEW i \in 1 .. Len(todo'[a])
  PROVE  \/ \E m \in 1 .. Len(calls) : todo'[a][i] = calls[m]
         \/ \E j \in 2 .. Len(todo[a]) : j \in 1 .. Len(todo[a]) /\ todo'[a][i] = todo[a][j]
<1>1. /\ Len(todo[a]) \in Nat /\ Len(todo[a]) >= 1 /\ Len(calls) \in {0, 4}
      /\ Len(todo'[a]) = Len(calls) + Len(todo[a]) - 1
      /\ \A m \in 1 .. Len(calls) : todo'[a][m] = calls[m]
      /\ \A j \in 2 .. Len(todo[a]) : todo'[a][Len(calls) + j - 1] = todo[a][j]
  <2>1. todo[a] # <<>> /\ todo'[a] = calls \o Tail(todo[a])
    BY DEF Well
  <2> QED
    BY <2>1, Shifted
<1>2. CASE i <= Len(calls)
  <2>1. i \in 1 .. Len(calls)
    BY <1>1, <1>2
  <2> QED
    BY <1>1, <2>1
<1>3. CASE i > Len(calls)
  <2>1. /\ i - Len(calls) + 1 \in 2 .. Len(todo[a])
        /\ i - Len(calls) + 1 \in 1 .. Len(todo[a])
        /\ Len(calls) + (i - Len(calls) + 1) - 1 = i
    BY <1>1, <1>3
  <2> QED
    BY <1>1, <2>1
<1> QED
  BY <1>1, <1>2, <1>3

\* What a Deploy run has found does not change unless it goes on.
LEMMA ExpectedStep ==
  ASSUME expected = [d \in Deploys |-> expected[d]], [Next]_vars
  PROVE  /\ expected' = [d \in Deploys |-> expected'[d]]
         /\ \A d \in Deploys : ~DeployStep(d) => expected'[d] = expected[d]
<1>1. ASSUME NEW e \in Deploys, DeployStep(e), ~StartDeploy(e)
      PROVE  \E v : expected' = [expected EXCEPT ![e] = v]
  BY <1>1 DEF DeployStep, Revalidate, FinishBuild, StartDeployment, FinishRevalidation,
              Advance, Deploy, Defer, Over
<1>2. ASSUME NEW e \in Deploys, StartDeploy(e) PROVE expected' = expected
  BY <1>2 DEF StartDeploy
<1>3. CASE ~\E e \in Deploys : DeployStep(e)
  <2>1. expected' = expected
    BY <1>3 DEF Next, DeployStep, MakeCall, Select, Succeed, Fail, Rerun, Push, Expire,
                deploys, vars
  <2> QED
    BY <2>1
<1> QED
  BY <1>1, <1>2, <1>3

\* The order is kept by every step.
LEMMA RankStep ==
  ASSUME TypeInv, TypeInv', RankInv, [Next]_vars
  PROVE  RankInv'
<1>1. ASSUME NEW a \in Actors
      PROVE  /\ InOrder(todo'[a])
             /\ a \in Deploys => \/ todo'[a] = <<Failed>>
                                 \/ \A i \in 1 .. Len(todo'[a]) :
                                       CallOf(todo'[a][i], Commit(a)')
  <2>1. CASE SameActor(a)
    <3>1. a \in Deploys => Commit(a)' = Commit(a)
      BY <2>1 DEF SameActor, Commit
    <3> QED
      BY <2>1, <3>1 DEF SameActor, RankInv
  <2>2. CASE MakeCall(a) /\ (a \in Deploys => trigger'[a] = trigger[a])
    <3>1. CASE todo'[a] = <<Failed>>
      BY <3>1, OpeningRanks
    <3>2. CASE todo'[a] # <<Failed>>
      <4>1. PICK calls \in {<<>>, ReusablePair} :
               /\ Well(a, calls)
               /\ calls = ReusablePair => todo[a][1].op = "latest"
        <5>1. PICK op \in Ops, r \in Runs : todo[a][1] = Call(op, r)
          BY <2>2, <3>2, CallsShift
        <5>2. todo[a][1].op = op
          BY <5>1, CallFields
        <5>3. op = "latest" => \E calls \in {<<>>, ReusablePair} : Well(a, calls)
          BY <2>2, <3>2, CallsShift
        <5>4. op # "latest" => Well(a, <<>>)
          BY <2>2, <3>2, <5>1, CallAnswered
        <5>5. <<>> # ReusablePair
          BY ReusableCalls, EmptySeq
        <5> QED
          BY <5>2, <5>3, <5>4, <5>5
      <4>2. todo[a] \in Seq(Calls) /\ todo[a] # <<>> /\ todo[a] # <<Failed>>
        BY <2>2, <3>2, CallsShift
      <4>3. InOrder(todo'[a])
        BY <4>1, <4>2, RanksKept DEF Well, RankInv
      <4>4. ASSUME a \in Deploys, NEW i \in 1 .. Len(todo'[a])
            PROVE  CallOf(todo'[a][i], Commit(a)')
        <5>1. Commit(a)' = Commit(a)
          BY <2>2, <4>4 DEF Commit
        <5>2. \A j \in 1 .. Len(todo[a]) : CallOf(todo[a][j], Commit(a))
          BY <4>2, <4>4 DEF RankInv
        <5>3. \A m \in 1 .. Len(calls) : CallOf(calls[m], Commit(a))
          <6>1. \A m \in 1 .. 0 : FALSE
            OBVIOUS
          <6> QED
            BY <4>1, <6>1, OpeningCalls, EmptySeq
        <5>4. \/ \E m \in 1 .. Len(calls) : todo'[a][i] = calls[m]
              \/ \E j \in 1 .. Len(todo[a]) : todo'[a][i] = todo[a][j]
          BY <4>1, <4>2, <4>4, CameOrPending
        <5> QED
          BY <5>1, <5>2, <5>3, <5>4
      <4> QED
        BY <4>3, <4>4
    <3> QED
      BY <3>1, <3>2
  <2>3. CASE FreshActor(a) /\ a \in Kinds
    BY <2>3, OpeningRanks, ActorKinds DEF FreshActor, Opening
  <2>4. CASE a \in Deploys /\ FreshActor(a) /\ DeployStep(a)
    <3>1. todo'[a] = <<>> \/ todo'[a] = PublicationPair(Commit(a)')
      BY <2>4, ActorKinds DEF FreshActor, Opening
    <3>2. CASE todo'[a] = <<>>
      <4>1. \A i \in 1 .. Len(<<>>) : FALSE
        BY EmptySeq
      <4> QED
        BY <3>2, <4>1, OpeningRanks
    <3>3. CASE todo'[a] = PublicationPair(Commit(a)') /\ todo'[a] # <<>>
      <4>1. phase'[a] # "idle"
        <5>1. CASE Deploy(a) \/ Defer(a)
          <6>1. todo'[a] = <<>>
            BY <2>4, <5>1, BeginOne DEF Deploy, Defer, Over
          <6> QED
            BY <3>3, <6>1
        <5>2. CASE ~(Deploy(a) \/ Defer(a))
          BY <2>4, <5>2 DEF DeployStep, StartDeploy, Revalidate, FinishBuild, StartDeployment,
                            FinishRevalidation, Advance, TypeInv, TypeOK
        <5> QED
          BY <5>1, <5>2
      <4>2. Commit(a)' \in 1 .. MaxCommits /\ Commit(a)' \in 0 .. MaxCommits
        <5>1. Commit(a)' # 0 /\ Commit(a)' \in 0 .. tip' /\ tip' \in 0 .. MaxCommits
          BY <2>4, <4>1 DEF TypeInv, StartedInv, Inv, CommitInv, TypeOK
        <5> QED
          BY <5>1, PublicationAssumption
      <4> QED
        BY <3>3, <4>2, OpeningRanks, OpeningCalls
    <3> QED
      BY <3>1, <3>2, <3>3
  <2>5. a \in Kinds \/ a \in Deploys
    BY DEF Actors
  <2> QED
    BY <2>1, <2>2, <2>3, <2>4, <2>5, ActorSteps
<1>2. \A d \in Deploys : d \in Actors
  BY DEF Actors
<1> QED
  BY <1>1, <1>2, ExpectedStep, FailedCall DEF RankInv

-----------------------------------------------------------------------------
\* Both runs of the pull request are verified.
Reusable == \A k \in Kinds : HasEvidence(<<0, k>>)

\* While nobody has touched the pull request's runs or an artifact, what has succeeded
\* has its evidence, also what a run that reuses it rests on.
QuietInv ==
    /\ \A r \in Runs : r[1] # 0 => mode[r] \in {"full", "reuse"}
    /\ touched = 0 =>
          /\ \A k \in Kinds : status[<<0, k>>] = "success"
          /\ \A r \in Runs :
                r[1] # 0 /\ status[r] = "success" /\ mode[r] = "full" => HasEvidence(r)
          /\ (\E r \in Runs : mode[r] = "reuse") => Reusable
          /\ \A k \in Kinds :
                \/ todo[k] = <<Failed>>
                \/ \A j \in Kinds : \/ HasEvidence(<<0, j>>)
                                    \/ Pending(k, Call("verify", <<0, j>>))

\* A run that has succeeded after a step had so before, or does so by this step.
LEMMA SuccessSteps ==
  ASSUME TypeInv, [Next]_vars, NEW r \in Runs, status'[r] = "success"
  PROVE  \/ status[r] = "success" /\ attempt'[r] = attempt[r] /\ mode'[r] = mode[r]
         \/ Succeed(r)
<1>1. ASSUME NEW rs \in SUBSET Runs, StartRuns(rs)
      PROVE  status[r] = "success" /\ attempt'[r] = attempt[r]
  <2>1. r \notin rs
    BY <1>1, StartTypes DEF TypeInv
  <2> QED
    BY <1>1, <2>1, StartTypes DEF TypeInv
<1>2. CASE Push
  <2>1. {<<tip', k>> : k \in Kinds} \in SUBSET Runs
    BY AttemptStep, RunTypes
  <2> QED
    BY <1>1, <1>2, <2>1 DEF Push
<1>3. CASE \E q \in Runs : Rerun(q)
  BY <1>1, <1>3 DEF Rerun
<1>4. ASSUME NEW q \in Runs, Succeed(q) \/ Fail(q), ~Succeed(r)
      PROVE  status[r] = "success" /\ attempt'[r] = attempt[r] /\ mode'[r] = mode[r]
  BY <1>4 DEF Succeed, Fail, TypeInv, TypeOK
<1>5. ASSUME NEW k \in Kinds, Select(k)
      PROVE  status[r] = "success" /\ attempt'[r] = attempt[r] /\ mode'[r] = mode[r]
  <2>1. r # <<1, k>>
    BY <1>5 DEF Select, TypeInv, TypeOK
  <2> QED
    BY <1>5, <2>1 DEF Select, TypeInv, TypeOK
<1>6. CASE UNCHANGED <<status, attempt, mode>>
  BY <1>6
<1>7. \/ Push \/ \E q \in Runs : Rerun(q)
      \/ \E q \in Runs : Succeed(q) \/ Fail(q)
      \/ \E k \in Kinds : Select(k)
      \/ UNCHANGED <<status, attempt, mode>>
  BY DEF Next, MakeCall, Expire, StartDeploy, Revalidate, FinishBuild, StartDeployment,
         FinishRevalidation, Advance, Deploy, Defer, Over, world, vars
<1> QED
  BY <1>2, <1>3, <1>4, <1>5, <1>6, <1>7

\* While nothing is touched the pull request's runs stay, and so does their evidence.
LEMMA QuietWorld ==
  ASSUME TypeInv, QuietInv, [Next]_vars, touched' = 0
  PROVE  /\ touched = 0 /\ evidence \subseteq evidence' /\ tree' = tree
         /\ \A k \in Kinds : /\ status'[<<0, k>>] = "success"
                             /\ attempt'[<<0, k>>] = attempt[<<0, k>>]
         /\ \A k \in Kinds : HasEvidence(<<0, k>>) => HasEvidence(<<0, k>>)'
<1>1. touched = 0 /\ ~Expire /\ \A r \in Runs : Rerun(r) => r[1] # 0
  <2>1. ~Expire
    BY DEF Expire
  <2>2. \A r \in Runs : Rerun(r) => r[1] # 0 /\ touched' = touched
    BY DEF Rerun
  <2>3. touched' = touched \/ Expire \/ \E r \in Runs : Rerun(r)
    BY DEF Next, MakeCall, Select, Succeed, Fail, Push, StartDeploy,
           Revalidate, FinishBuild, StartDeployment, FinishRevalidation, Advance, Deploy,
           Defer, Over, history, vars
  <2> QED
    BY <2>1, <2>2, <2>3
<1>2. evidence \subseteq evidence'
  BY <1>1 DEF Next, MakeCall, Select, Succeed, Fail, Rerun, Push, StartDeploy,
         Revalidate, FinishBuild, StartDeployment, FinishRevalidation, Advance, Deploy,
         Defer, Over, world, vars
<1>3. ASSUME NEW r \in Runs, r[1] = 0
      PROVE  status'[r] = "success" /\ attempt'[r] = attempt[r]
  <2>0. r[1] = 0 /\ status[r] = "success"
    <3>1. r = <<0, r[2]>> /\ r[2] \in Kinds
      BY <1>3, RunTypes
    <3> QED
      BY <1>1, <1>3, <3>1 DEF QuietInv
  <2>1. ASSUME NEW rs \in SUBSET Runs, StartRuns(rs), r \notin rs
        PROVE  status'[r] = "success" /\ attempt'[r] = attempt[r]
    BY <2>0, <2>1, StartTypes DEF TypeInv, InProgress
  <2>2. CASE Push
    <3>1. {<<tip', j>> : j \in Kinds} \in SUBSET Runs
      BY AttemptStep, RunTypes
    <3>2. tip' # 0
      <4>1. tip' = tip + 1 /\ tip \in Nat
        BY <2>2 DEF Push, TypeInv, Inv, CommitInv
      <4> QED
        BY <4>1
    <3>3. r \notin {<<tip', j>> : j \in Kinds}
      BY <2>0, <3>2
    <3> QED
      BY <2>1, <2>2, <3>1, <3>3 DEF Push
  <2>3. ASSUME NEW q \in Runs, Rerun(q)
        PROVE  status'[r] = "success" /\ attempt'[r] = attempt[r]
    <3>1. q # r
      BY <1>1, <2>0, <2>3
    <3> QED
      BY <2>1, <2>3, <3>1 DEF Rerun
  <2>4. ASSUME NEW q \in Runs, Succeed(q) \/ Fail(q)
        PROVE  status'[r] = "success" /\ attempt'[r] = attempt[r]
    BY <2>0, <2>4 DEF Succeed, Fail, InProgress, TypeInv, TypeOK
  <2>5. ASSUME NEW j \in Kinds, Select(j)
        PROVE  status'[r] = "success" /\ attempt'[r] = attempt[r]
    <3>1. r # <<1, j>>
      BY <2>0
    <3> QED
      BY <2>0, <2>5, <3>1 DEF Select, TypeInv, TypeOK
  <2>6. CASE UNCHANGED <<status, attempt>>
    BY <2>0, <2>6
  <2>7. \/ Push \/ \E q \in Runs : Rerun(q)
        \/ \E q \in Runs : Succeed(q) \/ Fail(q)
        \/ \E j \in Kinds : Select(j)
        \/ UNCHANGED <<status, attempt>>
    BY DEF Next, MakeCall, Expire, StartDeploy, Revalidate, FinishBuild, StartDeployment,
           FinishRevalidation, Advance, Deploy, Defer, Over, world, vars
  <2> QED
    BY <2>2, <2>3, <2>4, <2>5, <2>6, <2>7
<1>4. tree' = tree
  BY VerifiedStays
<1>5. \A k \in Kinds : /\ status'[<<0, k>>] = "success"
                      /\ attempt'[<<0, k>>] = attempt[<<0, k>>]
  BY <1>3, RunTypes
<1> QED
  BY <1>1, <1>2, <1>4, <1>5 DEF HasEvidence, SameTree

\* Evidence stays as long as nothing is touched, and comes with every success.
LEMMA QuietStep ==
  ASSUME TypeInv, QuietInv, [Next]_vars
  PROVE  QuietInv'
<1>0. \A k \in Kinds : k \in Actors /\ k \notin Deploys
  BY ActorKinds DEF Actors
<1>1. \A r \in Runs :
         mode'[r] # mode[r] => /\ mode'[r] \in {"full", "reuse"}
                               /\ mode'[r] = "reuse" =>
                                     \E k \in Kinds : Select(k) /\ todo[k] = <<>>
  <2>1. ASSUME NEW k \in Kinds, Select(k), NEW r \in Runs, mode'[r] # mode[r]
        PROVE  /\ mode'[r] \in {"full", "reuse"}
               /\ mode'[r] = "reuse" => todo[k] = <<>>
    BY <2>1 DEF Select, TypeInv, TypeOK
  <2>2. (~\E k \in Kinds : Select(k)) => mode' = mode
    BY DEF Next, MakeCall, Succeed, Fail, Rerun, Push, Expire, StartDeploy, Revalidate,
           FinishBuild, StartDeployment, FinishRevalidation, Advance, Deploy, Defer, Over,
           world, vars
  <2> QED
    BY <2>1, <2>2
<1>2. \A r \in Runs : r[1] # 0 => mode'[r] \in {"full", "reuse"}
  BY <1>1 DEF QuietInv
<1>3. ASSUME touched' = 0
      PROVE  /\ \A k \in Kinds : status'[<<0, k>>] = "success"
             /\ Reusable => Reusable'
  BY <1>3, QuietWorld DEF Reusable
<1>4. ASSUME touched' = 0, NEW r \in Runs, r[1] # 0, status'[r] = "success",
             mode'[r] = "full"
      PROVE  HasEvidence(r)'
  <2>1. CASE Succeed(r)
    <3>1. mode[r] = "full" /\ attempt' = attempt /\ <<r, attempt[r]>> \in evidence'
      BY <1>4, <2>1 DEF Succeed, ThisAttempt
    <3> QED
      BY <1>4, <3>1 DEF HasEvidence, SameTree
  <2>2. CASE status[r] = "success" /\ attempt'[r] = attempt[r] /\ mode'[r] = mode[r]
    <3>1. <<r, attempt[r]>> \in evidence
      BY <1>4, <2>2, QuietWorld DEF QuietInv, HasEvidence
    <3>2. <<r, attempt'[r]>> \in evidence'
      BY <1>4, <2>2, <3>1, QuietWorld
    <3> QED
      BY <1>4, <3>2 DEF HasEvidence, SameTree
  <2> QED
    BY <1>4, <2>1, <2>2, SuccessSteps
<1>5. ASSUME touched' = 0, NEW r \in Runs, mode'[r] = "reuse" PROVE Reusable'
  <2>1. CASE mode[r] = "reuse"
    BY <1>3, <1>5, <2>1, QuietWorld DEF QuietInv
  <2>2. ASSUME NEW k \in Kinds, todo[k] = <<>> PROVE Reusable
    <3>1. todo[k] # <<Failed>> /\ \A x : ~Pending(k, x)
      BY <1>0, <2>2, AllAnswered
    <3> QED
      BY <1>5, <3>1, QuietWorld DEF QuietInv, Reusable
  <2> QED
    BY <1>1, <1>3, <1>5, <2>1, <2>2
<1>6. ASSUME touched' = 0, NEW k \in Kinds, todo'[k] # <<Failed>>, NEW j \in Kinds
      PROVE  HasEvidence(<<0, j>>)' \/ Pending(k, Call("verify", <<0, j>>))'
  <2> DEFINE x == Call("verify", <<0, j>>)
  <2>1. CASE SameActor(k)
    <3>1. todo'[k] = todo[k]
      BY <2>1 DEF SameActor
    <3>2. Pending(k, x) => Pending(k, x)'
      BY <3>1 DEF Pending
    <3>3. HasEvidence(<<0, j>>) \/ Pending(k, x)
      BY <1>6, <3>1, QuietWorld DEF QuietInv
    <3> QED
      BY <1>6, <3>2, <3>3, QuietWorld
  <2>2. CASE FreshActor(k)
    <3>1. todo'[k] = ReusablePair
      BY <1>6, <2>2 DEF FreshActor, Opening
    <3> QED
      BY <1>6, <3>1, OpeningAsks DEF Pending
  <2>3. CASE MakeCall(k)
    <3>1. k \in Actors /\ todo[k] # <<Failed>>
      BY <1>0, <1>6, <2>3, FailedStays
    <3>2. HasEvidence(<<0, j>>) \/ Pending(k, x)
      BY <1>6, <3>1, QuietWorld DEF QuietInv
    <3>3. Pending(k, x) => Pending(k, x)' \/ todo[k][1] = x
      BY <1>6, <2>3, <3>1, RecheckedOrAnswered
    <3>4. todo[k][1] = x => HasEvidence(<<0, j>>)
      BY <1>6, <2>3, <3>1, CallAnswered
    <3> QED
      BY <1>6, <3>2, <3>3, <3>4, QuietWorld
  <2> QED
    BY <1>0, <1>6, <2>1, <2>2, <2>3, ActorSteps
<1> QED
  BY <1>2, <1>3, <1>4, <1>5, <1>6, FailedCall DEF QuietInv

-----------------------------------------------------------------------------
\* Both workflows have verified the tip, undisturbed.
TipVerified == tip # 0 /\ touched = 0 /\ \A k \in Kinds : status[<<tip, k>>] = "success"

\* Where the evidence of a workflow for the tip is from.
From(k) == IF mode[<<tip, k>>] = "reuse" THEN 0 ELSE tip

\* What a Deploy run for the tip will find.
Right == [r \in {<<tip, k>> : k \in Kinds} \cup {<<From(k), k>> : k \in Kinds} |-> attempt[r]]

\* The pull request's run is read or will be.
Asked(d, k) == Pending(d, Call("verify", <<0, k>>)) \/ seen[d][<<0, k>>] # 0

\* The push run of the tip is read, and the run its evidence is from is or will be.
LatestRead(d, k) ==
    /\ seen[d][<<tip, k>>] # 0
    /\ source[d][k] = From(k)
    /\ From(k) = 0 => \A j \in Kinds : Asked(d, j)

\* A Deploy run that will publish the tip ...
Good(d) ==
    /\ phase[d] # "idle" /\ todo[d] # <<Failed>>
    /\ \E k \in Kinds : trigger[d] = <<tip, k, attempt[<<tip, k>>]>>
    \* ... what it has read is still so,
    /\ \A k \in Kinds : \A c \in {0, tip} : seen[d][<<c, k>>] \in {0, attempt[<<c, k>>]}
    \* all that it needs is read or will be,
    /\ \/ todo[d] = <<>> /\ phase[d] \in {"waiting", "deploying"}
       \/ \A k \in Kinds : Pending(d, Call("latest", <<tip, k>>)) \/ LatestRead(d, k)
    /\ \A k \in Kinds : Pending(d, Call("confirm", <<0, k>>)) => Asked(d, k)
    /\ \A i, j \in Kinds : Asked(d, i) => Asked(d, j) /\ Reusable
    \* and it has found that before.
    /\ phase[d] \in {"revalidation", "waiting", "deployment"} => expected[d] = Right

\* A verified tip is published, or there is a completion or a Deploy run to see to it.
PublishInv ==
    TipVerified =>
        \/ deployed = tip
        \/ \E k \in Kinds : <<tip, k, attempt[<<tip, k>>]>> \in triggers
        \/ \E d \in Deploys : Good(d)

\* A verified tip stays the tip, and its runs as they are.
LEMMA TipStays ==
  ASSUME TypeInv, QuietInv, TipVerified, TipVerified', [Next]_vars
  PROVE  /\ tip' = tip
         /\ \A k \in Kinds : \A c \in {0, tip} :
               attempt'[<<c, k>>] = attempt[<<c, k>>] /\ attempt[<<c, k>>] # 0
         /\ \A k \in Kinds : mode'[<<tip, k>>] = mode[<<tip, k>>]
         /\ Reusable => Reusable'
<1>0. tip \in 0 .. MaxCommits /\ tip' \in 0 .. MaxCommits /\ touched = 0 /\ touched' = 0
  BY AttemptStep DEF TypeInv, TypeOK, TipVerified
<1>1. tip' = tip
  <2>1. ~Push
    <3> SUFFICES ASSUME Push PROVE FALSE
      OBVIOUS
    <3>1. {<<tip', j>> : j \in Kinds} \in SUBSET Runs /\ <<tip', "checks">> \in Runs
      BY <1>0, RunTypes
    <3>2. status'[<<tip', "checks">>] \in {"selecting", "running"}
      BY <3>1, RunTypes, StartTypes DEF Push, TypeInv
    <3> QED
      BY <3>2, RunTypes DEF TipVerified
  <2> QED
    BY <2>1 DEF Next, MakeCall, Select, Succeed, Fail, Rerun, Expire, StartDeploy,
           Revalidate, FinishBuild, StartDeployment, FinishRevalidation, Advance, Deploy,
           Defer, Over, world, vars
<1>2. ASSUME NEW k \in Kinds
      PROVE  /\ attempt'[<<tip, k>>] = attempt[<<tip, k>>]
             /\ mode'[<<tip, k>>] = mode[<<tip, k>>]
             /\ attempt[<<tip, k>>] # 0
  <2>1. /\ <<tip, k>> \in Runs /\ status[<<tip, k>>] = "success"
        /\ status'[<<tip, k>>] = "success"
    BY <1>0, <1>1, RunTypes DEF TipVerified
  <2>2. ~Succeed(<<tip, k>>)
    BY <2>1 DEF Succeed
  <2>3. attempt[<<tip, k>>] # 0
    BY <2>1 DEF TypeInv, AttemptInv
  <2> QED
    BY <2>1, <2>2, <2>3, SuccessSteps
<1>3. ASSUME NEW k \in Kinds
      PROVE  attempt'[<<0, k>>] = attempt[<<0, k>>] /\ attempt[<<0, k>>] # 0
  <2>1. <<0, k>> \in Runs /\ status[<<0, k>>] = "success"
    BY <1>0, RunTypes DEF QuietInv
  <2> QED
    BY <1>0, <2>1, QuietWorld DEF TypeInv, AttemptInv
<1>4. Reusable => Reusable'
  BY <1>0, QuietWorld DEF Reusable
<1> QED
  BY <1>1, <1>2, <1>3, <1>4

\* The tip becomes verified when the second of the two runs succeeds, which is a
\* completion.
LEMMA BecomesVerified ==
  ASSUME TypeInv, ~TipVerified, TipVerified', QuietInv, [Next]_vars
  PROVE  \E k \in Kinds : <<tip', k, attempt'[<<tip', k>>]>> \in triggers'
<1>0. tip' \in 0 .. MaxCommits /\ touched' = 0 /\ touched = 0 /\ tip' # 0
  BY AttemptStep, QuietWorld DEF TipVerified
<1>1. ASSUME NEW k \in Kinds, Succeed(<<tip', k>>)
      PROVE  <<tip', k, attempt'[<<tip', k>>]>> \in triggers'
  <2>1. attempt' = attempt /\ tip' = tip
    BY <1>1 DEF Succeed
  <2>2. <<tip', k>>[1] = tip' /\ <<tip', k>>[2] = k
    OBVIOUS
  <2>3. TriggersDeploy(<<tip', k>>)
    BY <1>0, <2>1, <2>2 DEF TriggersDeploy
  <2> QED
    BY <1>1, <2>1, <2>2, <2>3 DEF Succeed
<1>2. CASE ~\E k \in Kinds : Succeed(<<tip', k>>)
  <2>1. \A k \in Kinds : <<tip', k>> \in Runs /\ status[<<tip', k>>] = "success"
    BY <1>0, <1>2, RunTypes, SuccessSteps DEF TipVerified
  <2>2. ~Push
    <3> SUFFICES ASSUME Push PROVE FALSE
      OBVIOUS
    <3>1. {<<tip', j>> : j \in Kinds} \in SUBSET Runs /\ <<tip', "checks">> \in Runs
      BY <1>0, RunTypes
    <3>2. status'[<<tip', "checks">>] \in {"selecting", "running"}
      BY <3>1, RunTypes, StartTypes DEF Push, TypeInv
    <3> QED
      BY <3>2, RunTypes DEF TipVerified
  <2>3. tip' = tip
    BY <2>2 DEF Next, MakeCall, Select, Succeed, Fail, Rerun, Expire, StartDeploy,
           Revalidate, FinishBuild, StartDeployment, FinishRevalidation, Advance, Deploy,
           Defer, Over, world, vars
  <2> QED
    BY <1>0, <2>1, <2>3 DEF TipVerified
<1> QED
  BY <1>1, <1>2

\* A run that begins, or begins again, with the calls for the tip.
LEMMA GoodBegins ==
  ASSUME TypeInv, TypeInv', NEW d \in Deploys, tip' # 0, phase'[d] # "idle",
         todo'[d] = PublicationPair(tip'), seen'[d] = Unseen,
         \E k \in Kinds : trigger'[d] = <<tip', k, attempt'[<<tip', k>>]>>,
         phase'[d] \in {"revalidation", "waiting", "deployment"} => expected'[d] = Right'
  PROVE  Good(d)'
<1>1. tip' \in 0 .. MaxCommits
  BY DEF TypeInv, TypeOK
<1>2. todo'[d] # <<Failed>>
  <2>1. Len(PublicationPair(tip')) = 8
    BY <1>1, PublicationCalls
  <2> QED
    BY <2>1, FailedCall
<1>3. \A k \in Kinds : \A c \in {0, tip'} : seen'[d][<<c, k>>] = 0
  BY <1>1, RunTypes DEF Unseen
<1>4. \A k \in Kinds : Pending(d, Call("latest", <<tip, k>>))'
  BY <1>1, OpeningAsks DEF Pending
<1>5. \A k \in Kinds : /\ ~Pending(d, Call("verify", <<0, k>>))'
                       /\ ~Pending(d, Call("confirm", <<0, k>>))'
  BY <1>1, OpeningCalls DEF Pending
<1>6. \A k \in Kinds : ~Asked(d, k)'
  BY <1>3, <1>5 DEF Asked
<1> QED
  BY <1>2, <1>3, <1>4, <1>5, <1>6 DEF Good

\* A run that has all its answers has found what it should.
LEMMA FoundIsRight ==
  ASSUME TypeInv, NEW d \in Deploys, Good(d), todo[d] = <<>>, Commit(d) = tip,
         phase[d] \notin {"waiting", "deploying"}
  PROVE  Found(d) = Right
<1>0. d \in Actors /\ d \notin Kinds
  BY ActorKinds DEF Actors
<1>1. \A x : ~Pending(d, x)
  BY <1>0, AllAnswered
<1>2. ASSUME NEW k \in Kinds
      PROVE  /\ source[d][k] = From(k)
             /\ seen[d][<<tip, k>>] = attempt[<<tip, k>>]
             /\ seen[d][<<From(k), k>>] = attempt[<<From(k), k>>]
  <2>1. LatestRead(d, k)
    BY <1>1 DEF Good
  <2>2. seen[d][<<tip, k>>] = attempt[<<tip, k>>]
    BY <2>1 DEF Good, LatestRead
  <2>3. CASE From(k) = tip
    BY <2>1, <2>2, <2>3 DEF LatestRead
  <2>4. CASE From(k) = 0
    <3>1. seen[d][<<0, k>>] # 0
      BY <1>1, <2>1, <2>4 DEF LatestRead, Asked
    <3> QED
      BY <2>1, <2>2, <2>4, <3>1 DEF LatestRead, Good
  <2> QED
    BY <2>3, <2>4 DEF From
<1>3. RestsOn(d, source[d])
        = {<<tip, k>> : k \in Kinds} \cup {<<From(k), k>> : k \in Kinds}
  BY <1>0, <1>2 DEF RestsOn
<1>4. \A r \in RestsOn(d, source[d]) : seen[d][r] = attempt[r]
  BY <1>2, <1>3
<1> QED
  BY <1>3, <1>4 DEF Found, Right

\* Such a run goes on, and at last publishes the tip.
LEMMA GoodAdvances ==
  ASSUME TypeInv, TypeInv', QuietInv, RankInv, TipVerified, TipVerified', [Next]_vars,
         NEW d \in Deploys, Good(d), DeployStep(d)
  PROVE  Good(d)' \/ deployed' = tip'
<1>0. /\ d \in Actors /\ d \notin Kinds /\ Commit(d) = tip /\ tip # 0
      /\ tip \in 0 .. MaxCommits
  BY ActorKinds DEF Actors, Good, Commit, TipVerified, TypeInv, TypeOK
<1>1. /\ tip' = tip /\ tip' # 0
      /\ \A k \in Kinds : From(k)' = From(k)
      /\ \A k \in Kinds : \A c \in {0, tip} : attempt'[<<c, k>>] = attempt[<<c, k>>]
  BY <1>0, TipStays DEF From
<1>2. Right' = Right
  <2>1. {<<tip', k>> : k \in Kinds} \cup {<<From(k)', k>> : k \in Kinds}
          = {<<tip, k>> : k \in Kinds} \cup {<<From(k), k>> : k \in Kinds}
    BY <1>1
  <2>2. \A r \in {<<tip, k>> : k \in Kinds} \cup {<<From(k), k>> : k \in Kinds} :
           attempt'[r] = attempt[r]
    BY <1>1 DEF From
  <2> QED
    BY <2>1, <2>2 DEF Right
<1>3. ~StartDeploy(d)
  BY DEF Good, StartDeploy
<1>4. ASSUME NEW from, NEW to, NEW calls, Advance(d, from, to, calls),
             to \in {"revalidation", "waiting", "deployment", "deploying"}
      PROVE  /\ trigger' = trigger /\ phase[d] = from /\ phase'[d] = to /\ todo[d] = <<>>
             /\ todo'[d] = calls /\ seen'[d] = Unseen
             /\ expected'[d] = IF from = "publication" THEN Found(d) ELSE expected[d]
  <2>1. /\ trigger' = trigger /\ phase[d] = from /\ todo[d] = <<>>
        /\ Begin(d, calls) /\ phase' = [phase EXCEPT ![d] = to]
    BY <1>4 DEF Advance
  <2>2. todo'[d] = calls /\ seen'[d] = Unseen
    BY <1>0, <2>1, BeginOne
  <2>3. phase'[d] = to
    BY <2>1 DEF TypeInv, TypeOK
  <2>4. d \in DOMAIN expected
    BY DEF RankInv
  <2>5. expected'[d] = IF from = "publication" THEN Found(d) ELSE expected[d]
    BY <1>4, <2>4 DEF Advance
  <2> QED
    BY <2>1, <2>2, <2>3, <2>5
<1>5. ASSUME trigger' = trigger
      PROVE  \E k \in Kinds : trigger'[d] = <<tip', k, attempt'[<<tip', k>>]>>
  BY <1>1, <1>5 DEF Good
<1>6. CASE Revalidate(d)
  <2>1. Advance(d, "publication", "revalidation", PublicationPair(tip'))
    BY <1>0, <1>1, <1>6 DEF Revalidate
  <2>2. /\ phase[d] = "publication" /\ phase'[d] = "revalidation" /\ todo[d] = <<>>
        /\ todo'[d] = PublicationPair(tip') /\ seen'[d] = Unseen
        /\ expected'[d] = Found(d) /\ trigger' = trigger
    BY <1>4, <2>1
  <2>3. expected'[d] = Right'
    BY <1>0, <1>2, <2>2, FoundIsRight
  <2> QED
    BY <1>1, <1>5, <2>2, <2>3, GoodBegins
<1>7. CASE StartDeployment(d)
  <2>1. Advance(d, "waiting", "deployment", PublicationPair(tip'))
    BY <1>0, <1>1, <1>7 DEF StartDeployment
  <2>2. /\ phase[d] = "waiting" /\ phase'[d] = "deployment"
        /\ todo'[d] = PublicationPair(tip') /\ seen'[d] = Unseen
        /\ expected'[d] = expected[d] /\ trigger' = trigger
    BY <1>4, <2>1
  <2>3. expected'[d] = Right'
    BY <1>2, <2>2 DEF Good
  <2> QED
    BY <1>1, <1>5, <2>2, <2>3, GoodBegins
<1>8. CASE FinishBuild(d) \/ FinishRevalidation(d)
  <2>1. /\ phase[d] \in {"revalidation", "deployment"} /\ phase'[d] \in {"waiting", "deploying"}
        /\ todo'[d] = <<>> /\ seen'[d] = Unseen
        /\ expected'[d] = expected[d] /\ trigger' = trigger
    BY <1>4, <1>8 DEF FinishBuild, FinishRevalidation
  <2>2. expected'[d] = Right'
    BY <1>2, <2>1 DEF Good
  <2>3. \A k \in Kinds : \A c \in {0, tip'} : seen'[d][<<c, k>>] = 0
    BY <1>0, <1>1, <2>1, RunTypes DEF Unseen
  <2>4. todo'[d] # <<Failed>> /\ \A k \in Kinds :
           ~Pending(d, Call("verify", <<0, k>>))' /\ ~Pending(d, Call("confirm", <<0, k>>))'
    BY <2>1, FailedCall DEF Pending
  <2>5. \A k \in Kinds : ~Asked(d, k)'
    BY <2>3, <2>4 DEF Asked
  <2> QED
    BY <1>5, <2>1, <2>2, <2>3, <2>4, <2>5 DEF Good
<1>9. CASE Deploy(d)
  BY <1>0, <1>1, <1>9 DEF Deploy
<1>10. CASE Defer(d)
  <2>1. /\ phase[d] \in {"revalidation", "deployment"} /\ todo[d] = <<>>
        /\ Found(d) # expected[d]
    BY <1>0, <1>10 DEF Defer, Good
  <2> QED
    BY <1>0, <2>1, FoundIsRight DEF Good
<1> QED
  BY <1>3, <1>6, <1>7, <1>8, <1>9, <1>10 DEF DeployStep

\* A call that gets a good answer, and those that follow from it.
LEMMA CallSucceeds ==
  ASSUME TypeInv, NEW a \in Actors, MakeCall(a), NEW op, NEW r, todo[a][1] = Call(op, r),
         \/ op = "tip" /\ tip = Commit(a)
         \/ op = "verify" /\ HasEvidence(r)
         \/ /\ op = "latest" /\ status[r] = "success" /\ Triggered(a, r)
            /\ mode[r] = "reuse" \/ HasEvidence(r)
         \/ op = "confirm" /\ Unchanged(r, seen[a][r])
         \/ /\ op = "source"
            /\ Unchanged(<<source[a][r[2]], r[2]>>, seen[a][<<source[a][r[2]], r[2]>>])
  PROVE  \E calls \in {<<>>, ReusablePair} : Well(a, calls)
<1>1. /\ todo[a] # <<>> /\ Head(todo[a]) = Call(op, r) /\ Call(op, r) \in Calls
  BY CallMade
<1>2. Head(todo[a]).op = op /\ Run(a) = r
  BY <1>1, CallFields DEF Run
<1>3. ASSUME NEW calls, Answer(a, TRUE, calls)
      PROVE  Well(a, calls)
  BY <1>1, <1>3 DEF Answer, Well, TypeInv, Inv, DomainInv
<1>4. CASE CheckTip(a)
  <2>1. op = "tip" /\ Answer(a, TRUE, <<>>)
    BY <1>2, <1>4 DEF CheckTip, Makes
  <2> QED
    BY <1>3, <2>1
<1>5. CASE VerifyRun(a)
  <2>1. op = "verify" /\ Answer(a, HasEvidence(r), <<>>)
    BY <1>2, <1>5 DEF VerifyRun, Makes
  <2>2. Answer(a, TRUE, <<>>)
    BY <2>1 DEF Answer
  <2> QED
    BY <1>3, <2>2
<1>6. CASE ReadLatest(a)
  <2>1. /\ op = "latest"
        /\ Answer(a, /\ status[r] = "success" /\ Triggered(a, r)
                     /\ mode[r] = "reuse" \/ HasEvidence(r),
                  IF mode[r] = "reuse" /\ seen[a][<<0, "checks">>] = 0
                  THEN ReusablePair ELSE <<>>)
    BY <1>2, <1>6 DEF ReadLatest, Makes
  <2>2. Answer(a, TRUE, IF mode[r] = "reuse" /\ seen[a][<<0, "checks">>] = 0
                        THEN ReusablePair ELSE <<>>)
    BY <2>1 DEF Answer
  <2> QED
    BY <1>3, <2>2
<1>7. CASE Confirm(a)
  <2>1. op = "confirm" /\ Answer(a, Unchanged(r, seen[a][r]), <<>>)
    BY <1>2, <1>7 DEF Confirm, Makes
  <2>2. Answer(a, TRUE, <<>>)
    BY <2>1 DEF Answer
  <2> QED
    BY <1>3, <2>2
<1>8. CASE ConfirmSource(a)
  <2>1. /\ op = "source"
        /\ Answer(a, Unchanged(<<source[a][r[2]], r[2]>>,
                               seen[a][<<source[a][r[2]], r[2]>>]), <<>>)
    BY <1>2, <1>8 DEF ConfirmSource, Makes
  <2>2. Answer(a, TRUE, <<>>)
    BY <2>1 DEF Answer
  <2> QED
    BY <1>3, <2>2
<1> QED
  BY <1>4, <1>5, <1>6, <1>7, <1>8 DEF MakeCall

\* A call that ranks before the next one has been answered.
LEMMA HeadFirst ==
  ASSUME NEW a \in Actors, todo[a] \in Seq(Calls), todo[a] # <<>>, InOrder(todo[a]),
         todo[a][1].op # "tip", NEW x, Rank(x) < Rank(todo[a][1])
  PROVE  ~Pending(a, x)
<1> SUFFICES ASSUME NEW i \in 1 .. Len(todo[a]), todo[a][i] = x PROVE FALSE
  BY DEF Pending
<1>1. Len(todo[a]) \in Nat /\ 1 \in 1 .. Len(todo[a])
  OBVIOUS
<1>2. Rank(x) \in 0 .. 5 /\ Rank(todo[a][1]) \in 0 .. 5
  BY CallRanks
<1>3. i # 1
  BY <1>2
<1>4. 1 < i
  BY <1>1, <1>3
<1>5. Rank(todo[a][1]) <= Rank(x)
  BY <1>1, <1>4 DEF InOrder
<1> QED
  BY <1>2, <1>5

\* A Deploy run that will publish the tip gets a good answer to its next call.
LEMMA GoodAnswered ==
  ASSUME TypeInv, QuietInv, RankInv, TipVerified, NEW d \in Deploys, Good(d), MakeCall(d)
  PROVE  (\E calls \in {<<>>, ReusablePair} : Well(d, calls)) /\ todo'[d] # <<Failed>>
<1>0. /\ d \in Actors /\ Commit(d) = tip /\ tip # 0 /\ touched = 0
      /\ tip \in 0 .. MaxCommits
  BY DEF Actors, Good, Commit, TipVerified, TypeInv, TypeOK
<1>1. /\ todo[d] # <<>> /\ todo[d] \in Seq(Calls) /\ InOrder(todo[d])
      /\ 1 \in 1 .. Len(todo[d]) /\ Pending(d, todo[d][1])
      /\ \A i \in 1 .. Len(todo[d]) : CallOf(todo[d][i], tip)
  BY <1>0, CallMade DEF RankInv, Good, Pending
<1>2. \A k \in Kinds : /\ <<tip, k>> \in Runs /\ status[<<tip, k>>] = "success"
                       /\ <<0, k>> \in Runs /\ status[<<0, k>>] = "success"
                       /\ <<tip, k>>[1] = tip /\ <<tip, k>>[2] = k
  BY <1>0, RunTypes DEF TipVerified, QuietInv
<1>3. \A k \in Kinds : \A c \in {0, tip} :
         seen[d][<<c, k>>] # 0 => Unchanged(<<c, k>>, seen[d][<<c, k>>])
  BY <1>2 DEF Good, Unchanged
<1>4. \A k \in Kinds : Pending(d, Call("latest", <<tip, k>>)) \/ LatestRead(d, k)
  BY <1>1 DEF Good
<1>5. ASSUME NEW op, NEW r, todo[d][1] = Call(op, r), op # "tip", NEW x,
             Rank(x) < Rank(Call(op, r))
      PROVE  ~Pending(d, x)
  BY <1>0, <1>1, <1>5, HeadFirst, CallFields
<1>6. \E calls \in {<<>>, ReusablePair} : Well(d, calls)
  <2>1. CASE todo[d][1] = Call("tip", <<tip, "checks">>)
    BY <1>0, <2>1, CallSucceeds
  <2>2. ASSUME NEW k \in Kinds, todo[d][1] = Call("latest", <<tip, k>>)
        PROVE  \E calls \in {<<>>, ReusablePair} : Well(d, calls)
    <3>1. Triggered(d, <<tip, k>>)
      BY DEF Good, Triggered
    <3>2. mode[<<tip, k>>] = "reuse" \/ HasEvidence(<<tip, k>>)
      BY <1>0, <1>2 DEF QuietInv
    <3> DEFINE r == <<tip, k>>
    <3>3. todo[d][1] = Call("latest", r) /\ status[r] = "success" /\ Triggered(d, r)
          /\ (mode[r] = "reuse" \/ HasEvidence(r))
      BY <1>2, <2>2, <3>1, <3>2
    <3> HIDE DEF r
    <3> QED
      BY <1>0, <3>3, CallSucceeds
  <2>3. ASSUME NEW k \in Kinds, todo[d][1] = Call("verify", <<0, k>>)
        PROVE  \E calls \in {<<>>, ReusablePair} : Well(d, calls)
    <3>1. HasEvidence(<<0, k>>)
      BY <1>1, <2>3 DEF Good, Asked, Reusable
    <3> QED
      BY <1>0, <2>3, <3>1, CallSucceeds
  <2>4. ASSUME NEW k \in Kinds, todo[d][1] = Call("confirm", <<0, k>>)
        PROVE  \E calls \in {<<>>, ReusablePair} : Well(d, calls)
    <3>1. ~Pending(d, Call("verify", <<0, k>>))
      BY <1>5, <2>4, CallRanks
    <3>2. seen[d][<<0, k>>] # 0
      BY <1>1, <2>4, <3>1 DEF Good, Asked
    <3>3. Unchanged(<<0, k>>, seen[d][<<0, k>>])
      BY <1>3, <3>2
    <3> QED
      BY <1>0, <2>4, <3>3, CallSucceeds
  <2>5. ASSUME NEW k \in Kinds, todo[d][1] = Call("confirm", <<tip, k>>)
        PROVE  \E calls \in {<<>>, ReusablePair} : Well(d, calls)
    <3>1. ~Pending(d, Call("latest", <<tip, k>>))
      BY <1>0, <1>5, <2>5, CallRanks
    <3>2. seen[d][<<tip, k>>] # 0
      BY <1>4, <3>1 DEF LatestRead
    <3>3. Unchanged(<<tip, k>>, seen[d][<<tip, k>>])
      BY <1>3, <3>2
    <3> QED
      BY <1>0, <2>5, <3>3, CallSucceeds
  <2>6. ASSUME NEW k \in Kinds, todo[d][1] = Call("source", <<tip, k>>)
        PROVE  \E calls \in {<<>>, ReusablePair} : Well(d, calls)
    <3>1. /\ ~Pending(d, Call("latest", <<tip, k>>))
          /\ \A j \in Kinds : ~Pending(d, Call("verify", <<0, j>>))
      BY <1>5, <2>6, CallRanks
    <3>2. LatestRead(d, k)
      BY <1>4, <3>1
    <3>3. Unchanged(<<From(k), k>>, seen[d][<<From(k), k>>])
      <4>1. CASE From(k) = tip
        BY <1>3, <3>2, <4>1 DEF LatestRead
      <4>2. CASE From(k) = 0
        BY <1>3, <3>1, <3>2, <4>2 DEF LatestRead, Asked
      <4> QED
        BY <4>1, <4>2 DEF From
    <3>4. source[d][<<tip, k>>[2]] = From(k)
      BY <1>2, <3>2 DEF LatestRead
    <3> QED
      BY <1>0, <1>2, <2>6, <3>3, <3>4, CallSucceeds
  <2> QED
    BY <1>1, <2>1, <2>2, <2>3, <2>4, <2>5, <2>6 DEF CallOf
<1>7. todo'[d] # <<Failed>>
  <2> SUFFICES ASSUME todo'[d] = <<Failed>> PROVE FALSE
    OBVIOUS
  <2>1. PICK calls \in {<<>>, ReusablePair} : Well(d, calls)
    BY <1>6
  <2>2. 1 \in 1 .. Len(todo'[d]) /\ todo'[d][1] = Failed
    BY FailedCall
  <2>3. \/ \E m \in 1 .. Len(calls) : Failed = calls[m]
        \/ \E j \in 1 .. Len(todo[d]) : Failed = todo[d][j]
    BY <1>0, <1>1, <2>1, <2>2, CameOrPending
  <2>4. \A m \in 1 .. Len(calls) : CallOf(calls[m], tip)
    <3>1. \A m \in 1 .. 0 : FALSE
      OBVIOUS
    <3> QED
      BY <2>1, <3>1, OpeningCalls, EmptySeq
  <2> QED
    BY <1>1, <2>3, <2>4, OpeningCalls
<1> QED
  BY <1>6, <1>7

\* What one call does to a Deploy run that will publish the tip.
LEMMA GoodCalls ==
  ASSUME TypeInv, QuietInv, RankInv, TipVerified, NEW d \in Deploys, Good(d), MakeCall(d)
  PROVE  \E op, r :
           /\ todo[d][1] = Call(op, r) /\ Pending(d, Call(op, r)) /\ todo[d] \in Seq(Calls)
           /\ \A q \in Runs : seen'[d][q] = IF op \in Reads /\ q = r THEN attempt[r]
                                            ELSE seen[d][q]
           /\ op = "latest" => \E k \in Kinds :
                 /\ r = <<tip, k>>
                 /\ source'[d] = [source[d] EXCEPT ![k] = From(k)]
           /\ op # "latest" => source'[d] = source[d]
           /\ \/ Well(d, <<>>) /\ (op = "latest" /\ mode[r] = "reuse" =>
                                      seen[d][<<0, "checks">>] # 0)
              \/ Well(d, ReusablePair) /\ Reusable
<1>0. /\ d \in Actors /\ Commit(d) = tip /\ tip # 0 /\ tip \in 0 .. MaxCommits
      /\ todo'[d] # <<Failed>> /\ touched = 0
  <2>1. todo'[d] # <<Failed>>
    BY GoodAnswered
  <2> QED
    BY <2>1 DEF Actors, Good, Commit, TipVerified, TypeInv, TypeOK
<1>1. PICK op \in Ops, r \in Runs : todo[d][1] = Call(op, r)
  BY <1>0, CallsShift
<1>2. Pending(d, Call(op, r)) /\ todo[d] \in Seq(Calls)
  BY <1>0, <1>1, CallMade DEF Pending
<1>3. op = "latest" => r[1] = tip
  <2>1. CallOf(Call(op, r), tip)
    <3>1. 1 \in 1 .. Len(todo[d])
      BY <1>0, CallMade
    <3>2. todo[d] # <<Failed>>
      BY DEF Good
    <3>3. CallOf(todo[d][1], Commit(d))
      BY <3>1, <3>2 DEF RankInv
    <3> QED
      BY <1>0, <1>1, <3>3
  <2>2. ASSUME op = "latest" PROVE \E k \in Kinds : Call(op, r) = Call("latest", <<tip, k>>)
    <3>1. Call(op, r).op = "latest"
      BY <2>2, CallFields
    <3>2. CASE Call(op, r) = Call("tip", <<tip, "checks">>)
      BY <3>1, <3>2, CallFields
    <3>3. ASSUME NEW k \in Kinds,
                 \/ Call(op, r) = Call("confirm", <<tip, k>>)
                 \/ Call(op, r) = Call("source", <<tip, k>>)
                 \/ Call(op, r) = Call("verify", <<0, k>>)
                 \/ Call(op, r) = Call("confirm", <<0, k>>)
          PROVE  FALSE
      BY <3>1, <3>3, CallFields
    <3> QED
      BY <2>1, <3>2, <3>3 DEF CallOf
  <2>3. ASSUME NEW k \in Kinds, Call(op, r) = Call("latest", <<tip, k>>) PROVE r[1] = tip
    <3>1. r = <<tip, k>>
      BY <2>3, CallFields
    <3> QED
      BY <3>1
  <2> QED
    BY <2>2, <2>3
<1>4. op = "latest" => r = <<tip, r[2]>> /\ r[2] \in Kinds
  BY <1>3, RunTypes
<1>5. \A q \in Runs : seen'[d][q] = IF op \in Reads /\ q = r THEN attempt[r] ELSE seen[d][q]
  <2>1. CASE op \in Reads
    <3>1. PICK from : Read(d, r, from)
      BY <1>0, <1>1, <2>1, CallAnswered DEF Reads
    <3>2. \A q \in Runs : seen'[d][q] = IF q = r THEN attempt[r] ELSE seen[d][q]
      BY <1>0, <3>1, ReadSeen
    <3> QED
      BY <2>1, <3>2
  <2>2. CASE op \notin Reads
    <3>1. seen' = seen
      BY <1>0, <1>1, <2>2, CallAnswered DEF Reads
    <3> QED
      BY <2>2, <3>1
  <2> QED
    BY <2>1, <2>2
<1>6. ASSUME op = "latest"
      PROVE  \E k \in Kinds : r = <<tip, k>> /\ source'[d] = [source[d] EXCEPT ![k] = From(k)]
  <2> DEFINE from == [source[d] EXCEPT ![r[2]] = IF mode[r] = "reuse" THEN 0 ELSE r[1]]
  <2>1. Read(d, r, from)
    BY <1>0, <1>1, <1>6, CallAnswered
  <2>2. source'[d] = from
    <3> HIDE DEF from
    <3> QED
      BY <1>0, <2>1, ReadSeen
  <2>3. (IF mode[r] = "reuse" THEN 0 ELSE r[1]) = From(r[2])
    BY <1>3, <1>4, <1>6 DEF From
  <2> QED
    BY <1>4, <1>6, <2>2, <2>3
<1>7. ASSUME op # "latest" PROVE source'[d] = source[d] /\ Well(d, <<>>)
  <2>1. CASE op = "verify"
    <3>1. Read(d, r, source[d])
      BY <1>0, <1>1, <2>1, CallAnswered
    <3>2. source'[d] = source[d]
      BY <1>0, <3>1 DEF Read, TypeInv, TypeOK
    <3>3. Well(d, <<>>)
      BY <1>0, <1>1, <1>7, CallAnswered
    <3> QED
      BY <3>2, <3>3
  <2>2. CASE op # "verify"
    <3>1. UNCHANGED source
      BY <1>0, <1>1, <1>7, <2>2, CallAnswered
    <3> QED
      BY <1>0, <1>1, <1>7, <3>1, CallAnswered
  <2> QED
    BY <2>1, <2>2
<1>8. ASSUME op = "latest"
      PROVE  \/ Well(d, <<>>) /\ (mode[r] = "reuse" => seen[d][<<0, "checks">>] # 0)
             \/ Well(d, ReusablePair) /\ Reusable
  <2>1. Well(d, IF mode[r] = "reuse" /\ seen[d][<<0, "checks">>] = 0
                THEN ReusablePair ELSE <<>>)
    BY <1>0, <1>1, <1>8, CallAnswered
  <2>2. mode[r] = "reuse" => Reusable
    BY <1>0, <1>1 DEF QuietInv
  <2> QED
    BY <2>1, <2>2
<1> QED
  BY <1>1, <1>2, <1>5, <1>6, <1>7, <1>8

\* A run that will publish the tip still will after a call.
LEMMA GoodStays ==
  ASSUME TypeInv, TypeInv', QuietInv, RankInv, TipVerified, TipVerified', [Next]_vars,
         NEW d \in Deploys, Good(d), MakeCall(d), trigger'[d] = trigger[d],
         phase'[d] = phase[d], expected'[d] = expected[d], Right' = Right
  PROVE  Good(d)'
<1>0. /\ d \in Actors /\ tip # 0 /\ tip \in 0 .. MaxCommits
      /\ \A k \in Kinds : \A c \in {0, tip} : <<c, k>> \in Runs
  BY RunTypes DEF Actors, TipVerified, TypeInv, TypeOK
<1>1. /\ tip' = tip
      /\ \A k \in Kinds : From(k)' = From(k)
      /\ \A k \in Kinds : \A c \in {0, tip} :
            attempt'[<<c, k>>] = attempt[<<c, k>>] /\ attempt[<<c, k>>] # 0
      /\ Reusable => Reusable'
  BY TipStays DEF From
<1>2. todo'[d] # <<Failed>> /\ todo[d] # <<>>
  BY <1>0, GoodAnswered, CallMade
<1>3. PICK op, r :
           /\ todo[d][1] = Call(op, r) /\ Pending(d, Call(op, r)) /\ todo[d] \in Seq(Calls)
           /\ \A q \in Runs : seen'[d][q] = IF op \in Reads /\ q = r THEN attempt[r]
                                            ELSE seen[d][q]
           /\ op = "latest" => \E k \in Kinds :
                 /\ r = <<tip, k>>
                 /\ source'[d] = [source[d] EXCEPT ![k] = From(k)]
           /\ op # "latest" => source'[d] = source[d]
           /\ \/ Well(d, <<>>) /\ (op = "latest" /\ mode[r] = "reuse" =>
                                      seen[d][<<0, "checks">>] # 0)
              \/ Well(d, ReusablePair) /\ Reusable
  BY GoodCalls
<1>4. \A k \in Kinds : \A c \in {0, tip} :
         /\ seen[d][<<c, k>>] # 0 => seen'[d][<<c, k>>] # 0
         /\ seen'[d][<<c, k>>] \in {0, attempt'[<<c, k>>]}
  <2> SUFFICES ASSUME NEW k \in Kinds, NEW c \in {0, tip}
               PROVE  /\ seen[d][<<c, k>>] # 0 => seen'[d][<<c, k>>] # 0
                      /\ seen'[d][<<c, k>>] \in {0, attempt'[<<c, k>>]}
    OBVIOUS
  <2>1. /\ attempt'[<<c, k>>] = attempt[<<c, k>>] /\ attempt[<<c, k>>] # 0
        /\ <<c, k>> \in Runs
    BY <1>0, <1>1
  <2>2. seen[d][<<c, k>>] \in {0, attempt[<<c, k>>]}
    BY DEF Good
  <2>3. seen'[d][<<c, k>>] \in {attempt[<<c, k>>], seen[d][<<c, k>>]}
    BY <1>3, <2>1
  <2> QED
    BY <2>1, <2>2, <2>3
<1>5. \A x : Pending(d, x) => Pending(d, x)' \/ x = Call(op, r)
  BY <1>0, <1>2, <1>3, RecheckedOrAnswered
<1>6. ASSUME NEW k \in Kinds, Asked(d, k) PROVE Asked(d, k)'
  <2>1. CASE seen[d][<<0, k>>] # 0
    BY <1>4, <2>1 DEF Asked
  <2>2. CASE Call("verify", <<0, k>>) = Call(op, r)
    <3>1. op = "verify" /\ r = <<0, k>>
      BY <2>2, CallFields
    <3>2. seen'[d][<<0, k>>] # 0
      BY <1>0, <1>1, <1>3, <3>1 DEF Reads
    <3> QED
      BY <3>2 DEF Asked
  <2> QED
    BY <1>5, <1>6, <2>1, <2>2 DEF Asked
<1>7. ASSUME Well(d, ReusablePair) PROVE \A k \in Kinds : Asked(d, k)'
  <2>1. /\ Len(todo'[d]) = 4 + Len(todo[d]) - 1 /\ Len(todo[d]) \in Nat /\ Len(todo[d]) >= 1
        /\ \A i \in 1 .. 4 : todo'[d][i] = ReusablePair[i]
    BY <1>2, <1>3, <1>7, Shifted, ReusableCalls DEF Well
  <2>2. \A i \in 1 .. 4 : i \in 1 .. Len(todo'[d])
    BY <2>1
  <2>3. \A k \in Kinds : \E i \in 1 .. 4 : ReusablePair[i] = Call("verify", <<0, k>>)
    BY OpeningAsks, ReusableCalls
  <2> QED
    BY <2>1, <2>2, <2>3 DEF Asked, Pending
<1>8. ASSUME Well(d, <<>>), NEW x, Pending(d, x)' PROVE Pending(d, x)
  <2>1. PICK i \in 1 .. Len(todo'[d]) : todo'[d][i] = x
    BY <1>8 DEF Pending
  <2>2. \/ \E m \in 1 .. Len(<<>>) : todo'[d][i] = <<>>[m]
        \/ \E j \in 2 .. Len(todo[d]) : j \in 1 .. Len(todo[d]) /\ todo'[d][i] = todo[d][j]
    BY <1>0, <1>3, <1>8, CameOrPending
  <2>3. \A m \in 1 .. Len(<<>>) : FALSE
    BY EmptySeq
  <2> QED
    BY <2>1, <2>2, <2>3 DEF Pending
<1>9. ASSUME Well(d, <<>>), NEW k \in Kinds, Asked(d, k)' PROVE Asked(d, k)
  <2>1. CASE Pending(d, Call("verify", <<0, k>>))'
    BY <1>8, <1>9, <2>1 DEF Asked
  <2>2. CASE seen'[d][<<0, k>>] # 0 /\ seen[d][<<0, k>>] = 0
    <3>1. op \in Reads /\ r = <<0, k>>
      BY <1>0, <1>3, <2>2
    <3>2. op # "latest"
      BY <1>0, <1>3, <3>1
    <3>3. op = "verify"
      BY <3>1, <3>2 DEF Reads
    <3> QED
      BY <1>3, <3>1, <3>3 DEF Asked
  <2> QED
    BY <1>9, <2>1, <2>2 DEF Asked
<1>10. ASSUME NEW i \in Kinds, Asked(d, i)', NEW j \in Kinds PROVE Asked(d, j)' /\ Reusable'
  <2>1. CASE Well(d, ReusablePair) /\ Reusable
    BY <1>1, <1>7, <2>1
  <2>2. CASE Well(d, <<>>)
    <3>1. Asked(d, i)
      BY <1>9, <1>10, <2>2
    <3>2. Asked(d, j) /\ Reusable
      BY <3>1 DEF Good
    <3> QED
      BY <1>1, <1>6, <3>2
  <2> QED
    BY <1>3, <2>1, <2>2
<1>11. ASSUME NEW k \in Kinds, Pending(d, Call("confirm", <<0, k>>))' PROVE Asked(d, k)'
  <2>1. CASE Well(d, <<>>)
    <3>1. Pending(d, Call("confirm", <<0, k>>))
      BY <1>8, <1>11, <2>1
    <3>2. Asked(d, k)
      BY <3>1 DEF Good
    <3> QED
      BY <1>6, <3>2
  <2> QED
    BY <1>3, <1>7, <2>1
<1>12. ASSUME NEW k \in Kinds
       PROVE  Pending(d, Call("latest", <<tip, k>>))' \/ LatestRead(d, k)'
  <2>1. CASE Call("latest", <<tip, k>>) = Call(op, r)
    <3>1. op = "latest" /\ r = <<tip, k>>
      BY <2>1, CallFields
    <3>2. seen'[d][<<tip, k>>] # 0
      BY <1>0, <1>1, <1>3, <3>1 DEF Reads
    <3>3. source'[d][k] = From(k)
      <4>1. PICK j \in Kinds : r = <<tip, j>> /\ source'[d] = [source[d] EXCEPT ![j] = From(j)]
        BY <1>3, <3>1
      <4>2. j = k
        BY <3>1, <4>1
      <4> QED
        BY <1>0, <4>1, <4>2 DEF TypeInv, TypeOK
    <3>4. ASSUME From(k) = 0, NEW j \in Kinds PROVE Asked(d, j)'
      <4>1. mode[r] = "reuse"
        BY <1>0, <3>1, <3>4 DEF From
      <4>2. CASE seen[d][<<0, "checks">>] # 0
        <5>1. Asked(d, "checks") /\ "checks" \in Kinds
          BY <4>2, RunTypes DEF Asked
        <5>2. Asked(d, j)
          BY <5>1 DEF Good
        <5> QED
          BY <1>6, <5>2
      <4> QED
        BY <1>3, <1>7, <3>1, <4>1, <4>2
    <3> QED
      BY <1>1, <3>2, <3>3, <3>4 DEF LatestRead
  <2>2. CASE LatestRead(d, k)
    <3>1. seen'[d][<<tip, k>>] # 0
      BY <1>4, <2>2 DEF LatestRead
    <3>2. source'[d][k] = From(k)
      <4>1. CASE op = "latest"
        <5>1. PICK j \in Kinds : source'[d] = [source[d] EXCEPT ![j] = From(j)]
          BY <1>3, <4>1
        <5> QED
          BY <1>0, <2>2, <5>1 DEF LatestRead, TypeInv, TypeOK
      <4>2. CASE op # "latest"
        BY <1>3, <2>2, <4>2 DEF LatestRead
      <4> QED
        BY <4>1, <4>2
    <3>3. From(k) = 0 => \A j \in Kinds : Asked(d, j)'
      BY <1>6, <2>2 DEF LatestRead
    <3> QED
      BY <1>1, <3>1, <3>2, <3>3 DEF LatestRead
  <2>3. CASE Pending(d, Call("latest", <<tip, k>>)) /\ Call("latest", <<tip, k>>) # Call(op, r)
    <3>1. Pending(d, Call("latest", <<tip, k>>))'
      BY <1>1, <1>5, <2>3 DEF Pending
    <3> QED
      BY <3>1
  <2> QED
    BY <1>2, <2>1, <2>2, <2>3 DEF Good
<1>13. \E k \in Kinds : trigger'[d] = <<tip', k, attempt'[<<tip', k>>]>>
  BY <1>1 DEF Good
<1>14. phase'[d] \in {"revalidation", "waiting", "deployment"} => expected'[d] = Right'
  BY DEF Good
<1>15. phase'[d] # "idle"
  BY DEF Good
<1> QED
  BY <1>1, <1>2, <1>4, <1>10, <1>11, <1>12, <1>13, <1>14, <1>15 DEF Good

\* A Deploy run that no step concerns is as it was.
LEMMA GoodSame ==
  ASSUME TypeInv, QuietInv, TipVerified, TipVerified', [Next]_vars,
         NEW d \in Deploys, Good(d), SameActor(d), expected'[d] = expected[d], Right' = Right
  PROVE  Good(d)'
<1>1. /\ tip' = tip /\ (Reusable => Reusable')
      /\ \A k \in Kinds : From(k)' = From(k)
      /\ \A k \in Kinds : \A c \in {0, tip} : attempt'[<<c, k>>] = attempt[<<c, k>>]
  BY TipStays DEF From
<1>2. /\ todo'[d] = todo[d] /\ seen'[d] = seen[d] /\ source'[d] = source[d]
      /\ phase'[d] = phase[d] /\ trigger'[d] = trigger[d]
  BY DEF SameActor
<1>3. /\ \A x : Pending(d, x)' <=> Pending(d, x)
      /\ \A k \in Kinds : Call("latest", <<tip, k>>)' = Call("latest", <<tip, k>>)
  BY <1>1, <1>2 DEF Pending
<1>4. \A k \in Kinds : /\ Asked(d, k)' <=> Asked(d, k)
                       /\ Pending(d, Call("latest", <<tip, k>>))'
                             <=> Pending(d, Call("latest", <<tip, k>>))
                       /\ Pending(d, Call("confirm", <<0, k>>))'
                             <=> Pending(d, Call("confirm", <<0, k>>))
  BY <1>1, <1>2, <1>3 DEF Asked, Pending
<1>5. \A k \in Kinds : LatestRead(d, k)' <=> LatestRead(d, k)
  BY <1>1, <1>2, <1>4 DEF LatestRead
<1>6. \A k \in Kinds : \A c \in {0, tip'} : seen'[d][<<c, k>>] \in {0, attempt'[<<c, k>>]}
  BY <1>1, <1>2 DEF Good
<1>7. \E k \in Kinds : trigger'[d] = <<tip', k, attempt'[<<tip', k>>]>>
  BY <1>1, <1>2 DEF Good
<1>8. \/ todo'[d] = <<>> /\ phase'[d] \in {"waiting", "deploying"}
      \/ \A k \in Kinds : Pending(d, Call("latest", <<tip, k>>))' \/ LatestRead(d, k)'
  BY <1>2, <1>4, <1>5 DEF Good
<1>9. /\ \A k \in Kinds : Pending(d, Call("confirm", <<0, k>>))' => Asked(d, k)'
      /\ \A i, j \in Kinds : Asked(d, i)' => Asked(d, j)' /\ Reusable'
  BY <1>1, <1>4 DEF Good
<1>10. /\ phase'[d] # "idle" /\ todo'[d] # <<Failed>>
       /\ phase'[d] \in {"revalidation", "waiting", "deployment"} => expected'[d] = Right'
  BY <1>2 DEF Good
<1> QED
  BY <1>6, <1>7, <1>8, <1>9, <1>10 DEF Good

\* Whoever sees to the publication of the tip does so until it is published.
LEMMA PublishStep ==
  ASSUME TypeInv, TypeInv', QuietInv, RankInv, PublishInv, [Next]_vars
  PROVE  PublishInv'
<1> SUFFICES ASSUME TipVerified'
             PROVE  \/ deployed' = tip'
                    \/ \E k \in Kinds : <<tip', k, attempt'[<<tip', k>>]>> \in triggers'
                    \/ \E d \in Deploys : Good(d)'
  BY DEF PublishInv
<1>1. CASE ~TipVerified
  BY <1>1, BecomesVerified
<1>2. CASE TipVerified
  <2>1. /\ tip' = tip /\ tip # 0
        /\ \A k \in Kinds : From(k)' = From(k)
        /\ \A k \in Kinds : \A c \in {0, tip} : attempt'[<<c, k>>] = attempt[<<c, k>>]
    BY <1>2, TipStays DEF From, TipVerified
  <2>2. Right' = Right
    <3>1. {<<tip', k>> : k \in Kinds} \cup {<<From(k)', k>> : k \in Kinds}
            = {<<tip, k>> : k \in Kinds} \cup {<<From(k), k>> : k \in Kinds}
      BY <2>1
    <3>2. \A r \in {<<tip, k>> : k \in Kinds} \cup {<<From(k), k>> : k \in Kinds} :
             attempt'[r] = attempt[r]
      BY <2>1 DEF From
    <3> QED
      BY <3>1, <3>2 DEF Right
  <2>3. CASE deployed = tip
    <3>1. deployed' >= deployed
      BY InvStep DEF TypeInv, Inv, CommitInv, vars
    <3>2. deployed' \in 0 .. tip' /\ tip \in Nat
      BY DEF TypeInv, Inv, CommitInv
    <3> QED
      BY <2>1, <2>3, <3>1, <3>2
  <2>4. ASSUME NEW k \in Kinds, <<tip, k, attempt[<<tip, k>>]>> \in triggers,
               <<tip, k, attempt[<<tip, k>>]>> \notin triggers'
        PROVE  \E d \in Deploys : Good(d)'
    <3> DEFINE t == <<tip, k, attempt[<<tip, k>>]>>
    <3>1. ASSUME ~\E d \in Deploys : StartDeploy(d) PROVE triggers \subseteq triggers'
      BY <3>1 DEF Next, MakeCall, Select, Succeed, Fail, Rerun, Push, Expire, Revalidate,
                  FinishBuild, StartDeployment, FinishRevalidation, Advance, Deploy, Defer,
                  Over, world, vars
    <3>2. PICK d \in Deploys : StartDeploy(d)
      BY <2>4, <3>1
    <3>3. /\ trigger' = [trigger EXCEPT ![d] = t] /\ Begin(d, PublicationPair(t[1]))
          /\ phase' = [phase EXCEPT ![d] = "publication"]
      BY <2>4, <3>2 DEF StartDeploy
    <3>4. d \in Actors /\ t[1] = tip
      BY DEF Actors
    <3>5. todo'[d] = PublicationPair(tip') /\ seen'[d] = Unseen
      BY <2>1, <3>3, <3>4, BeginOne
    <3>6. phase'[d] = "publication" /\ trigger'[d] = t
      BY <3>3 DEF TypeInv, TypeOK, Inv, DomainInv
    <3>7. \E j \in Kinds : trigger'[d] = <<tip', j, attempt'[<<tip', j>>]>>
      BY <2>1, <3>6
    <3> QED
      BY <2>1, <3>5, <3>6, <3>7, GoodBegins
  <2>5. ASSUME NEW d \in Deploys, Good(d) PROVE Good(d)' \/ deployed' = tip'
    <3>0. d \in Actors
      BY DEF Actors
    <3>1. CASE DeployStep(d)
      BY <1>2, <2>5, <3>1, GoodAdvances
    <3>2. CASE ~DeployStep(d)
      <4>1. expected'[d] = expected[d]
        BY <3>2, ExpectedStep DEF RankInv
      <4>2. \/ MakeCall(d) /\ phase'[d] = phase[d] /\ trigger'[d] = trigger[d]
            \/ SameActor(d)
        BY <3>0, <3>2, ActorSteps
      <4> QED
        BY <1>2, <2>2, <2>5, <4>1, <4>2, GoodStays, GoodSame
    <3> QED
      BY <3>1, <3>2
  <2> QED
    BY <1>2, <2>1, <2>3, <2>4, <2>5 DEF PublishInv
<1> QED
  BY <1>1, <1>2

\* It all holds throughout.
LEMMA PublishInvariant == Spec => []PublishInv
<1>1. Init => RankInv /\ QuietInv /\ PublishInv
  <2> SUFFICES ASSUME Init PROVE RankInv /\ QuietInv /\ PublishInv
    OBVIOUS
  <2>1. RankInv
    <3>1. \A a \in Actors : todo[a] = IF a \in Kinds THEN ReusablePair ELSE <<>>
      BY DEF Init
    <3>2. \A d \in Deploys : todo[d] = <<>>
      BY <3>1, ActorKinds DEF Actors
    <3>3. \A d \in Deploys : \A i \in 1 .. Len(todo[d]) : FALSE
      <4>1. \A i \in 1 .. Len(<<>>) : FALSE
        BY EmptySeq
      <4> QED
        BY <3>2, <4>1
    <3>4. expected = [d \in Deploys |-> expected[d]]
      BY DEF Init
    <3> QED
      BY <3>1, <3>3, <3>4, OpeningRanks DEF RankInv
  <2>2. QuietInv
    <3>1. \A r \in Runs : r[1] # 0 => mode[r] = "full" /\ status[r] = "none"
      BY DEF Init
    <3>2. \A r \in Runs : mode[r] # "reuse"
      BY DEF Init
    <3>3. \A k \in Kinds : status[<<0, k>>] = "success"
      BY RunTypes DEF Init
    <3>4. \A k \in Kinds : todo[k] = ReusablePair
      BY DEF Init, Actors
    <3> QED
      BY <3>1, <3>2, <3>3, <3>4, OpeningAsks DEF QuietInv, Pending
  <2>3. PublishInv
    BY DEF Init, PublishInv, TipVerified
  <2> QED
    BY <2>1, <2>2, <2>3
<1>2. TypeInv /\ TypeInv' /\ RankInv /\ QuietInv /\ PublishInv /\ [Next]_vars
        => RankInv' /\ QuietInv' /\ PublishInv'
  BY RankStep, QuietStep, PublishStep
<1> QED
  BY <1>1, <1>2, TypeInvariant, PTL DEF Spec

\* When all completions have been dealt with, a tip both workflows have verified is
\* published, unless somebody has disturbed the evidence it reuses: whichever workflow
\* comes last starts a Deploy run that finds both, for any number of commits, Deploy
\* runs, failures and reruns.
THEOREM SettledIsPublishedTheorem == Spec => []SettledIsPublished
<1>1. PublishInv => SettledIsPublished
  BY DEF PublishInv, SettledIsPublished, TipVerified, Good
<1> QED
  BY <1>1, PublishInvariant, PTL
=============================================================================
