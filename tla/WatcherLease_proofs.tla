------------------------- MODULE WatcherLease_proofs -------------------------
(***************************************************************************)
(* Proofs about WatcherLease, for all sets of threads and watchers, every  *)
(* lease and polling period and without use of the bounds of the model.    *)
(***************************************************************************)
EXTENDS WatcherLease, TLAPS

\* Type correctness.
THEOREM Typing == Spec => []TypeOK
<1> USE LeaseAssumption DEF TypeOK
<1>1. Init => TypeOK
  BY DEF Init
<1>2. TypeOK /\ [Next]_vars => TypeOK'
  <2> SUFFICES ASSUME TypeOK, [Next]_vars PROVE TypeOK'
    OBVIOUS
  <2>1. ASSUME NEW p \in Threads, CallStep(p) PROVE TypeOK'
    <3>1. CASE Call(p)
      BY <3>1 DEF Call, Goto, shared, watchers
    <3>2. CASE ReadClock(p)
      BY <3>2 DEF ReadClock, Goto, shared, watchers
    <3>3. CASE TestPresent(p)
      BY <3>3 DEF TestPresent, Goto, shared, watchers
    <3>4. CASE TestLease(p)
      BY <3>4 DEF TestLease, Goto, shared, watchers
    <3>5. CASE ClearPresent(p)
      BY <3>5 DEF ClearPresent, Cleared, Goto, watchers
    <3>6. CASE Publish(p)
      BY <3>6 DEF Publish, Goto, shared, watchers
    <3> QED
      BY <2>1, <3>1, <3>2, <3>3, <3>4, <3>5, <3>6 DEF CallStep
  <2>2. ASSUME NEW w \in Watchers, WatcherStep(w) PROVE TypeOK'
    <3>1. CASE Attach(w)
      <4>1. sessions' \in Nat
        BY <3>1 DEF Attach
      <4> QED
        BY <3>1, <4>1 DEF Attach, shared, threads
    <3>2. CASE Poll(w)
      BY <3>2 DEF Poll, shared, threads
    <3>3. CASE RenewFirst(w)
      <4>1. wnow[w] \in Nat
        OBVIOUS
      <4>2. watcher_lease_until_ns' \in Nat /\ renewed' \in Nat
        BY <3>3, <4>1 DEF RenewFirst, StoreLease, LeaseEnd
      <4> QED
        BY <3>3, <4>2 DEF RenewFirst, StoreLease, threads
    <3>4. CASE RenewSecond(w)
      BY <3>4 DEF RenewSecond, StorePresent, threads
    <3>5. CASE ReleasePresent(w)
      BY <3>5 DEF ReleasePresent, threads
    <3>6. CASE ReleaseLease(w)
      BY <3>6 DEF ReleaseLease, threads
    <3>7. CASE Crash(w)
      BY <3>7 DEF Crash, shared, threads
    <3> QED
      BY <2>2, <3>1, <3>2, <3>3, <3>4, <3>5, <3>6, <3>7 DEF WatcherStep, RenewStep
  <2>3. CASE Tick
    <3>1. clock' \in Nat
      BY <2>3 DEF Tick
    <3> QED
      BY <2>3, <3>1 DEF Tick, shared, threads, watchers
  <2>4. CASE UNCHANGED vars
    BY <2>4 DEF vars
  <2> QED
    BY <2>1, <2>2, <2>3, <2>4 DEF Next
<1> QED
  BY <1>1, <1>2, PTL DEF Spec

-----------------------------------------------------------------------------
\* The lease in the shared state is never longer than the latest renewal's.
LeaseInv == watcher_lease_until_ns <= renewed + Duration

\* No call gets through the gate later than one lease after the latest renewal.
THEOREM PublishedUnderLeaseTheorem == Spec => []PublishedUnderLease
<1> USE LeaseAssumption
<1>1. Init => LeaseInv /\ PublishedUnderLease
  BY DEF Init, LeaseInv, PublishedUnderLease
<1>2. TypeOK /\ LeaseInv /\ PublishedUnderLease /\ [Next]_vars
        => LeaseInv' /\ PublishedUnderLease'
  <2> SUFFICES ASSUME TypeOK, LeaseInv, PublishedUnderLease, [Next]_vars
               PROVE  LeaseInv' /\ PublishedUnderLease'
    OBVIOUS
  <2>1. ASSUME NEW p \in Threads, CallStep(p)
        PROVE  LeaseInv' /\ PublishedUnderLease'
    <3>1. UNCHANGED <<watcher_lease_until_ns, renewed>>
      BY <2>1 DEF CallStep, Call, ReadClock, TestPresent, TestLease, ClearPresent,
                  Publish, shared, watchers
    <3>2. CASE TestLease(p)
      <4>1. pc'[p] = "publish" => now[p] <= watcher_lease_until_ns
        BY <3>2 DEF TestLease, Goto, Expired, TypeOK
      <4>2. pc'[p] = "publish" => now[p] <= renewed + Duration
        BY <4>1 DEF LeaseInv, TypeOK
      <4>3. now' = now /\ \A q \in Threads \ {p} : pc'[q] = pc[q]
        BY <3>2 DEF TestLease, Goto, TypeOK
      <4> QED
        BY <3>1, <4>2, <4>3 DEF LeaseInv, PublishedUnderLease
    <3>3. CASE ~TestLease(p)
      <4>1. /\ pc'[p] # "publish"
            /\ \A q \in Threads \ {p} : pc'[q] = pc[q] /\ now'[q] = now[q]
        BY <2>1, <3>3 DEF CallStep, Call, ReadClock, TestPresent, ClearPresent,
                          Publish, Goto, TypeOK
      <4> QED
        BY <3>1, <4>1 DEF LeaseInv, PublishedUnderLease
    <3> QED
      BY <3>2, <3>3
  <2>2. ASSUME NEW w \in Watchers, WatcherStep(w)
        PROVE  LeaseInv' /\ PublishedUnderLease'
    <3>1. UNCHANGED threads
      BY <2>2 DEF WatcherStep, RenewStep, Attach, Poll, RenewFirst, RenewSecond,
                  ReleasePresent, ReleaseLease, Crash
    <3>2. CASE RenewFirst(w)
      <4>1. renewed' \in Nat /\ wnow[w] <= renewed' /\ renewed <= renewed'
        BY <3>2 DEF RenewFirst, StoreLease, TypeOK
      <4>2. LeaseInv'
        BY <3>2, <4>1 DEF RenewFirst, StoreLease, LeaseEnd, LeaseInv, TypeOK
      <4>3. ASSUME NEW p \in Threads, pc[p] = "publish"
            PROVE  now[p] <= renewed' + Duration
        BY <4>1, <4>3 DEF PublishedUnderLease, TypeOK
      <4> QED
        BY <3>1, <4>2, <4>3 DEF PublishedUnderLease, threads
    <3>3. CASE ~RenewFirst(w)
      <4>1. renewed' = renewed /\ watcher_lease_until_ns' \in {watcher_lease_until_ns, 0}
        BY <2>2, <3>3 DEF WatcherStep, RenewStep, Attach, Poll, RenewSecond, StorePresent,
                          ReleasePresent, ReleaseLease, Crash, shared
      <4> QED
        BY <3>1, <4>1 DEF LeaseInv, PublishedUnderLease, threads, TypeOK
    <3> QED
      BY <3>2, <3>3
  <2>3. CASE Tick \/ UNCHANGED vars
    BY <2>3 DEF Tick, vars, shared, threads, watchers, LeaseInv, PublishedUnderLease
  <2> QED
    BY <2>1, <2>2, <2>3 DEF Next
<1> QED
  BY <1>1, <1>2, Typing, PTL DEF Spec

-----------------------------------------------------------------------------
\* While the flag is up somebody can still take it down: a session that is held,
\* unless a watcher died.
PresentInv == watcher_present = 1 => crashed # {} \/ \E w \in Watchers : Holding(w)

\* When every session has been released and no watcher died, the flag is down.
THEOREM SilentOnceReleasedTheorem == Spec => []SilentOnceReleased
<1>1. Init => PresentInv
  BY DEF Init, PresentInv
<1>2. TypeOK /\ PresentInv /\ [Next]_vars => PresentInv'
  <2> SUFFICES ASSUME TypeOK, PresentInv, [Next]_vars, watcher_present' = 1, crashed' = {}
               PROVE  \E w \in Watchers : Holding(w)'
    BY DEF PresentInv
  <2>1. ASSUME NEW p \in Threads, CallStep(p)
        PROVE  \E w \in Watchers : Holding(w)'
    <3>1. watcher_present = 1 /\ UNCHANGED <<session, wpc, crashed>>
      BY <2>1 DEF CallStep, Call, ReadClock, TestPresent, TestLease, ClearPresent,
                  Publish, Cleared, shared, watchers
    <3> QED
      BY <3>1 DEF PresentInv, Holding
  <2>2. ASSUME NEW w \in Watchers, WatcherStep(w)
        PROVE  \E v \in Watchers : Holding(v)'
    <3>1. CASE Attach(w)
      BY <3>1 DEF Attach, Holding, PresentInv, TypeOK, shared
    <3>2. CASE Poll(w)
      BY <3>2 DEF Poll, Holding, TypeOK
    <3>3. CASE RenewFirst(w)
      BY <3>3 DEF RenewFirst, StoreLease, Holding, PresentInv, TypeOK
    <3>4. CASE RenewSecond(w)
      BY <3>4 DEF RenewSecond, Holding, TypeOK
    <3>5. CASE ReleaseLease(w)
      BY <3>5 DEF ReleaseLease, Holding, PresentInv, TypeOK
    <3> QED
      BY <2>2, <3>1, <3>2, <3>3, <3>4, <3>5
         DEF WatcherStep, RenewStep, ReleasePresent, Crash
  <2>3. CASE Tick \/ UNCHANGED vars
    BY <2>3 DEF Tick, vars, shared, watchers, PresentInv, Holding
  <2> QED
    BY <2>1, <2>2, <2>3 DEF Next
<1>3. PresentInv /\ TypeOK => SilentOnceReleased
  BY DEF PresentInv, TypeOK, SilentOnceReleased, NoSession, Holding
<1> QED
  BY <1>1, <1>2, <1>3, Typing, PTL DEF Spec

-----------------------------------------------------------------------------
(***************************************************************************)
(* A watcher that polls twice per lease is heard throughout its session.   *)
(***************************************************************************)

Timely  == 2 * PollPeriod <= Duration
AllIdle == \A p \in Threads : pc[p] = "idle"

\* No call has read the clock in the future, and the clock is a word.
NowInv == clock <= LastInstant /\ \A p \in Threads : now[p] <= clock

\* The first session: before its first renewal has ended nobody is in a call;
\* afterwards its lease is the one of its last clock reading, or of the reading
\* before while the poll that took the last one has not stored it yet.
AttachingInv(w) ==
    /\ watcher_present = 0
    /\ AllIdle
    /\ clock <= wnow[w] + PollPeriod
    /\ wpc[w] \in {"first_store", "second_store"}
    /\ wpc[w] = "second_store" => watcher_lease_until_ns = LeaseEnd(wnow[w])

HoldingInv(w) ==
    /\ watcher_present = 1
    /\ \A p \in Threads : pc[p] # "clear"
    /\ clock <= wnow[w] + PollPeriod
    /\ wpc[w] = "first_store" => \/ wnow[w] + Duration <= watcher_lease_until_ns + PollPeriod
                                 \/ watcher_lease_until_ns = LastInstant
    /\ wpc[w] # "first_store" => watcher_lease_until_ns = LeaseEnd(wnow[w])

HeldInv ==
    /\ \A w \in Watchers : session[w] = "none" => wpc[w] = "idle"
    /\ sessions = 0 => NoSession /\ watcher_present = 0 /\ AllIdle
    /\ sessions = 1 =>
          /\ \A v, w \in Watchers : session[v] # "none" /\ session[w] # "none" => v = w
          /\ \A w \in Watchers : session[w] = "attaching" => AttachingInv(w)
          /\ \A w \in Watchers : Holding(w) => HoldingInv(w)

\* No thread reads the clock ahead of time.
LEMMA NowTheorem == Spec => []NowInv
<1> USE LeaseAssumption
<1>1. Init => NowInv
  <2> SUFFICES ASSUME Init PROVE NowInv
    OBVIOUS
  <2>1. clock = 1 /\ \A p \in Threads : now[p] = 0
    BY DEF Init
  <2> QED
    BY <2>1 DEF NowInv
<1>2. TypeOK /\ NowInv /\ [Next]_vars => NowInv'
  <2> SUFFICES ASSUME TypeOK, NowInv, [Next]_vars PROVE NowInv'
    OBVIOUS
  <2>1. ASSUME NEW p \in Threads, CallStep(p) PROVE NowInv'
    <3>1. clock' = clock /\ \A q \in Threads : now'[q] \in {now[q], clock}
      BY <2>1 DEF CallStep, Call, ReadClock, TestPresent, TestLease, ClearPresent,
                  Publish, TypeOK
    <3> QED
      BY <3>1 DEF NowInv, TypeOK
  <2>2. ASSUME NEW w \in Watchers, WatcherStep(w) PROVE NowInv'
    <3>1. UNCHANGED <<clock, now>>
      BY <2>2 DEF WatcherStep, RenewStep, Attach, Poll, RenewFirst, RenewSecond,
                  ReleasePresent, ReleaseLease, Crash, threads
    <3> QED
      BY <3>1 DEF NowInv
  <2>3. CASE Tick \/ UNCHANGED vars
    BY <2>3 DEF Tick, vars, threads, NowInv, TypeOK
  <2> QED
    BY <2>1, <2>2, <2>3 DEF Next
<1> QED
  BY <1>1, <1>2, Typing, PTL DEF Spec

\* A watcher that polls twice per lease keeps the gate open for its session.
THEOREM HeldOpenTheorem == Spec => []HeldOpen
<1>1. CASE Timely
  <2> USE LeaseAssumption
  <2>0. ASSUME TypeOK, NowInv, NEW w \in Watchers, HoldingInv(w)
        PROVE  clock <= watcher_lease_until_ns
    BY <1>1, <2>0 DEF HoldingInv, LeaseEnd, NowInv, Timely, TypeOK
  <2>1. Init => HeldInv
    BY DEF Init, HeldInv, NoSession, AllIdle
  <2>2. TypeOK /\ NowInv /\ HeldInv /\ [Next]_vars => HeldInv'
    <3> SUFFICES ASSUME TypeOK, NowInv, HeldInv, [Next]_vars PROVE HeldInv'
      OBVIOUS
    <3>1. ASSUME NEW p \in Threads, CallStep(p) PROVE HeldInv'
      <4>1. UNCHANGED <<watcher_lease_until_ns, clock, session, wpc, wnow, sessions>>
        BY <3>1 DEF CallStep, Call, ReadClock, TestPresent, TestLease, ClearPresent,
                    Publish, shared, watchers
      <4>2. watcher_present = 0 /\ AllIdle => watcher_present' = 0 /\ AllIdle'
        BY <3>1 DEF CallStep, Call, ReadClock, TestPresent, TestLease, ClearPresent,
                    Publish, AllIdle
      <4>3. ASSUME NEW w \in Watchers, sessions = 1, Holding(w), HoldingInv(w)
            PROVE  watcher_present' = 1 /\ \A q \in Threads : pc'[q] # "clear"
        <5>1. CASE TestLease(p)
          <6>1. now[p] <= watcher_lease_until_ns
            BY <2>0, <4>3 DEF NowInv, TypeOK
          <6>2. ~Expired(watcher_lease_until_ns, now[p])
            BY <6>1 DEF Expired, TypeOK
          <6> QED
            BY <4>3, <5>1, <6>2 DEF TestLease, Goto, HoldingInv, TypeOK, shared
        <5>2. CASE ~TestLease(p)
          BY <3>1, <4>3, <5>2 DEF CallStep, Call, ReadClock, TestPresent, ClearPresent,
                                  Publish, Goto, HoldingInv, TypeOK, shared
        <5> QED
          BY <5>1, <5>2
      <4> QED
        BY <4>1, <4>2, <4>3
           DEF HeldInv, NoSession, Holding, AttachingInv, HoldingInv
    <3>2. ASSUME NEW w \in Watchers, WatcherStep(w) PROVE HeldInv'
      <4>0. UNCHANGED <<pc, clock>>
        BY <3>2 DEF WatcherStep, RenewStep, Attach, Poll, RenewFirst, RenewSecond,
                    ReleasePresent, ReleaseLease, Crash, threads
      <4>1. CASE Attach(w)
        <5>1. sessions' = 1 => sessions = 0
          BY <4>1 DEF Attach, TypeOK
        <5>2. sessions' # 0
          BY <4>1 DEF Attach, TypeOK
        <5>3. /\ wnow'[w] = clock /\ wpc'[w] = "first_store" /\ session'[w] = "attaching"
              /\ \A v \in Watchers \ {w} : session'[v] = session[v]
              /\ watcher_present' = watcher_present
          BY <4>1 DEF Attach, TypeOK, shared
        <5>4. sessions' = 1 => AttachingInv(w)'
          <6>1. clock <= clock + PollPeriod
            BY DEF TypeOK
          <6>2. sessions = 0 => watcher_present = 0 /\ AllIdle
            BY DEF HeldInv
          <6> QED
            BY <4>0, <5>1, <5>3, <6>1, <6>2 DEF AttachingInv, AllIdle
        <5>5. sessions' = 1 => \A v \in Watchers \ {w} : session'[v] = "none"
          BY <5>1, <5>3 DEF HeldInv, NoSession
        <5>6. \A v \in Watchers : session'[v] = "none" => wpc'[v] = "idle"
          BY <4>1, <5>3 DEF HeldInv, Attach, TypeOK
        <5> QED
          BY <5>2, <5>3, <5>4, <5>5, <5>6 DEF HeldInv, Holding
      <4>2. CASE Poll(w)
        <5>1. /\ UNCHANGED <<sessions, session, watcher_present, watcher_lease_until_ns>>
              /\ Holding(w) /\ wpc[w] = "idle"
              /\ wnow'[w] = clock /\ wpc'[w] = "first_store"
              /\ \A v \in Watchers \ {w} : wpc'[v] = wpc[v] /\ wnow'[v] = wnow[v]
          BY <4>2 DEF Poll, TypeOK, shared, Holding
        <5>2. sessions = 1 => HoldingInv(w)'
          <6>1. sessions = 1 => /\ HoldingInv(w)
                                /\ \/ clock + Duration <= watcher_lease_until_ns + PollPeriod
                                   \/ watcher_lease_until_ns = LastInstant
            BY <5>1 DEF HeldInv, HoldingInv, LeaseEnd, TypeOK
          <6>2. clock <= clock + PollPeriod
            BY DEF TypeOK
          <6> QED
            BY <4>0, <5>1, <6>1, <6>2 DEF HoldingInv
        <5>3. sessions # 0
          BY <5>1 DEF HeldInv, NoSession, Holding
        <5> QED
          BY <4>0, <5>1, <5>2, <5>3 DEF HeldInv, Holding
      <4>3. CASE RenewFirst(w)
        <5>1. /\ UNCHANGED <<sessions, session, wnow, watcher_present>>
              /\ wpc[w] = "first_store" /\ wpc'[w] = "second_store"
              /\ watcher_lease_until_ns' = LeaseEnd(wnow[w])
              /\ \A v \in Watchers \ {w} : wpc'[v] = wpc[v]
          BY <4>3 DEF RenewFirst, StoreLease, TypeOK
        <5>2. session[w] # "none"
          BY <5>1, <4>3 DEF HeldInv
        <5> QED
          BY <4>0, <5>1, <5>2
             DEF HeldInv, Holding, HoldingInv, AttachingInv, AllIdle, NoSession
      <4>4. CASE RenewSecond(w)
        <5>1. /\ UNCHANGED <<sessions, wnow, watcher_lease_until_ns>>
              /\ wpc[w] = "second_store" /\ wpc'[w] = "idle"
              /\ session'[w] = "held" /\ session[w] # "none"
              /\ watcher_present' = 1
              /\ \A v \in Watchers \ {w} : wpc'[v] = wpc[v] /\ session'[v] = session[v]
          BY <4>4 DEF RenewSecond, StorePresent, TypeOK, HeldInv
        <5>2. sessions # 0
          BY <5>1 DEF HeldInv, NoSession
        <5>3. sessions = 1 => HoldingInv(w)'
          <6>1. CASE session[w] = "attaching"
            BY <4>0, <5>1, <6>1 DEF HeldInv, AttachingInv, HoldingInv, AllIdle
          <6>2. CASE session[w] = "held"
            BY <4>0, <5>1, <6>2 DEF HeldInv, HoldingInv, Holding
          <6> QED
            BY <5>1, <6>1, <6>2 DEF TypeOK
        <5>4. sessions = 1 => \A v \in Watchers \ {w} : session'[v] = "none"
          BY <5>1 DEF HeldInv
        <5> QED
          BY <5>1, <5>2, <5>3, <5>4 DEF HeldInv, Holding
      <4>5. CASE ReleasePresent(w)
        <5>1. /\ UNCHANGED <<sessions, session>>
              /\ wpc'[w] = "release_lease"
              /\ session[w] = "held"
              /\ \A v \in Watchers \ {w} : wpc'[v] = wpc[v]
          BY <4>5 DEF ReleasePresent, TypeOK
        <5>2. sessions # 0
          BY <5>1 DEF HeldInv, NoSession
        <5>3. sessions = 1 => \A v \in Watchers \ {w} : session[v] = "none"
          BY <5>1 DEF HeldInv
        <5> QED
          BY <5>1, <5>2, <5>3 DEF HeldInv, Holding
      <4>6. CASE ReleaseLease(w) \/ Crash(w)
        <5>1. /\ sessions' = sessions
              /\ session[w] # "none"
              /\ session'[w] = "none" /\ wpc'[w] = "idle"
              /\ \A v \in Watchers \ {w} : wpc'[v] = wpc[v] /\ session'[v] = session[v]
          BY <4>6 DEF ReleaseLease, Crash, TypeOK, HeldInv
        <5>2. sessions # 0
          BY <5>1 DEF HeldInv, NoSession
        <5>3. sessions = 1 => \A v \in Watchers : session'[v] = "none"
          BY <5>1 DEF HeldInv
        <5> QED
          BY <5>1, <5>2, <5>3 DEF HeldInv, Holding
      <4> QED
        BY <3>2, <4>1, <4>2, <4>3, <4>4, <4>5, <4>6 DEF WatcherStep, RenewStep
    <3>3. CASE Tick
      <4>1. /\ clock' = clock + 1
            /\ UNCHANGED <<watcher_present, watcher_lease_until_ns, pc, session, wpc,
                           wnow, sessions>>
            /\ \A w \in Watchers : session[w] = "attaching" \/ Holding(w)
                                      => clock + 1 <= wnow[w] + PollPeriod
        BY <3>3 DEF Tick, shared, threads, watchers, TypeOK
      <4> QED
        BY <4>1 DEF HeldInv, NoSession, AllIdle, AttachingInv, HoldingInv, Holding
    <3>4. CASE UNCHANGED vars
      BY <3>4 DEF vars, HeldInv, NoSession, AllIdle, AttachingInv, HoldingInv, Holding
    <3> QED
      BY <3>1, <3>2, <3>3, <3>4 DEF Next
  <2>3. TypeOK /\ NowInv /\ HeldInv => HeldOpen
    BY <2>0 DEF HeldInv, HoldingInv, HeldOpen
  <2> QED
    BY <2>1, <2>2, <2>3, Typing, NowTheorem, PTL DEF Spec
<1>2. CASE ~Timely
  <2>1. HeldOpen
    BY <1>2 DEF HeldOpen, Timely
  <2> QED
    BY <2>1, PTL
<1> QED
  BY <1>1, <1>2
=============================================================================
