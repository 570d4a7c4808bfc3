------------------------ MODULE HeartbeatSlot_proofs ------------------------
(***************************************************************************)
(* Proofs about HeartbeatSlot, for every set of threads, interval and      *)
(* stall and without use of the bound on the clock.                        *)
(***************************************************************************)
EXTENDS HeartbeatSlot, TLAPS

\* The values the steps of a call leave alone.
LEMMA CallFrame ==
    ASSUME NEW p \in Threads, HeartbeatStep(p)
    PROVE  UNCHANGED clock /\ UNCHANGED reader
  BY DEF HeartbeatStep, ReadClock, TurnedAway, LoadNext, Throttle, ReturnThrottled,
         Accept, Retry, StoreActive, StoreTimestamp, BumpSequence

\* The steps of read_heartbeat.
ReadStep == BeginRead \/ LoadActive \/ LoadTimestamp \/ LoadAfter \/ LoadBefore

\* read_heartbeat changes nothing that a call of client::heartbeat looks at.
LEMMA ReadFrame ==
    ASSUME ReadStep
    PROVE  /\ UNCHANGED <<clock, next_heartbeat_ns>>
           /\ UNCHANGED slot
           /\ UNCHANGED threads
           /\ UNCHANGED history
  BY DEF ReadStep, BeginRead, LoadActive, LoadTimestamp, LoadAfter, LoadBefore,
         ReaderStep

\* A further attempt is one the loop allows.
AttemptInv == rpc = "before" => attempt < Attempts

\* Type correctness.
THEOREM Typing == Spec => []TypeOK
<1> USE SlotAssumption DEF TypeOK, Timed, Attempts
<1>1. Init => TypeOK /\ AttemptInv
  BY DEF Init, AttemptInv
<1>2. TypeOK /\ AttemptInv /\ [Next]_vars => TypeOK' /\ AttemptInv'
  <2> SUFFICES ASSUME TypeOK, AttemptInv, [Next]_vars PROVE TypeOK' /\ AttemptInv'
    OBVIOUS
  <2>1. ASSUME NEW p \in Threads, NEW on \in BOOLEAN, SetChannelActive(p, on)
        PROVE  TypeOK'
    BY <2>1 DEF SetChannelActive, Goto, reader, history
  <2>2. ASSUME NEW p \in Threads, HeartbeatStep(p) PROVE TypeOK'
    <3>1. CASE ReadClock(p)
      BY <3>1 DEF ReadClock, Goto, slot, reader, history
    <3>2. CASE TurnedAway(p)
      BY <3>2 DEF TurnedAway, Goto, slot, reader, history
    <3>3. CASE LoadNext(p)
      BY <3>3 DEF LoadNext, Goto, slot, reader, history
    <3>4. CASE Throttle(p)
      BY <3>4 DEF Throttle, Goto, slot, reader, history
    <3>5. CASE ReturnThrottled(p)
      BY <3>5 DEF ReturnThrottled, Goto, slot, reader, history
    <3>6. CASE Accept(p)
      <4>1. next_heartbeat_ns' \in Nat /\ accepted' \in Seq(Nat)
        BY <3>6 DEF Accept, NextBeat
      <4> QED
        BY <3>6, <4>1 DEF Accept, Goto, slot, reader
    <3>7. CASE Retry(p)
      BY <3>7 DEF Retry, slot, reader, history
    <3>8. CASE StoreActive(p)
      BY <3>8 DEF StoreActive, Goto, reader, history
    <3>9. CASE StoreTimestamp(p)
      BY <3>9 DEF StoreTimestamp, Goto, reader, history
    <3>10. CASE BumpSequence(p)
      <4>1. sequence' \in Nat /\ stamps' \in Seq(Nat)
        BY <3>10 DEF BumpSequence
      <4> QED
        BY <3>10, <4>1 DEF BumpSequence, Goto, reader
    <3> QED
      BY <2>2, <3>1, <3>2, <3>3, <3>4, <3>5, <3>6, <3>7, <3>8, <3>9, <3>10
         DEF HeartbeatStep
  <2>3. ASSUME ReadStep PROVE TypeOK'
    <3>1. rpc' \in {"done", "before", "active", "timestamp", "after"}
      BY <2>3 DEF ReadStep, BeginRead, LoadActive, LoadTimestamp, LoadAfter, LoadBefore
    <3>2. before' \in Nat /\ first' \in Nat
      BY <2>3 DEF ReadStep, BeginRead, LoadActive, LoadTimestamp, LoadAfter, LoadBefore
    <3>3. result' \in [active : {0, 1}, timestamp_ns : Nat, sequence : Nat]
      BY <2>3 DEF ReadStep, BeginRead, LoadActive, LoadTimestamp, LoadAfter, LoadBefore
    <3>4. attempt' \in 1 .. 3
      BY <2>3 DEF ReadStep, BeginRead, LoadActive, LoadTimestamp, LoadAfter, LoadBefore,
                  AttemptInv
    <3> QED
      BY <2>3, <3>1, <3>2, <3>3, <3>4, ReadFrame DEF slot, threads, history
  <2>4. ASSUME Tick PROVE TypeOK'
    BY <2>4 DEF Tick, slot, threads, reader, history
  <2>5. ASSUME UNCHANGED vars PROVE TypeOK'
    BY <2>5 DEF vars
  <2>6. AttemptInv'
    <3>1. CASE ReadStep
      BY <3>1 DEF ReadStep, BeginRead, LoadActive, LoadTimestamp, LoadAfter, LoadBefore,
                  AttemptInv, IsLast
    <3>2. CASE ~ReadStep
      <4>1. UNCHANGED reader
        BY <3>2, CallFrame DEF Next, ReadStep, SetChannelActive, Tick, vars, reader
      <4> QED
        BY <4>1 DEF AttemptInv, reader
    <3> QED
      BY <3>1, <3>2
  <2> QED
    BY <2>1, <2>2, <2>3, <2>4, <2>5, <2>6 DEF Next, ReadStep
<1> QED
  BY <1>1, <1>2, PTL DEF Spec

-----------------------------------------------------------------------------
\* Every beat let through is Interval or more before the throttle's next opening.
ThrottleInv ==
    \A i \in 1 .. Len(accepted) : accepted[i] + Interval <= next_heartbeat_ns

\* Steps other than a successful exchange leave the throttle alone.
LEMMA ThrottleFrame ==
    ASSUME [Next]_vars
    PROVE  \/ UNCHANGED <<next_heartbeat_ns, accepted>>
           \/ \E p \in Threads : Accept(p)
<1>1. ASSUME NEW p \in Threads, HeartbeatStep(p), ~Accept(p)
      PROVE  UNCHANGED <<next_heartbeat_ns, accepted>>
  BY <1>1 DEF HeartbeatStep, ReadClock, TurnedAway, LoadNext, Throttle, ReturnThrottled,
              Retry, StoreActive, StoreTimestamp, BumpSequence, history
<1>2. CASE ReadStep
  BY <1>2, ReadFrame DEF history
<1> QED
  BY <1>1, <1>2 DEF Next, ReadStep, SetChannelActive, Tick, vars, history

\* Any two beats the throttle lets through were timed Interval apart, whatever
\* threads race for it and however long they stall.
THEOREM RateLimitedTheorem == Spec => []RateLimited
<1> USE SlotAssumption
<1>1. Init => ThrottleInv /\ RateLimited
  BY DEF Init, ThrottleInv, RateLimited
<1>2. TypeOK /\ ThrottleInv /\ RateLimited /\ [Next]_vars => ThrottleInv' /\ RateLimited'
  <2> SUFFICES ASSUME TypeOK, ThrottleInv, RateLimited, [Next]_vars
               PROVE  ThrottleInv' /\ RateLimited'
    OBVIOUS
  <2>1. CASE UNCHANGED <<next_heartbeat_ns, accepted>>
    BY <2>1 DEF ThrottleInv, RateLimited
  <2>2. ASSUME NEW p \in Threads, Accept(p) PROVE ThrottleInv' /\ RateLimited'
    <3>1. /\ accepted \in Seq(Nat) /\ now[p] \in Nat /\ next_heartbeat_ns \in Nat
          /\ now[p] >= next_heartbeat_ns
          /\ next_heartbeat_ns' = now[p] + Interval
          /\ accepted' = Append(accepted, now[p])
      BY <2>2 DEF Accept, Exchanged, NextBeat, TypeOK
    <3>2. /\ Len(accepted') = Len(accepted) + 1
          /\ \A i \in 1 .. Len(accepted) : accepted'[i] = accepted[i] /\ accepted[i] \in Nat
          /\ accepted'[Len(accepted) + 1] = now[p]
      BY <3>1
    <3>3. \A i \in 1 .. Len(accepted) : accepted[i] + Interval <= now[p]
      BY <3>1, <3>2 DEF ThrottleInv
    <3>4. \A i \in 1 .. Len(accepted') : i \in 1 .. Len(accepted) \/ i = Len(accepted) + 1
      BY <3>1, <3>2
    <3>5. ThrottleInv'
      BY <3>1, <3>2, <3>3, <3>4 DEF ThrottleInv
    <3>6. RateLimited'
      <4> SUFFICES ASSUME NEW i \in 1 .. Len(accepted'), NEW j \in 1 .. Len(accepted'), i < j
                   PROVE  accepted'[i] + Interval <= accepted'[j]
        BY DEF RateLimited
      <4>1. i \in 1 .. Len(accepted)
        BY <3>1, <3>2
      <4>2. CASE j \in 1 .. Len(accepted)
        BY <3>2, <4>1, <4>2 DEF RateLimited
      <4>3. CASE j = Len(accepted) + 1
        BY <3>2, <3>3, <4>1, <4>3
      <4> QED
        BY <3>4, <4>2, <4>3
    <3> QED
      BY <3>5, <3>6
  <2> QED
    BY <2>1, <2>2, ThrottleFrame
<1> QED
  BY <1>1, <1>2, Typing, PTL DEF Spec

-----------------------------------------------------------------------------
(***************************************************************************)
(* While no call stalls for Interval, beats reach the slot one by one.     *)
(***************************************************************************)

\* A call in progress read the clock at most MaxStall ago, from a clock that
\* started at one.
ClockInv ==
    /\ clock >= 1
    /\ \A p \in Threads : pc[p] \in Timed =>
          1 <= now[p] /\ now[p] <= clock /\ clock <= now[p] + MaxStall

\* The beat the throttle let through last is the only one on its way to the slot,
\* and what the slot holds is Interval or more older.
SlotInv ==
    /\ \A p \in Threads : next[p] <= next_heartbeat_ns
    /\ \A p \in Threads : pc[p] = "throttled" => now[p] < next[p]
    /\ \A p, q \in Threads : Storing(p) /\ Storing(q) => p = q
    /\ \A p \in Threads : Storing(p) => next_heartbeat_ns = now[p] + Interval
    /\ \A p \in Threads :
          pc[p] \in {"store_active", "store_timestamp"} /\ timestamp_ns # 0
             => timestamp_ns + Interval <= now[p]
    /\ \A p \in Threads : pc[p] = "bump_sequence" => timestamp_ns = now[p]
    /\ (\A p \in Threads : ~Storing(p)) =>
          IF next_heartbeat_ns = 0 THEN timestamp_ns = 0
                                   ELSE next_heartbeat_ns = timestamp_ns + Interval

\* No call in progress is older than MaxStall.
LEMMA ClockTheorem == Spec => []ClockInv
<1>1. Init => ClockInv
  BY DEF Init, ClockInv, Timed
<1>2. TypeOK /\ ClockInv /\ [Next]_vars => ClockInv'
  <2> SUFFICES ASSUME TypeOK, ClockInv, [Next]_vars PROVE ClockInv'
    OBVIOUS
  <2>1. ASSUME NEW p \in Threads, HeartbeatStep(p) PROVE ClockInv'
    <3>1. CASE ReadClock(p)
      <4>1. clock <= clock + MaxStall
        BY SlotAssumption DEF TypeOK
      <4>2. /\ clock' = clock /\ now'[p] = clock
            /\ \A q \in Threads \ {p} : now'[q] = now[q] /\ pc'[q] = pc[q]
        BY <3>1 DEF ReadClock, Goto, TypeOK
      <4> SUFFICES ASSUME NEW q \in Threads, pc'[q] \in Timed
                   PROVE  1 <= now'[q] /\ now'[q] <= clock' /\ clock' <= now'[q] + MaxStall
        BY <4>2 DEF ClockInv
      <4>3. CASE q = p
        BY <4>1, <4>2, <4>3 DEF ClockInv, TypeOK
      <4>4. CASE q # p
        BY <4>2, <4>4 DEF ClockInv
      <4> QED
        BY <4>3, <4>4
    <3>2. CASE ~ReadClock(p)
      <4>1. /\ now' = now
            /\ clock' = clock
            /\ \A q \in Threads : pc'[q] \in Timed => pc[q] \in Timed
        BY <2>1, <3>2
           DEF HeartbeatStep, TurnedAway, LoadNext, Throttle, ReturnThrottled, Accept,
               Retry, StoreActive, StoreTimestamp, BumpSequence, Goto, TypeOK, Timed
      <4> QED
        BY <4>1 DEF ClockInv
    <3> QED
      BY <3>1, <3>2
  <2>2. ASSUME NEW p \in Threads, NEW on \in BOOLEAN, SetChannelActive(p, on)
        PROVE  ClockInv'
    <3>1. /\ now' = now
          /\ clock' = clock
          /\ \A q \in Threads : pc'[q] \in Timed => pc[q] \in Timed
      BY <2>2 DEF SetChannelActive, Goto, TypeOK, Timed
    <3> QED
      BY <3>1 DEF ClockInv
  <2>3. CASE ReadStep
    BY <2>3, ReadFrame DEF ClockInv, threads
  <2>4. CASE Tick
    <3>1. /\ clock' = clock + 1 /\ pc' = pc /\ now' = now
          /\ \A p \in Threads : pc[p] \in Timed => clock < now[p] + MaxStall
      BY <2>4 DEF Tick, threads
    <3>2. clock \in Nat /\ MaxStall \in Nat /\ \A p \in Threads : now[p] \in Nat
      BY SlotAssumption DEF TypeOK
    <3> QED
      BY <3>1, <3>2 DEF ClockInv
  <2>5. CASE UNCHANGED vars
    BY <2>5 DEF vars, ClockInv
  <2> QED
    BY <2>1, <2>2, <2>3, <2>4, <2>5 DEF Next, ReadStep
<1> QED
  BY <1>1, <1>2, Typing, PTL DEF Spec

\* Prompt calls store into the slot one after the other.
LEMMA SlotTheorem ==
    ASSUME Prompt
    PROVE  Spec => []SlotInv
<1> USE SlotAssumption
<1>1. Init => SlotInv
  BY DEF Init, SlotInv, Storing
<1>2. TypeOK /\ ClockInv /\ SlotInv /\ [Next]_vars => SlotInv'
  <2> SUFFICES ASSUME TypeOK, ClockInv, SlotInv, [Next]_vars PROVE SlotInv'
    OBVIOUS
  <2>0. /\ next_heartbeat_ns \in Nat /\ timestamp_ns \in Nat /\ clock \in Nat
        /\ now \in [Threads -> Nat] /\ next \in [Threads -> Nat]
        /\ pc \in [Threads -> Timed \cup {"idle", "start"}]
    BY DEF TypeOK
  <2>1. ASSUME NEW p \in Threads, Accept(p) PROVE SlotInv'
    <3>1. /\ now[p] >= next_heartbeat_ns
          /\ next_heartbeat_ns' = now[p] + Interval
          /\ pc[p] = "try" /\ pc' = [pc EXCEPT ![p] = "store_active"]
          /\ UNCHANGED <<now, next, timestamp_ns>>
      BY <2>1 DEF Accept, Exchanged, NextBeat, Goto, slot, SlotInv, TypeOK
    <3>2. 1 <= now[p] /\ now[p] <= clock
      BY <3>1 DEF ClockInv, Timed
    <3>3. \A q \in Threads : ~Storing(q)
      <4> SUFFICES ASSUME NEW q \in Threads, Storing(q) PROVE FALSE
        OBVIOUS
      <4>1. next_heartbeat_ns = now[q] + Interval /\ clock <= now[q] + MaxStall
        BY DEF SlotInv, ClockInv, Storing, Timed
      <4>2. now[q] \in Nat /\ now[p] \in Nat /\ now[p] <= clock
        BY <2>0, <3>2
      <4> QED
        BY <2>0, <3>1, <4>1, <4>2 DEF Prompt
    <3>4. timestamp_ns # 0 => timestamp_ns + Interval <= now[p]
      BY <2>0, <3>1, <3>3 DEF SlotInv
    <3>5. /\ pc'[p] = "store_active"
          /\ \A q \in Threads \ {p} : pc'[q] = pc[q]
          /\ \A q \in Threads : Storing(q)' => q = p
      BY <2>0, <3>1, <3>3 DEF Storing
    <3>6. next_heartbeat_ns <= next_heartbeat_ns'
      BY <2>0, <3>1
    <3>7. \A q \in Threads : next[q] <= next_heartbeat_ns'
      BY <2>0, <3>1, <3>6 DEF SlotInv
    <3> QED
      BY <3>1, <3>4, <3>5, <3>7 DEF SlotInv, Storing
  <2>2. ASSUME NEW p \in Threads, LoadNext(p) \/ Retry(p) PROVE SlotInv'
    <3>1. /\ next' = [next EXCEPT ![p] = next_heartbeat_ns]
          /\ UNCHANGED <<next_heartbeat_ns, now, timestamp_ns>>
          /\ pc[p] \in {"load_next", "try"} /\ pc'[p] = "try"
          /\ \A q \in Threads \ {p} : pc'[q] = pc[q]
      BY <2>2 DEF LoadNext, Retry, Goto, slot, TypeOK
    <3>2. \A q \in Threads : Storing(q)' <=> Storing(q)
      BY <3>1 DEF Storing
    <3>3. \A q \in Threads : next'[q] <= next_heartbeat_ns
      BY <2>0, <3>1 DEF SlotInv
    <3>4. \A q \in Threads \ {p} : next'[q] = next[q]
      BY <2>0, <3>1
    <3> QED
      BY <3>1, <3>2, <3>3, <3>4 DEF SlotInv
  <2>3. ASSUME NEW p \in Threads, StoreActive(p) PROVE SlotInv'
    <3>1. /\ UNCHANGED <<next_heartbeat_ns, now, next, timestamp_ns>>
          /\ pc[p] = "store_active" /\ pc'[p] = "store_timestamp"
          /\ \A q \in Threads \ {p} : pc'[q] = pc[q]
      BY <2>3 DEF StoreActive, Goto, TypeOK
    <3>2. \A q \in Threads : Storing(q)' <=> Storing(q)
      BY <3>1 DEF Storing
    <3> QED
      BY <3>1, <3>2 DEF SlotInv
  <2>4. ASSUME NEW p \in Threads, StoreTimestamp(p) PROVE SlotInv'
    <3>1. /\ UNCHANGED <<next_heartbeat_ns, now, next>>
          /\ timestamp_ns' = now[p]
          /\ pc[p] = "store_timestamp" /\ pc'[p] = "bump_sequence"
          /\ \A q \in Threads \ {p} : pc'[q] = pc[q]
      BY <2>4 DEF StoreTimestamp, Goto, TypeOK
    <3>2. \A q \in Threads : Storing(q)' <=> Storing(q)
      BY <3>1 DEF Storing
    <3>3. \A q \in Threads : Storing(q) => q = p
      BY <3>1 DEF SlotInv, Storing
    <3> QED
      BY <3>1, <3>2, <3>3 DEF SlotInv, Storing
  <2>5. ASSUME NEW p \in Threads, BumpSequence(p) PROVE SlotInv'
    <3>1. /\ UNCHANGED <<next_heartbeat_ns, now, next, timestamp_ns>>
          /\ pc[p] = "bump_sequence" /\ pc'[p] = "idle"
          /\ \A q \in Threads \ {p} : pc'[q] = pc[q]
      BY <2>5 DEF BumpSequence, Goto, TypeOK
    <3>2. \A q \in Threads : ~Storing(q)'
      BY <3>1 DEF SlotInv, Storing
    <3>3. next_heartbeat_ns = timestamp_ns + Interval
      BY <3>1 DEF SlotInv, Storing
    <3> QED
      BY <2>0, <3>1, <3>2, <3>3 DEF SlotInv, Storing
  <2>6. ASSUME NEW p \in Threads, ReadClock(p) PROVE SlotInv'
    <3>1. /\ UNCHANGED <<next_heartbeat_ns, next, timestamp_ns>>
          /\ pc[p] \in {"idle", "start"} /\ pc'[p] = "load_next"
          /\ \A q \in Threads \ {p} : pc'[q] = pc[q] /\ now'[q] = now[q]
      BY <2>6 DEF ReadClock, Goto, slot, TypeOK
    <3>2. \A q \in Threads : (Storing(q)' <=> Storing(q)) /\ (Storing(q) => q # p)
      BY <3>1 DEF Storing
    <3> QED
      BY <3>1, <3>2 DEF SlotInv
  <2>7. ASSUME NEW p \in Threads,
               \/ TurnedAway(p) \/ Throttle(p) \/ ReturnThrottled(p)
               \/ \E on \in BOOLEAN : SetChannelActive(p, on)
        PROVE  SlotInv'
    <3>1. /\ UNCHANGED <<next_heartbeat_ns, now, next, timestamp_ns>>
          /\ pc'[p] \in {"idle", "start", "throttled"}
          /\ pc'[p] = "throttled" => now[p] < next[p]
          /\ ~Storing(p)
          /\ \A q \in Threads \ {p} : pc'[q] = pc[q]
      BY <2>7 DEF TurnedAway, Throttle, ReturnThrottled, SetChannelActive, Goto, slot,
                  Storing, TypeOK
    <3>2. \A q \in Threads : Storing(q)' <=> Storing(q)
      BY <3>1 DEF Storing
    <3> QED
      BY <3>1, <3>2 DEF SlotInv
  <2>8. CASE ReadStep \/ Tick \/ UNCHANGED vars
    <3>1. UNCHANGED <<next_heartbeat_ns, timestamp_ns, pc, now, next>>
      BY <2>8, ReadFrame DEF Tick, vars, slot, threads
    <3> QED
      BY <3>1 DEF SlotInv, Storing
  <2> QED
    BY <2>1, <2>2, <2>3, <2>4, <2>5, <2>6, <2>7, <2>8
       DEF Next, HeartbeatStep, ReadStep
<1> QED
  BY <1>1, <1>2, Typing, ClockTheorem, PTL DEF Spec

\* While no call stalls for Interval the slot's timestamp never goes back and moves
\* by Interval or more.
THEOREM TimestampAdvancesTheorem == Spec => TimestampAdvances
<1>1. CASE Prompt
  <2>1. TypeOK /\ SlotInv /\ [Next]_vars =>
          [Prompt /\ timestamp_ns # 0 /\ timestamp_ns' # timestamp_ns
             => timestamp_ns' >= timestamp_ns + Interval]_vars
    <3> SUFFICES ASSUME TypeOK, SlotInv, [Next]_vars, timestamp_ns # 0,
                        timestamp_ns' # timestamp_ns
                 PROVE  timestamp_ns' >= timestamp_ns + Interval
      OBVIOUS
    <3>1. PICK p \in Threads : StoreTimestamp(p)
      <4>1. ASSUME NEW p \in Threads, HeartbeatStep(p) PROVE StoreTimestamp(p)
        BY <4>1 DEF HeartbeatStep, ReadClock, TurnedAway, LoadNext, Throttle,
                    ReturnThrottled, Accept, Retry, StoreActive, BumpSequence, slot
      <4> QED
        BY <4>1, ReadFrame DEF Next, ReadStep, SetChannelActive, Tick, vars, slot
    <3> QED
      BY <3>1, SlotAssumption DEF StoreTimestamp, SlotInv, TypeOK
  <2> QED
    BY <1>1, <2>1, Typing, SlotTheorem, PTL DEF Spec, TimestampAdvances
<1>2. CASE ~Prompt
  <2>1. [Next]_vars => [Prompt /\ timestamp_ns # 0 /\ timestamp_ns' # timestamp_ns
                          => timestamp_ns' >= timestamp_ns + Interval]_vars
    BY <1>2
  <2> QED
    BY <2>1, PTL DEF Spec, TimestampAdvances
<1> QED
  BY <1>1, <1>2

\* A beat is dropped only in favour of one less than Interval older that is in the
\* slot or on its way there.
THEOREM ThrottledIsFreshTheorem == Spec => []ThrottledIsFresh
<1>1. CASE Prompt
  <2>1. TypeOK /\ SlotInv => ThrottledIsFresh
    <3> SUFFICES ASSUME TypeOK, SlotInv, NEW p \in Threads, pc[p] = "throttled",
                        \A q \in Threads : ~Storing(q)
                 PROVE  now[p] < timestamp_ns + Interval
      BY DEF ThrottledIsFresh
    <3>1. now[p] < next[p] /\ next[p] <= next_heartbeat_ns
      BY DEF SlotInv
    <3>2. now[p] \in Nat /\ next[p] \in Nat /\ next_heartbeat_ns \in Nat
      BY DEF TypeOK
    <3>3. now[p] < next_heartbeat_ns /\ next_heartbeat_ns # 0
      BY <3>1, <3>2
    <3> QED
      BY <3>3 DEF SlotInv
  <2> QED
    BY <1>1, <2>1, Typing, SlotTheorem, PTL
<1>2. CASE ~Prompt
  <2>1. ThrottledIsFresh
    BY <1>2 DEF ThrottledIsFresh
  <2> QED
    BY <2>1, PTL
<1> QED
  BY <1>1, <1>2

-----------------------------------------------------------------------------
(***************************************************************************)
(* What read_heartbeat pairs.                                              *)
(***************************************************************************)

\* One clock reading is behind each sequence number, none later than the slot's.
StampInv ==
    /\ Len(stamps) = sequence
    /\ \A i \in 1 .. sequence : stamps[i] \in Nat /\ stamps[i] <= timestamp_ns

\* A failed attempt saw a beat end, so that the attempts count beats; what was loaded
\* between two sequence numbers is as recent as the first of them.
ReadInv ==
    /\ rpc \in {"active", "timestamp", "after"} =>
          first + attempt <= before + 1 /\ before <= sequence
    /\ rpc = "before" => first + attempt <= sequence
    /\ rpc = "after" => \A i \in 1 .. before : stamps[i] <= result.timestamp_ns
    /\ rpc = "done" => /\ result.sequence <= sequence
                       /\ 0 < result.sequence /\ result.sequence < first + 3
                            => stamps[result.sequence] <= result.timestamp_ns

\* Only the end of a beat changes the sequence number or the history of stamps.
LEMMA StampFrame ==
    ASSUME [Next]_vars
    PROVE  \/ UNCHANGED <<sequence, stamps>>
           \/ \E p \in Threads : BumpSequence(p)
<1>1. ASSUME NEW p \in Threads, HeartbeatStep(p), ~BumpSequence(p)
      PROVE  UNCHANGED <<sequence, stamps>>
  BY <1>1 DEF HeartbeatStep, ReadClock, TurnedAway, LoadNext, Throttle, ReturnThrottled,
              Accept, Retry, StoreActive, StoreTimestamp, slot, history
<1>2. CASE ReadStep
  BY <1>2, ReadFrame DEF slot, history
<1> QED
  BY <1>1, <1>2 DEF Next, ReadStep, SetChannelActive, Tick, vars, slot, history

\* Nor does anything but a beat's store change the timestamp.
LEMMA TimestampFrame ==
    ASSUME [Next]_vars
    PROVE  UNCHANGED timestamp_ns \/ \E p \in Threads : StoreTimestamp(p)
<1>1. ASSUME NEW p \in Threads, HeartbeatStep(p), ~StoreTimestamp(p)
      PROVE  UNCHANGED timestamp_ns
  BY <1>1 DEF HeartbeatStep, ReadClock, TurnedAway, LoadNext, Throttle, ReturnThrottled,
              Accept, Retry, StoreActive, BumpSequence, slot
<1>2. CASE ReadStep
  BY <1>2, ReadFrame DEF slot
<1> QED
  BY <1>1, <1>2 DEF Next, ReadStep, SetChannelActive, Tick, vars, slot

\* The end of a beat adds its clock reading to the history and keeps the others.
LEMMA BumpAppends ==
    ASSUME TypeOK, StampInv, NEW p \in Threads, BumpSequence(p)
    PROVE  /\ sequence' = sequence + 1 /\ Len(stamps') = sequence + 1
           /\ \A i \in 1 .. sequence : stamps'[i] = stamps[i]
           /\ stamps'[sequence + 1] = now[p]
<1>1. /\ stamps \in Seq(Nat) /\ now[p] \in Nat /\ sequence \in Nat
      /\ Len(stamps) = sequence
      /\ sequence' = sequence + 1 /\ stamps' = Append(stamps, now[p])
  BY DEF BumpSequence, TypeOK, StampInv
<1> QED
  BY <1>1

\* The slot's timestamp is never older than a beat that ended.
LEMMA StampTheorem ==
    ASSUME Prompt
    PROVE  Spec => []StampInv
<1>1. Init => StampInv
  BY DEF Init, StampInv
<1>2. TypeOK /\ SlotInv /\ StampInv /\ [Next]_vars => StampInv'
  <2> SUFFICES ASSUME TypeOK, SlotInv, StampInv, [Next]_vars PROVE StampInv'
    OBVIOUS
  <2>0. sequence \in Nat /\ timestamp_ns \in Nat /\ now \in [Threads -> Nat]
    BY DEF TypeOK
  <2>1. ASSUME NEW p \in Threads, BumpSequence(p) PROVE StampInv'
    <3>1. timestamp_ns' = timestamp_ns /\ timestamp_ns = now[p]
      BY <2>1 DEF BumpSequence, SlotInv
    <3>2. \A i \in 1 .. sequence + 1 : i \in 1 .. sequence \/ i = sequence + 1
      BY <2>0
    <3>3. \A i \in 1 .. sequence + 1 : stamps'[i] \in Nat /\ stamps'[i] <= timestamp_ns
      BY <2>0, <2>1, <3>1, <3>2, BumpAppends DEF StampInv
    <3> QED
      BY <2>1, <3>1, <3>3, BumpAppends DEF StampInv
  <2>2. CASE UNCHANGED <<sequence, stamps>>
    <3>1. CASE UNCHANGED timestamp_ns
      BY <2>2, <3>1 DEF StampInv
    <3>2. ASSUME NEW p \in Threads, StoreTimestamp(p) PROVE StampInv'
      <4>1. /\ timestamp_ns' = now[p]
            /\ timestamp_ns # 0 => timestamp_ns + Interval <= now[p]
        BY <3>2 DEF StoreTimestamp, SlotInv
      <4>2. timestamp_ns <= timestamp_ns'
        BY <2>0, <4>1, SlotAssumption
      <4>3. timestamp_ns' \in Nat
        BY <2>0, <4>1
      <4> QED
        BY <2>0, <2>2, <4>2, <4>3 DEF StampInv
    <3> QED
      BY <3>1, <3>2, TimestampFrame
  <2> QED
    BY <2>1, <2>2, StampFrame
<1> QED
  BY <1>1, <1>2, Typing, SlotTheorem, PTL DEF Spec

\* The watcher pairs a sequence number with the timestamp of that beat or of a later
\* one, unless a beat ended in each of its three attempts.
THEOREM ReadFreshTheorem == Spec => []ReadFresh
<1>1. CASE Prompt
  <2>1. Init => ReadInv
    BY DEF Init, ReadInv
  <2>2. TypeOK /\ StampInv /\ ReadInv /\ [Next]_vars => ReadInv'
    <3> SUFFICES ASSUME TypeOK, StampInv, ReadInv, [Next]_vars PROVE ReadInv'
      OBVIOUS
    <3>0. /\ sequence \in Nat /\ before \in Nat /\ first \in Nat /\ attempt \in 1 .. 3
          /\ result \in [active : {0, 1}, timestamp_ns : Nat, sequence : Nat]
      BY DEF TypeOK, Attempts
    <3>1. ASSUME BeginRead PROVE ReadInv'
      BY <3>0, <3>1 DEF BeginRead, ReaderStep, slot, history, ReadInv
    <3>2. ASSUME LoadActive PROVE ReadInv'
      BY <3>0, <3>2 DEF LoadActive, ReaderStep, slot, history, ReadInv
    <3>3. ASSUME LoadTimestamp PROVE ReadInv'
      <4>1. /\ rpc = "timestamp" /\ rpc' = "after"
            /\ result'.timestamp_ns = timestamp_ns
            /\ UNCHANGED <<attempt, before, first, sequence, stamps>>
        BY <3>0, <3>3 DEF LoadTimestamp, ReaderStep, slot, history
      <4>2. \A i \in 1 .. before : i \in 1 .. sequence
        BY <3>0, <4>1 DEF ReadInv
      <4> QED
        BY <4>1, <4>2 DEF ReadInv, StampInv
    <3>4. ASSUME LoadAfter PROVE ReadInv'
      <4>1. /\ rpc = "after" /\ UNCHANGED <<attempt, before, first, sequence, stamps>>
            /\ result'.sequence = sequence
            /\ result'.timestamp_ns = result.timestamp_ns
            /\ rpc' = IF before = sequence \/ IsLast(attempt) THEN "done" ELSE "before"
        BY <3>0, <3>4 DEF LoadAfter, ReaderStep, slot, history
      <4>2. /\ first + attempt <= before + 1 /\ before <= sequence
            /\ \A i \in 1 .. before : stamps[i] <= result.timestamp_ns
        BY <4>1 DEF ReadInv
      <4>3. CASE before = sequence
        <5>1. rpc' = "done"
          BY <4>1, <4>3
        <5>2. 0 < sequence => sequence \in 1 .. before
          BY <3>0, <4>3
        <5> QED
          BY <3>0, <4>1, <4>2, <5>1, <5>2 DEF ReadInv
      <4>4. CASE before # sequence
        <5>1. first + attempt <= sequence
          BY <3>0, <4>2, <4>4
        <5>2. CASE rpc' = "done"
          <6>1. IsLast(attempt)
            BY <4>1, <4>4, <5>2
          <6>2. first + 3 <= sequence
            BY <3>0, <5>1, <6>1 DEF IsLast, Attempts
          <6> QED
            BY <3>0, <4>1, <5>2, <6>2 DEF ReadInv
        <5>3. CASE rpc' = "before"
          BY <4>1, <5>1, <5>3 DEF ReadInv
        <5> QED
          BY <4>1, <5>2, <5>3
      <4> QED
        BY <4>3, <4>4
    <3>5. ASSUME LoadBefore PROVE ReadInv'
      BY <3>0, <3>5 DEF LoadBefore, ReaderStep, slot, history, ReadInv
    <3>6. CASE UNCHANGED reader
      <4>1. CASE UNCHANGED <<sequence, stamps>>
        BY <3>6, <4>1 DEF reader, ReadInv
      <4>2. ASSUME NEW p \in Threads, BumpSequence(p) PROVE ReadInv'
        <5>1. /\ sequence' = sequence + 1
              /\ \A i \in 1 .. sequence : stamps'[i] = stamps[i]
          BY <4>2, BumpAppends
        <5>2. /\ \A i \in 1 .. before : before <= sequence => i \in 1 .. sequence
              /\ 0 < result.sequence /\ result.sequence <= sequence
                    => result.sequence \in 1 .. sequence
              /\ \A n \in Nat : n <= sequence => n <= sequence'
              /\ first + attempt \in Nat /\ result.sequence \in Nat
          BY <3>0, <5>1
        <5> QED
          BY <3>0, <3>6, <5>1, <5>2 DEF reader, ReadInv
      <4> QED
        BY <4>1, <4>2, StampFrame
    <3>7. ASSUME ~ReadStep PROVE UNCHANGED reader
      BY <3>7, CallFrame DEF Next, ReadStep, SetChannelActive, Tick, vars, reader
    <3> QED
      BY <3>1, <3>2, <3>3, <3>4, <3>5, <3>6, <3>7 DEF ReadStep
  <2>3. TypeOK /\ StampInv /\ ReadInv => ReadFresh
    <3> SUFFICES ASSUME TypeOK, StampInv, ReadInv, rpc = "done", 0 < result.sequence,
                        result.sequence < first + 3
                 PROVE  result.timestamp_ns >= stamps[result.sequence]
      BY DEF ReadFresh
    <3>1. result.sequence \in 1 .. sequence /\ result.timestamp_ns \in Nat
      BY DEF TypeOK, ReadInv
    <3>2. stamps[result.sequence] \in Nat /\ stamps[result.sequence] <= result.timestamp_ns
      BY <3>1 DEF StampInv, ReadInv
    <3> QED
      BY <3>1, <3>2
  <2> QED
    BY <1>1, <2>1, <2>2, <2>3, Typing, StampTheorem, PTL DEF Spec
<1>2. CASE ~Prompt
  <2>1. ReadFresh
    BY <1>2 DEF ReadFresh
  <2> QED
    BY <2>1, PTL
<1> QED
  BY <1>1, <1>2
=============================================================================
