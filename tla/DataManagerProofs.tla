-------------------------- MODULE DataManagerProofs --------------------------
(***************************************************************************)
(* Theorems about DataManager for every set of threads, sources and kinds, *)
(* every failure threshold and every order of sources: the breakers are    *)
(* written without a lock, each field access on its own.                   *)
(***************************************************************************)
EXTENDS DataManager, SequenceTheorems, TLAPS

\* A closed breaker whose count has reached the threshold: some thread at the source
\* will clear the count or open the breaker.
Settles(t, s) ==
  pc[t] \in {"clear", "stamp", "branch", "compare", "open"} /\ Current(t) = s

TripPending ==
  \A s \in Source :
    state[s] = "closed" /\ failures[s] = Threshold => \E t \in Thread : Settles(t, s)

\* A half-open breaker: some thread is on its way from its probe to the verdict.
Probes(t, s) ==
  /\ pc[t] \in {"call", "success", "load", "store", "stamp", "branch", "open"}
  /\ Current(t) = s

ProbePending ==
  \A s \in Source : state[s] = "half_open" => \E t \in Thread : Probes(t, s)

BreakerInv == TypeOK /\ TripPending /\ ProbePending
-----------------------------------------------------------------------------
LEMMA CurrentIsSource ==
  ASSUME TypeOK, NEW t \in Thread, pc[t] # "idle"
  PROVE  Current(t) \in Source /\ Tail(rest[t]) \in Seq(Source) /\ Len(rest[t]) \in Nat
<1>1. rest[t] \in Seq(Source) /\ rest[t] # << >>
  BY DEF TypeOK
<1>2. QED
  BY <1>1, HeadTailProperties, LenProperties DEF Current

LEMMA NextSourceTyped ==
  ASSUME TypeOK, NEW t \in Thread, pc[t] # "idle", NextSource(t)
  PROVE  /\ pc' \in [Thread -> Step]
         /\ rest' \in [Thread -> Seq(Source)]
         /\ \A u \in Thread : rest'[u] = << >> <=> pc'[u] = "idle"
<1>1. rest[t] \in Seq(Source) /\ rest[t] # << >>
  BY DEF TypeOK
<1>2. /\ Tail(rest[t]) \in Seq(Source) /\ Len(rest[t]) \in Nat \ {0}
      /\ Len(Tail(rest[t])) = Len(rest[t]) - 1
  BY <1>1, HeadTailProperties, EmptySeq, LenProperties
<1>3. Tail(rest[t]) = << >> <=> Len(rest[t]) = 1
  <2> DEFINE tail == Tail(rest[t])
  <2>1. tail = << >> => Len(tail) = 0
    BY EmptySeq
  <2>2. tail # << >> => Len(tail) \in Nat \ {0}
    BY <1>2, EmptySeq
  <2>3. Len(tail) = Len(rest[t]) - 1
    BY <1>2
  <2> HIDE DEF tail
  <2>4. tail = << >> <=> Len(rest[t]) = 1
    BY <1>2, <2>1, <2>2, <2>3
  <2>5. QED
    BY <2>4 DEF tail
<1>4. /\ pc'[t] = IF Len(rest[t]) > 1 THEN "check" ELSE "idle"
      /\ pc' \in [Thread -> Step]
      /\ \A u \in Thread : u # t => pc'[u] = pc[u]
  BY DEF NextSource, GoTo, TypeOK, Step
<1>5. /\ rest' \in [Thread -> Seq(Source)] /\ rest'[t] = Tail(rest[t])
      /\ \A u \in Thread : u # t => rest'[u] = rest[u]
  BY <1>2 DEF NextSource, TypeOK
<1>6. pc'[t] = "idle" <=> rest'[t] = << >>
  BY <1>2, <1>3, <1>4, <1>5
<1>7. QED
  BY <1>4, <1>5, <1>6 DEF TypeOK

LEMMA BreakerInit == Init => BreakerInv
<1> SUFFICES ASSUME Init PROVE BreakerInv
  OBVIOUS
<1>1. Threshold \in Nat \ {0} /\ << >> \in Seq(Source)
  BY ThresholdAssumption, EmptySeq
<1>2. (CHOOSE k \in Kind : TRUE) \in Kind
  BY SourceAssumption
<1>3. TypeOK
  BY <1>1, <1>2 DEF Init, TypeOK, Step
<1>4. QED
  BY <1>1, <1>3 DEF Init, BreakerInv, TripPending, ProbePending

\* A thread goes on at its source, where nothing of its request changes.
LEMMA GoOn ==
  ASSUME TypeOK, NEW t \in Thread, pc[t] # "idle", NEW step \in Step \ {"idle"},
         GoTo(t, step), UNCHANGED rest
  PROVE  /\ pc' \in [Thread -> Step] /\ pc'[t] = step
         /\ \A u \in Thread : u # t => pc'[u] = pc[u]
         /\ rest' \in [Thread -> Seq(Source)]
         /\ \A u \in Thread : /\ rest'[u] = << >> <=> pc'[u] = "idle"
                             /\ Current(u)' = Current(u)
BY DEF TypeOK, GoTo, Current

LEMMA TypeStep == TypeOK /\ [Next]_vars => TypeOK'
<1> SUFFICES ASSUME TypeOK, [Next]_vars PROVE TypeOK'
  OBVIOUS
<1> USE ThresholdAssumption
<1>1. CASE UNCHANGED vars
  BY <1>1 DEF vars, breakers, TypeOK
<1>2. ASSUME NEW t \in Thread, Request(t) PROVE TypeOK'
  <2>1. \A k \in Kind : Tried[k] \in Seq(Source) /\ Tried[k] # << >>
    BY SourceAssumption
  <2>2. QED
    BY <1>2, <2>1, SMTT(30) DEF Request, GoTo, breakers, TypeOK, Step
<1>3. ASSUME NEW t \in Thread, Serve(t) PROVE TypeOK'
  <2>1. CASE IsAvailable(t)
    BY <2>1, GoOn, NextSourceTyped DEF IsAvailable, breakers, TypeOK, Step
  <2>2. CASE HalfOpen(t)
    BY <2>2, GoOn DEF HalfOpen, TypeOK, Step
  <2>3. CASE Answer(t)
    BY <2>3, GoOn, CurrentIsSource DEF Answer, breakers, TypeOK, Step
  <2>4. CASE Close(t)
    BY <2>4, GoOn DEF Close, TypeOK, Step
  <2>5. CASE Clear(t)
    <3>1. /\ pc' \in [Thread -> Step] /\ rest' \in [Thread -> Seq(Source)]
          /\ \A u \in Thread : rest'[u] = << >> <=> pc'[u] = "idle"
      BY <2>5, EmptySeq DEF Clear, GoTo, TypeOK, Step
    <3>2. failures \in [Source -> 0 .. Threshold] /\ 0 \in 0 .. Threshold
      BY DEF TypeOK
    <3>3. failures' \in [Source -> 0 .. Threshold]
      BY <2>5, <3>2 DEF Clear
    <3>4. QED
      BY <2>5, <3>1, <3>3 DEF Clear, TypeOK
  <2>6. CASE LoadCount(t)
    <3>1. failures[Current(t)] \in 0 .. Threshold
      BY <2>6, CurrentIsSource DEF LoadCount, TypeOK
    <3>2. QED
      BY <2>6, <3>1, GoOn DEF LoadCount, breakers, TypeOK, Step
  <2>7. CASE StoreCount(t)
    <3>1. (IF loaded[t] < Threshold THEN loaded[t] + 1 ELSE Threshold) \in 0 .. Threshold
      BY DEF TypeOK
    <3>2. /\ failures \in [Source -> 0 .. Threshold] /\ loaded \in [Thread -> 0 .. Threshold]
          /\ 0 \in 0 .. Threshold
      BY DEF TypeOK
    <3>3. failures' \in [Source -> 0 .. Threshold]
      BY <2>7, <3>1, <3>2 DEF StoreCount
    <3>4. loaded' \in [Thread -> 0 .. Threshold]
      BY <2>7, <3>2 DEF StoreCount
    <3>5. QED
      BY <2>7, <3>3, <3>4, GoOn DEF StoreCount, TypeOK, Step
  <2>8. CASE Stamp(t)
    BY <2>8, GoOn DEF Stamp, TypeOK, Step
  <2>9. CASE Branch(t)
    BY <2>9, GoOn DEF Branch, breakers, TypeOK, Step
  <2>10. CASE Compare(t)
    BY <2>10, GoOn, NextSourceTyped DEF Compare, breakers, TypeOK, Step
  <2>11. CASE Open(t)
    BY <2>11, NextSourceTyped DEF Open, TypeOK
  <2>12. QED
    BY <1>3, <2>1, <2>2, <2>3, <2>4, <2>5, <2>6, <2>7, <2>8, <2>9, <2>10, <2>11 DEF Serve
<1>4. ASSUME NEW s \in Source, CoolDown(s) PROVE TypeOK'
  BY <1>4 DEF CoolDown, TypeOK
<1>5. QED
  BY <1>1, <1>2, <1>3, <1>4 DEF Next

\* Every field of the breakers and of the requests holds a value of its type, and a
\* request has sources left to try exactly while it is served.
THEOREM BreakerTypeCorrect == Spec => []TypeOK
BY BreakerInit, TypeStep, PTL DEF Spec, BreakerInv
-----------------------------------------------------------------------------
(* The pending trips and probes. *)

Pending(s) ==
  /\ state[s] = "closed" /\ failures[s] = Threshold => \E t \in Thread : Settles(t, s)
  /\ state[s] = "half_open" => \E t \in Thread : Probes(t, s)

\* What a step of one thread leaves alone: the requests of the others, and the other
\* sources.
Alone(t) ==
  /\ \A u \in Thread : u # t => pc'[u] = pc[u] /\ rest'[u] = rest[u]
  /\ \A s \in Source : s # Current(t) => state'[s] = state[s] /\ failures'[s] = failures[s]

LEMMA StepAlone ==
  ASSUME TypeOK, NEW t \in Thread, Serve(t)
  PROVE  Alone(t)
<1> USE DEF Alone, GoTo, NextSource, TypeOK, breakers
<1>1. CASE IsAvailable(t) \/ HalfOpen(t) \/ Answer(t) \/ Close(t)
  BY <1>1 DEF IsAvailable, HalfOpen, Answer, Close
<1>2. CASE Clear(t) \/ LoadCount(t) \/ StoreCount(t) \/ Stamp(t)
  BY <1>2 DEF Clear, LoadCount, StoreCount, Stamp
<1>3. CASE Branch(t) \/ Compare(t) \/ Open(t)
  BY <1>3 DEF Branch, Compare, Open
<1>4. QED
  BY <1>1, <1>2, <1>3 DEF Serve

\* The other sources keep what is pending for them.
LEMMA ElsewherePending ==
  ASSUME NEW t \in Thread, NEW s \in Source, s # Current(t), Pending(s), Alone(t)
  PROVE  Pending(s)'
<1>1. \A u \in Thread : Settles(u, s) => Settles(u, s)'
  BY DEF Alone, Settles, Current
<1>2. \A u \in Thread : Probes(u, s) => Probes(u, s)'
  BY DEF Alone, Probes, Current
<1>3. QED
  BY <1>1, <1>2 DEF Pending, Alone

\* What is pending stays when the thread itself goes on settling or probing.
LEMMA PendingStays ==
  ASSUME NEW t \in Thread, NEW s, Alone(t), Pending(s),
         state'[s] \in {state[s], "open"}, failures'[s] = failures[s],
         failures[s] = Threshold /\ Settles(t, s) => Settles(t, s)',
         Probes(t, s) => Probes(t, s)'
  PROVE  Pending(s)'
<1>1. ASSUME state'[s] = "closed", failures'[s] = Threshold
      PROVE  \E u \in Thread : Settles(u, s)'
  <2>1. PICK u \in Thread : Settles(u, s)
    BY <1>1 DEF Pending
  <2>2. QED
    BY <1>1, <2>1 DEF Alone, Settles, Current
<1>2. ASSUME state'[s] = "half_open"
      PROVE  \E u \in Thread : Probes(u, s)'
  <2>1. PICK u \in Thread : Probes(u, s)
    BY <1>2 DEF Pending
  <2>2. QED
    BY <2>1 DEF Alone, Probes, Current
<1>3. QED
  BY <1>1, <1>2 DEF Pending

LEMMA HerePending ==
  ASSUME TypeOK, NEW t \in Thread, NEW s \in Source, s = Current(t), pc[t] # "idle",
         Pending(s), Serve(t)
  PROVE  Pending(s)'
<1>1. Alone(t)
  BY StepAlone
<1>2. ASSUME UNCHANGED <<state, failures>>,
             failures[s] = Threshold /\ Settles(t, s) => Settles(t, s)',
             Probes(t, s) => Probes(t, s)'
      PROVE  Pending(s)'
  BY <1>1, <1>2, PendingStays
<1>3. Threshold # 0
  BY ThresholdAssumption
<1>4. CASE IsAvailable(t)
  <2>1. pc[t] = "check" /\ UNCHANGED <<state, failures>>
    BY <1>4 DEF IsAvailable, breakers
  <2>2. QED
    BY <1>2, <2>1 DEF Settles, Probes
<1>5. CASE HalfOpen(t)
  <2>1. pc'[t] = "call" /\ Current(t)' = s /\ state'[s] = "half_open"
    BY <1>5 DEF HalfOpen, GoTo, Current, TypeOK
  <2>2. QED
    BY <2>1 DEF Pending, Probes
<1>6. CASE Answer(t)
  <2>1. /\ pc'[t] \in {"success", "load"} /\ Current(t)' = s /\ pc[t] = "call"
        /\ UNCHANGED <<state, failures>>
    BY <1>6 DEF Answer, GoTo, Current, TypeOK, breakers
  <2>2. QED
    BY <1>2, <2>1 DEF Settles, Probes
<1>7. CASE Close(t)
  <2>1. pc'[t] = "clear" /\ Current(t)' = s /\ state'[s] = "closed"
    BY <1>7 DEF Close, GoTo, Current, TypeOK
  <2>2. QED
    BY <2>1 DEF Pending, Settles
<1>8. CASE Clear(t)
  <2>1. failures'[s] = 0 /\ state' = state /\ pc[t] = "clear"
    BY <1>8 DEF Clear, TypeOK
  <2>2. QED
    <3>1. ASSUME state[s] = "half_open"
          PROVE  \E u \in Thread : Probes(u, s)'
      <4>1. PICK u \in Thread : Probes(u, s)
        BY <3>1 DEF Pending
      <4>2. u # t
        BY <2>1, <4>1 DEF Probes
      <4>3. QED
        BY <1>1, <4>1, <4>2 DEF Alone, Probes, Current
    <3>2. QED
      BY <1>3, <2>1, <3>1 DEF Pending
<1>9. CASE LoadCount(t)
  <2>1. /\ pc'[t] = "store" /\ Current(t)' = s /\ pc[t] = "load"
        /\ UNCHANGED <<state, failures>>
    BY <1>9 DEF LoadCount, GoTo, Current, TypeOK, breakers
  <2>2. QED
    BY <1>2, <2>1 DEF Settles, Probes
<1>10. CASE StoreCount(t)
  <2>1. pc'[t] = "stamp" /\ Current(t)' = s
    BY <1>10 DEF StoreCount, GoTo, Current, TypeOK
  <2>2. QED
    BY <2>1 DEF Pending, Settles, Probes
<1>11. CASE Stamp(t)
  <2>1. pc'[t] = "branch" /\ Current(t)' = s
    BY <1>11 DEF Stamp, GoTo, Current, TypeOK
  <2>2. QED
    BY <2>1 DEF Pending, Settles, Probes
<1>12. CASE Branch(t)
  <2>1. /\ pc'[t] = IF state[s] = "half_open" THEN "open" ELSE "compare"
        /\ Current(t)' = s /\ UNCHANGED <<state, failures>>
    BY <1>12 DEF Branch, GoTo, Current, TypeOK, breakers
  <2>2. QED
    BY <2>1 DEF Pending, Settles, Probes
<1>13. CASE Compare(t)
  <2>1. CASE failures[s] >= Threshold
    <3>1. pc'[t] = "open" /\ Current(t)' = s
      BY <1>13, <2>1, ThresholdAssumption DEF Compare, GoTo, Current, TypeOK
    <3>2. QED
      BY <3>1 DEF Pending, Settles, Probes
  <2>2. CASE failures[s] < Threshold
    <3>1. pc[t] = "compare" /\ UNCHANGED <<state, failures>> /\ failures[s] # Threshold
      BY <1>13, <2>2, ThresholdAssumption DEF Compare, TypeOK, breakers
    <3>2. QED
      BY <1>2, <3>1 DEF Settles, Probes
  <2>3. QED
    BY <2>1, <2>2, <1>13 DEF Compare
<1>14. CASE Open(t)
  <2>1. state'[s] = "open"
    BY <1>14 DEF Open, TypeOK
  <2>2. QED
    BY <2>1 DEF Pending
<1>15. QED
  BY <1>4, <1>5, <1>6, <1>7, <1>8, <1>9, <1>10, <1>11, <1>12, <1>13, <1>14 DEF Serve

LEMMA BreakerStep == BreakerInv /\ [Next]_vars => BreakerInv'
<1> SUFFICES ASSUME BreakerInv, [Next]_vars PROVE BreakerInv'
  OBVIOUS
<1>1. TypeOK /\ TypeOK'
  BY TypeStep DEF BreakerInv
<1> SUFFICES ASSUME NEW s \in Source PROVE Pending(s)'
  BY <1>1 DEF BreakerInv, TripPending, ProbePending, Pending
<1>2. Pending(s)
  BY DEF BreakerInv, TripPending, ProbePending, Pending
<1>3. ASSUME UNCHANGED <<state, failures, pc, rest>> PROVE Pending(s)'
  BY <1>2, <1>3 DEF Pending, Settles, Probes, Current
<1>4. ASSUME NEW t \in Thread, Request(t) PROVE Pending(s)'
  <2>1. /\ pc[t] = "idle" /\ UNCHANGED <<state, failures>>
        /\ \A u \in Thread : u # t => pc'[u] = pc[u] /\ rest'[u] = rest[u]
    BY <1>1, <1>4 DEF Request, GoTo, breakers, TypeOK
  <2>2. Alone(t)
    BY <2>1 DEF Alone
  <2>3. QED
    BY <1>2, <2>1, <2>2, PendingStays DEF Settles, Probes
<1>5. ASSUME NEW t \in Thread, Serve(t) PROVE Pending(s)'
  <2>1. pc[t] # "idle"
    BY <1>5 DEF Serve, IsAvailable, HalfOpen, Answer, Close, Clear, LoadCount, StoreCount,
                Stamp, Branch, Compare, Open
  <2>2. CASE s = Current(t)
    BY <1>1, <1>2, <1>5, <2>1, <2>2, HerePending
  <2>3. CASE s # Current(t)
    BY <1>1, <1>2, <1>5, <2>3, StepAlone, ElsewherePending
  <2>4. QED
    BY <2>2, <2>3
<1>6. ASSUME NEW x \in Source, CoolDown(x) PROVE Pending(s)'
  BY <1>3, <1>6 DEF CoolDown
<1>7. QED
  BY <1>3, <1>4, <1>5, <1>6 DEF Next, vars, breakers

LEMMA BreakerInvHolds == Spec => []BreakerInv
BY BreakerInit, BreakerStep, PTL DEF Spec

\* A thread that settles or probes a source is on it.
LEMMA PendingIsOn ==
  ASSUME NEW t \in Thread, NEW s, Settles(t, s) \/ Probes(t, s)
  PROVE  On(s) # {}
BY DEF Settles, Probes, On, Current

\* No interleaving of the unlocked updates loses a trip: when nobody is at a source, a
\* closed breaker has counted fewer failures than its threshold.
THEOREM NoTripLost == Spec => []ClosedBelowThreshold
<1>1. BreakerInv => ClosedBelowThreshold
  <2> SUFFICES ASSUME BreakerInv, NEW s \in Source, On(s) = {}, state[s] = "closed"
               PROVE  failures[s] < Threshold
    BY DEF ClosedBelowThreshold
  <2>1. failures[s] # Threshold
    BY PendingIsOn DEF BreakerInv, TripPending
  <2>2. QED
    BY <2>1, ThresholdAssumption DEF BreakerInv, TypeOK
<1>2. QED
  BY <1>1, BreakerInvHolds, PTL

\* A half-open breaker always has a thread that will settle it.
THEOREM NoProbeLost == Spec => []HalfOpenIsProbed
<1>1. BreakerInv => HalfOpenIsProbed
  BY PendingIsOn DEF BreakerInv, ProbePending, HalfOpenIsProbed
<1>2. QED
  BY <1>1, BreakerInvHolds, PTL
=============================================================================
