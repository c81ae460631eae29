--------------------------- MODULE TradingRunProofs ---------------------------
(***************************************************************************)
(* Theorems about TradingRun for every finite set of processes and of run  *)
(* rows, every list of requests, every cost, interval and lock time, and   *)
(* an unbounded number of faults.                                          *)
(***************************************************************************)
EXTENDS TradingRun, FiniteSetTheorems, SequenceTheorems, WellFoundedInduction, TLAPS

\* A process at a step for one signal has a signal.
HasSignal ==
  \A p \in Process : pc[p] \in {"record", "reject", "submit", "order"} => todo[p] # {}

\* A process in its round has a run row of its own, which is "running".
HasRun == \A p \in Process : InRound(p) => run[p] \in RunId /\ runs[run[p]] = "running"
OwnRun == \A p, q \in Process : InRound(p) /\ InRound(q) /\ p # q => run[p] # run[q]

\* There is a row left for every process that is on its way to StartRun.
Absent == {r \in RunId : runs[r] = "absent"}
Waiting == {p \in Process : pc[p] \in {"schedule", "lock", "startRun"}}
RowsLeft == Cardinality(Waiting) <= Cardinality(Absent)

TypeInv == TypeOK /\ HasSignal /\ HasRun /\ OwnRun /\ RowsLeft
-----------------------------------------------------------------------------
\* Every set of numbers has a least one.
LEMMA LeastNumber ==
  ASSUME NEW T \in SUBSET Nat, T # {}
  PROVE  \E x \in T : \A y \in T : x <= y
<1> DEFINE R == OpToRel(<, Nat)
<1>1. IsWellFoundedOn(R, Nat)
  BY NatLessThanWellFounded
<1>2. \A x, y \in Nat : x < y => <<x, y>> \in R
  BY DEF OpToRel
<1> HIDE DEF R
<1>3. PICK x \in T : \A y \in T : ~ (<<y, x>> \in R)
  BY <1>1, WFMin
<1>4. ASSUME NEW y \in T PROVE x <= y
  <2>1. x \in Nat /\ y \in Nat
    BY <1>4
  <2>2. ~ (y < x)
    BY <2>1, <1>2, <1>3
  <2>3. QED
    BY <2>1, <2>2
<1>5. QED
  BY <1>4

\* The signal a process is at is one of the requested codes.
LEMMA SignalIsCode ==
  ASSUME TypeOK, NEW p \in Process, todo[p] # {}
  PROVE  Upcoming(p) \in todo[p] /\ Signal(p) \in Code
<1>1. DOMAIN Request = 1 .. Len(Request) /\ Len(Request) \in Nat
  BY TradingAssumption, LenProperties
<1>2. todo[p] \in SUBSET DOMAIN Request
  BY DEF TypeOK
<1>3. todo[p] \in SUBSET Nat
  BY <1>1, <1>2
<1>4. \E k \in todo[p] : \A j \in todo[p] : k <= j
  BY <1>3, LeastNumber
<1>5. Upcoming(p) \in todo[p]
  BY <1>4 DEF Upcoming
<1>6. QED
  BY <1>2, <1>5 DEF Signal, Code

\* A process about to start its run finds a row.
LEMMA FreshRunExists ==
  ASSUME TypeInv, NEW p \in Process, pc[p] = "startRun"
  PROVE  FreshRun \in RunId /\ runs[FreshRun] = "absent"
<1>1. IsFiniteSet(Waiting) /\ IsFiniteSet(Absent)
  BY TradingAssumption, FS_Subset DEF Waiting, Absent
<1>2. p \in Waiting
  BY DEF Waiting
<1>3. Cardinality(Waiting) # 0
  BY <1>1, <1>2, FS_EmptySet
<1>4. Cardinality(Waiting) \in Nat /\ Cardinality(Absent) \in Nat
  BY <1>1, FS_CardinalityType
<1>5. Absent # {}
  BY <1>3, <1>4, FS_EmptySet DEF TypeInv, RowsLeft
<1>6. QED
  BY <1>5 DEF FreshRun, Absent
-----------------------------------------------------------------------------
LEMMA TypeInit == Init => TypeInv
<1> SUFFICES ASSUME Init PROVE TypeInv
  OBVIOUS
<1>1. TypeOK
  BY TradingAssumption, EmptySeq DEF Init, TypeOK, Tick, Lock, Free, Entry, Point
<1>2. HasSignal /\ HasRun /\ OwnRun
  BY DEF Init, HasSignal, HasRun, OwnRun, InRound, RoundPoint, TryPoint
<1>3. RowsLeft
  <2>1. Waiting = {}
    BY DEF Init, Waiting
  <2>2. IsFiniteSet(Absent)
    BY TradingAssumption, FS_Subset DEF Absent
  <2>3. QED
    BY <2>1, <2>2, FS_EmptySet, FS_CardinalityType DEF RowsLeft
<1>4. QED
  BY <1>1, <1>2, <1>3 DEF TypeInv

\* What a process holds is well typed.
LocalOK ==
  /\ pc \in [Process -> Point]
  /\ entry \in [Process -> Entry]
  /\ now \in [Process -> Nat]
  /\ until \in [Process -> Nat]
  /\ run \in [Process -> RunId \cup {None}]
  /\ cash \in [Process -> Nat]
  /\ todo \in [Process -> SUBSET DOMAIN Request]

LEMMA ForgetIsTyped ==
  ASSUME LocalOK, NEW p \in Process, Forget(p)
  PROVE  LocalOK'
<1>1. [tick |-> FALSE, locks |-> FALSE] \in Entry /\ "idle" \in Point
  BY DEF Entry, Point
<1>2. QED
  BY <1>1 DEF LocalOK, Forget, Goto

LEMMA AfterRoundIsTyped ==
  ASSUME LocalOK, NEW p \in Process, AfterRound(p)
  PROVE  LocalOK'
<1>1. CASE Forget(p)
  BY <1>1, ForgetIsTyped
<1>2. CASE Goto(p, "recordTick") /\ UNCHANGED local
  BY <1>2 DEF LocalOK, Goto, Point, local
<1>3. QED
  BY <1>1, <1>2 DEF AfterRound

LEMMA ReleasedIsTyped ==
  ASSUME TypeOK, NEW p \in Process
  PROVE  Released(p) \in Lock
BY DEF TypeOK, Released, Free, Lock

\* A step that only changes what processes hold leaves the shared state typed.
LEMMA SharedSame ==
  ASSUME TypeInv, LocalOK',
         clock' = clock, tick' = tick, lock' \in Lock, runs' = runs, decisions' = decisions,
         orders' = orders, submitted' = submitted, filled' = filled, funds' = funds,
         crashes' \in Nat, failures' \in Nat, overlap' = overlap
  PROVE  TypeOK'
BY DEF TypeInv, TypeOK, LocalOK

LEMMA AfterRoundPlace ==
  ASSUME TypeOK, NEW p \in Process, AfterRound(p)
  PROVE  pc'[p] \in {"idle", "recordTick"}
BY DEF TypeOK, AfterRound, Forget, Goto

LEMMA FillIsTyped ==
  ASSUME TypeInv, NEW k \in DOMAIN submitted, Fill(k)
  PROVE  TypeOK'
<1>1. TypeOK /\ submitted \in Seq(Order) /\ filled \subseteq DOMAIN submitted /\ funds \in Nat
  BY DEF TypeInv, TypeOK
<1>2. /\ filled' = filled \cup {k}
      /\ funds' = funds - Cost[submitted[k].code] /\ Cost[submitted[k].code] <= funds
      /\ clock' = clock /\ tick' = tick /\ lock' = lock /\ runs' = runs
      /\ decisions' = decisions /\ orders' = orders /\ submitted' = submitted /\ pc' = pc
      /\ UNCHANGED local /\ UNCHANGED aux
  BY DEF Fill, ledger
<1>3. filled' \subseteq DOMAIN submitted'
  BY <1>1, <1>2
<1>4. funds' \in Nat
  <2>1. submitted[k] \in Order
    BY <1>1, ElementOfSeq, LenProperties
  <2>2. Cost[submitted[k].code] \in Nat
    BY <2>1, TradingAssumption DEF Order
  <2>3. QED
    BY <1>1, <1>2, <2>2
<1>5. QED
  BY <1>1, <1>2, <1>3, <1>4 DEF TypeOK, local, aux

LEMMA TypeKept == TypeInv /\ [Next]_vars => TypeOK'
<1> SUFFICES ASSUME TypeInv, [Next]_vars PROVE TypeOK'
  OBVIOUS
<1> USE TradingAssumption DEF TypeInv, TypeOK, ledger, broker, local, aux
<1>1. CASE Pass
  BY <1>1 DEF Pass
<1>2. ASSUME NEW k \in DOMAIN submitted, Fill(k) PROVE TypeOK'
  BY <1>2, FillIsTyped
<1>3. ASSUME NEW p \in Process, Step(p) PROVE TypeOK'
  <2> USE DEF Goto, Point, LockPoint, RoundPoint, TryPoint
  <2>1. ASSUME NEW e \in Entries, Begin(p, e) PROVE TypeOK'
    BY <2>1 DEF Begin
  <2>2. ASSUME NEW force \in BOOLEAN, Schedule(p, force) PROVE TypeOK'
    <3>1. LocalOK'
      BY <2>2, ForgetIsTyped DEF Schedule, LocalOK
    <3>2. UNCHANGED <<clock, ledger, broker, aux>>
      BY <2>2 DEF Schedule
    <3>3. QED
      BY <3>1, <3>2, SharedSame
  <2>3. CASE TakeLock(p)
    <3>1. clock + LockTtl \in Nat
      OBVIOUS
    <3>2. lock' \in Lock
      BY <2>3, <3>1 DEF TakeLock, Lock
    <3>3. LocalOK'
      BY <2>3, <3>1 DEF TakeLock, LocalOK
    <3>4. /\ clock' = clock /\ tick' = tick /\ runs' = runs /\ decisions' = decisions
          /\ orders' = orders /\ UNCHANGED broker /\ UNCHANGED aux
      BY <2>3 DEF TakeLock
    <3>5. QED
      BY <3>2, <3>3, <3>4, SharedSame
  <2>4. CASE GoUnlocked(p)
    BY <2>4 DEF GoUnlocked
  <2>5. CASE LockUnavailable(p)
    BY <2>5, ForgetIsTyped DEF LockUnavailable, LocalOK
  <2>6. CASE StartRun(p)
    BY <2>6, FreshRunExists DEF StartRun
  <2>7. CASE ReadAccount(p)
    BY <2>7 DEF ReadAccount
  <2>8. ASSUME NEW hit \in SUBSET Code, ReadPositions(p, hit) PROVE TypeOK'
    BY <2>8 DEF ReadPositions, Signals
  <2>9. CASE Evaluate(p)
    BY <2>9 DEF Evaluate
  <2>10. CASE RecordAccepted(p)
    <3>1. [run |-> run[p], code |-> Signal(p), status |-> "accepted"] \in Decision
      BY <2>10, SignalIsCode DEF RecordAccepted, HasSignal, HasRun, InRound, Decision
    <3>2. QED
      BY <2>10, <3>1 DEF RecordAccepted, Decide
  <2>11. CASE RecordRejected(p)
    <3>1. [run |-> run[p], code |-> Signal(p), status |-> "rejected"] \in Decision
      BY <2>11, SignalIsCode DEF RecordRejected, HasSignal, HasRun, InRound, Decision
    <3>2. QED
      BY <2>11, <3>1 DEF RecordRejected, Decide
  <2>12. CASE Submit(p)
    <3>1. [run |-> run[p], code |-> Signal(p)] \in Order
      BY <2>12, SignalIsCode DEF Submit, HasSignal, HasRun, InRound, Order
    <3>2. submitted' \in Seq(Order) /\ DOMAIN submitted \subseteq DOMAIN submitted'
      BY <2>12, <3>1, AppendProperties, LenProperties DEF Submit
    <3>3. QED
      BY <2>12, <3>2 DEF Submit
  <2>13. CASE RecordOrder(p)
    BY <2>13 DEF RecordOrder, HasRun, InRound
  <2>14. CASE FinishOk(p)
    BY <2>14 DEF FinishOk, Finish
  <2>15. CASE FinishFailed(p)
    BY <2>15 DEF FinishFailed, Finish
  <2>16. CASE Release(p)
    BY <2>16, AfterRoundIsTyped, ReleasedIsTyped DEF Release, LocalOK
  <2>17. CASE RecordTick(p)
    BY <2>17, ForgetIsTyped DEF RecordTick, Tick, LocalOK
  <2>18. CASE Fail(p)
    <3>1. LocalOK'
      <4>1. CASE AfterRound(p)
        BY <4>1, AfterRoundIsTyped DEF LocalOK
      <4>2. CASE \E point \in {"finishFailed", "release"} : Goto(p, point) /\ UNCHANGED local
        BY <4>2 DEF LocalOK
      <4>3. QED
        BY <2>18, <4>1, <4>2 DEF Fail
    <3>2. failures' = failures + 1 /\ UNCHANGED <<clock, ledger, broker, crashes, overlap>>
      BY <2>18 DEF Fail
    <3>3. failures' \in Nat
      BY <3>2
    <3>4. /\ clock' = clock /\ tick' = tick /\ lock' = lock /\ runs' = runs
          /\ decisions' = decisions /\ orders' = orders /\ submitted' = submitted
          /\ filled' = filled /\ funds' = funds /\ crashes' = crashes /\ overlap' = overlap
      BY <3>2
    <3>5. QED
      BY <3>1, <3>3, <3>4, SharedSame
  <2>19. CASE Crash(p)
    <3>1. LocalOK'
      BY <2>19, ForgetIsTyped DEF Crash, LocalOK
    <3>2. lock' \in Lock
      BY <2>19, ReleasedIsTyped DEF Crash
    <3>3. /\ crashes' = crashes + 1
          /\ UNCHANGED <<clock, tick, runs, decisions, orders, broker, failures, overlap>>
      BY <2>19 DEF Crash
    <3>4. crashes' \in Nat /\ failures' \in Nat
      BY <3>3
    <3>5. /\ clock' = clock /\ tick' = tick /\ runs' = runs /\ decisions' = decisions
          /\ orders' = orders /\ submitted' = submitted /\ filled' = filled
          /\ funds' = funds /\ overlap' = overlap
      BY <3>3
    <3>6. QED
      BY <3>1, <3>2, <3>4, <3>5, SharedSame
  <2>20. QED
    BY <1>3, <2>1, <2>2, <2>3, <2>4, <2>5, <2>6, <2>7, <2>8, <2>9, <2>10, <2>11, <2>12,
       <2>13, <2>14, <2>15, <2>16, <2>17, <2>18, <2>19 DEF Step
<1>4. CASE UNCHANGED vars
  BY <1>4 DEF vars
<1>5. QED
  BY <1>1, <1>2, <1>3, <1>4 DEF Next
-----------------------------------------------------------------------------
\* The other processes keep what they hold.
LEMMA OthersKeep ==
  ASSUME TypeOK, NEW p \in Process, Step(p), NEW q \in Process, q # p
  PROVE  /\ pc'[q] = pc[q] /\ run'[q] = run[q] /\ todo'[q] = todo[q]
         /\ entry'[q] = entry[q] /\ until'[q] = until[q]
<1> USE DEF TypeOK, Goto, Forget, local
<1>1. CASE \E e \in Entries : Begin(p, e)
  BY <1>1 DEF Begin
<1>2. CASE \E force \in BOOLEAN : Schedule(p, force)
  BY <1>2 DEF Schedule
<1>3. CASE TakeLock(p) \/ GoUnlocked(p) \/ LockUnavailable(p)
  BY <1>3 DEF TakeLock, GoUnlocked, LockUnavailable
<1>4. CASE StartRun(p) \/ ReadAccount(p) \/ \E hit \in SUBSET Code : ReadPositions(p, hit)
  BY <1>4 DEF StartRun, ReadAccount, ReadPositions
<1>5. CASE Evaluate(p) \/ RecordAccepted(p) \/ RecordRejected(p)
  BY <1>5 DEF Evaluate, RecordAccepted, RecordRejected
<1>6. CASE Submit(p) \/ RecordOrder(p) \/ FinishOk(p) \/ FinishFailed(p)
  BY <1>6 DEF Submit, RecordOrder, FinishOk, FinishFailed, Finish
<1>7. CASE Release(p) \/ RecordTick(p)
  BY <1>7 DEF Release, RecordTick, AfterRound
<1>8. CASE Fail(p)
  BY <1>8 DEF Fail, AfterRound
<1>9. CASE Crash(p)
  BY <1>9 DEF Crash
<1>10. QED
  BY <1>1, <1>2, <1>3, <1>4, <1>5, <1>6, <1>7, <1>8, <1>9 DEF Step

LEMMA SignalKept == TypeInv /\ [Next]_vars => HasSignal'
<1> SUFFICES ASSUME TypeInv, [Next]_vars PROVE HasSignal'
  OBVIOUS
<1> USE DEF TypeInv, HasSignal, local
<1>1. CASE Pass
  BY <1>1 DEF Pass
<1>2. ASSUME NEW k \in DOMAIN submitted, Fill(k) PROVE HasSignal'
  BY <1>2 DEF Fill
<1>3. ASSUME NEW p \in Process, Step(p) PROVE HasSignal'
  <2>1. pc'[p] \in {"record", "reject", "submit", "order"} => todo'[p] # {}
    <3> USE DEF TypeOK, Goto, Forget
    <3>1. CASE \E e \in Entries : Begin(p, e)
      BY <3>1 DEF Begin
    <3>2. CASE \E force \in BOOLEAN : Schedule(p, force)
      BY <3>2 DEF Schedule
    <3>3. CASE TakeLock(p) \/ GoUnlocked(p) \/ LockUnavailable(p)
      BY <3>3 DEF TakeLock, GoUnlocked, LockUnavailable
    <3>4. CASE StartRun(p) \/ ReadAccount(p) \/ \E hit \in SUBSET Code : ReadPositions(p, hit)
      BY <3>4 DEF StartRun, ReadAccount, ReadPositions
    <3>5. CASE Evaluate(p) \/ RecordAccepted(p) \/ RecordRejected(p)
      BY <3>5 DEF Evaluate, RecordAccepted, RecordRejected
    <3>6. CASE Submit(p) \/ RecordOrder(p) \/ FinishOk(p) \/ FinishFailed(p)
      BY <3>6 DEF Submit, RecordOrder, FinishOk, FinishFailed, Finish
    <3>7. CASE Release(p) \/ RecordTick(p)
      BY <3>7 DEF Release, RecordTick, AfterRound
    <3>8. CASE Fail(p)
      BY <3>8 DEF Fail, AfterRound
    <3>9. CASE Crash(p)
      BY <3>9 DEF Crash
    <3>10. QED
      BY <1>3, <3>1, <3>2, <3>3, <3>4, <3>5, <3>6, <3>7, <3>8, <3>9 DEF Step
  <2>2. QED
    BY <1>3, <2>1, OthersKeep
<1>4. CASE UNCHANGED vars
  BY <1>4 DEF vars
<1>5. QED
  BY <1>1, <1>2, <1>3, <1>4 DEF Next

\* What a step does to the rows of trading_runs and to the set of processes in a
\* round.
LEMMA RowsOfStep ==
  ASSUME TypeInv, NEW p \in Process, Step(p)
  PROVE  \/ StartRun(p)
         \/ /\ InRound(p) /\ pc'[p] = "release"
            /\ \E status \in {"ok", "failed"} : runs' = [runs EXCEPT ![run[p]] = status]
         \/ runs' = runs /\ (InRound(p)' => InRound(p) /\ run'[p] = run[p])
<1> USE DEF TypeInv, TypeOK, Goto, Forget, local, ledger, InRound, RoundPoint, TryPoint
<1>1. CASE \E e \in Entries : Begin(p, e)
  BY <1>1 DEF Begin
<1>2. CASE \E force \in BOOLEAN : Schedule(p, force)
  BY <1>2 DEF Schedule
<1>3. CASE TakeLock(p) \/ GoUnlocked(p) \/ LockUnavailable(p)
  BY <1>3 DEF TakeLock, GoUnlocked, LockUnavailable
<1>4. CASE ReadAccount(p) \/ \E hit \in SUBSET Code : ReadPositions(p, hit)
  BY <1>4 DEF ReadAccount, ReadPositions
<1>5. CASE Evaluate(p) \/ RecordAccepted(p) \/ RecordRejected(p)
  BY <1>5 DEF Evaluate, RecordAccepted, RecordRejected
<1>6. CASE Submit(p) \/ RecordOrder(p)
  BY <1>6 DEF Submit, RecordOrder
<1>7. CASE FinishOk(p) \/ FinishFailed(p)
  BY <1>7 DEF FinishOk, FinishFailed, Finish
<1>8. CASE Release(p) \/ RecordTick(p)
  BY <1>8 DEF Release, RecordTick, AfterRound
<1>9. CASE Fail(p)
  BY <1>9 DEF Fail, AfterRound
<1>10. CASE Crash(p)
  BY <1>10 DEF Crash
<1>11. QED
  BY <1>1, <1>2, <1>3, <1>4, <1>5, <1>6, <1>7, <1>8, <1>9, <1>10 DEF Step

LEMMA RunKept == TypeInv /\ [Next]_vars => (HasRun /\ OwnRun)'
<1> SUFFICES ASSUME TypeInv, [Next]_vars PROVE (HasRun /\ OwnRun)'
  OBVIOUS
<1>1. CASE UNCHANGED <<pc, run, runs>>
  BY <1>1 DEF TypeInv, HasRun, OwnRun, InRound
<1>2. ASSUME NEW p \in Process, Step(p) PROVE (HasRun /\ OwnRun)'
  <2> USE DEF TypeInv, TypeOK
  <2>1. \A q \in Process : q # p => InRound(q)' = InRound(q) /\ run'[q] = run[q]
    BY <1>2, OthersKeep DEF InRound
  <2>2. CASE StartRun(p)
    <3>1. FreshRun \in RunId /\ runs[FreshRun] = "absent"
      BY <2>2, FreshRunExists DEF StartRun
    <3>2. runs' = [runs EXCEPT ![FreshRun] = "running"] /\ run'[p] = FreshRun
      BY <2>2 DEF StartRun
    <3>3. HasRun'
      BY <2>1, <3>1, <3>2 DEF HasRun
    <3>4. \A q \in Process : q # p /\ InRound(q) => run[q] # FreshRun
      BY <3>1 DEF HasRun
    <3>5. ASSUME NEW q \in Process, NEW r \in Process, InRound(q)', InRound(r)', q # r
          PROVE  run'[q] # run'[r]
      BY <2>1, <3>2, <3>4, <3>5 DEF OwnRun
    <3>6. OwnRun'
      BY <3>5 DEF OwnRun
    <3>7. QED
      BY <3>3, <3>6
  <2>3. CASE /\ InRound(p) /\ pc'[p] = "release"
             /\ \E status \in {"ok", "failed"} : runs' = [runs EXCEPT ![run[p]] = status]
    <3>1. ~InRound(p)'
      BY <2>3 DEF InRound, RoundPoint, TryPoint
    <3>2. OwnRun'
      BY <2>1, <3>1 DEF OwnRun
    <3>3. ASSUME NEW q \in Process, InRound(q)'
          PROVE  run'[q] \in RunId /\ runs'[run'[q]] = "running"
      <4>1. q # p /\ InRound(q) /\ run'[q] = run[q]
        BY <2>1, <3>1, <3>3
      <4>2. run[q] # run[p] /\ run[q] \in RunId /\ runs[run[q]] = "running"
        BY <2>3, <4>1 DEF OwnRun, HasRun
      <4>3. QED
        BY <2>3, <4>1, <4>2
    <3>4. QED
      BY <3>2, <3>3 DEF HasRun
  <2>4. CASE runs' = runs /\ (InRound(p)' => InRound(p) /\ run'[p] = run[p])
    <3>1. HasRun'
      BY <2>1, <2>4 DEF HasRun
    <3>2. OwnRun'
      BY <2>1, <2>4 DEF OwnRun
    <3>3. QED
      BY <3>1, <3>2
  <2>5. QED
    BY <1>2, <2>2, <2>3, <2>4, RowsOfStep
<1>3. QED
  BY <1>1, <1>2 DEF Next, Pass, Fill, vars, ledger, local

\* Which processes a step adds to those on their way to StartRun.
LEMMA WaitingOfStep ==
  ASSUME TypeInv, NEW p \in Process, Step(p)
  PROVE  \/ StartRun(p)
         \/ \E e \in Entries : Begin(p, e)
         \/ p \in Waiting' => p \in Waiting
<1> USE DEF TypeInv, TypeOK, Goto, Forget, local, Waiting
<1>1. CASE \E force \in BOOLEAN : Schedule(p, force)
  BY <1>1 DEF Schedule
<1>2. CASE TakeLock(p) \/ GoUnlocked(p) \/ LockUnavailable(p)
  BY <1>2 DEF TakeLock, GoUnlocked, LockUnavailable
<1>3. CASE ReadAccount(p) \/ \E hit \in SUBSET Code : ReadPositions(p, hit)
  BY <1>3 DEF ReadAccount, ReadPositions
<1>4. CASE Evaluate(p) \/ RecordAccepted(p) \/ RecordRejected(p)
  BY <1>4 DEF Evaluate, RecordAccepted, RecordRejected
<1>5. CASE Submit(p) \/ RecordOrder(p) \/ FinishOk(p) \/ FinishFailed(p)
  BY <1>5 DEF Submit, RecordOrder, FinishOk, FinishFailed, Finish
<1>6. CASE Release(p) \/ RecordTick(p)
  BY <1>6 DEF Release, RecordTick, AfterRound
<1>7. CASE Fail(p)
  BY <1>7 DEF Fail, AfterRound
<1>8. CASE Crash(p)
  BY <1>8 DEF Crash
<1>9. QED
  BY <1>1, <1>2, <1>3, <1>4, <1>5, <1>6, <1>7, <1>8 DEF Step

LEMMA RowsKept == TypeInv /\ [Next]_vars => RowsLeft'
<1> SUFFICES ASSUME TypeInv, [Next]_vars PROVE RowsLeft'
  OBVIOUS
<1>1. IsFiniteSet(Waiting) /\ IsFiniteSet(Absent)
  BY TradingAssumption, FS_Subset DEF Waiting, Absent
<1>2. Cardinality(Waiting) \in Nat /\ Cardinality(Absent) \in Nat
  BY <1>1, FS_CardinalityType
<1>3. Cardinality(Waiting) <= Cardinality(Absent)
  BY DEF TypeInv, RowsLeft
<1>4. CASE UNCHANGED <<pc, runs>>
  <2>1. Waiting' = Waiting /\ Absent' = Absent
    BY <1>4 DEF Waiting, Absent
  <2>2. QED
    BY <2>1, <1>3 DEF RowsLeft
<1>5. ASSUME NEW p \in Process, Step(p) PROVE RowsLeft'
  <2>1. Waiting' \subseteq Waiting \cup {p}
    BY <1>5, OthersKeep DEF Waiting, TypeInv
  <2>2. CASE StartRun(p)
    <3>1. FreshRun \in Absent
      BY <2>2, FreshRunExists DEF StartRun, Absent
    <3>2. Absent' = Absent \ {FreshRun}
      BY <2>2, <3>1 DEF StartRun, Absent, TypeInv, TypeOK
    <3>3. p \in Waiting /\ p \notin Waiting'
      BY <2>2 DEF StartRun, Waiting, Goto, TypeInv, TypeOK
    <3>4. Waiting' \in SUBSET (Waiting \ {p})
      BY <2>1, <3>3
    <3>5. Cardinality(Waiting \ {p}) = Cardinality(Waiting) - 1 /\ IsFiniteSet(Waiting \ {p})
      BY <1>1, <3>3, FS_RemoveElement
    <3>6. Cardinality(Waiting') <= Cardinality(Waiting \ {p}) /\ IsFiniteSet(Waiting')
      BY <3>4, <3>5, FS_Subset
    <3>7. Cardinality(Absent') = Cardinality(Absent) - 1
      BY <1>1, <3>1, <3>2, FS_RemoveElement
    <3>8. Cardinality(Waiting') \in Nat
      BY <3>6, FS_CardinalityType
    <3>9. QED
      BY <1>2, <1>3, <3>5, <3>6, <3>7, <3>8 DEF RowsLeft
  <2>3. CASE \E e \in Entries : Begin(p, e)
    <3>1. Absent' = Absent
      BY <2>3 DEF Begin, Absent, ledger
    <3>2. Cardinality(Absent) > Cardinality(Waiting)
      BY <2>3 DEF Begin, Absent, Waiting
    <3>3. /\ IsFiniteSet(Waiting \cup {p})
          /\ Cardinality(Waiting \cup {p}) \in {Cardinality(Waiting), Cardinality(Waiting) + 1}
      BY <1>1, FS_AddElement
    <3>4. Cardinality(Waiting') <= Cardinality(Waiting \cup {p}) /\ IsFiniteSet(Waiting')
      BY <2>1, <3>3, FS_Subset
    <3>5. Cardinality(Waiting') \in Nat /\ Cardinality(Waiting \cup {p}) \in Nat
      BY <3>3, <3>4, FS_CardinalityType
    <3>6. QED
      BY <1>2, <3>1, <3>2, <3>3, <3>4, <3>5 DEF RowsLeft
  <2>4. CASE ~StartRun(p) /\ (p \in Waiting' => p \in Waiting)
    <3>1. Waiting' \in SUBSET Waiting
      BY <2>1, <2>4
    <3>2. Absent' = Absent
      BY <1>5, <2>4, RowsOfStep DEF Absent, TypeInv, TypeOK, HasRun
    <3>3. Cardinality(Waiting') <= Cardinality(Waiting) /\ IsFiniteSet(Waiting')
      BY <1>1, <3>1, FS_Subset
    <3>4. Cardinality(Waiting') \in Nat
      BY <3>3, FS_CardinalityType
    <3>5. QED
      BY <1>2, <1>3, <3>2, <3>3, <3>4 DEF RowsLeft
  <2>5. QED
    BY <1>5, <2>2, <2>3, <2>4, WaitingOfStep
<1>6. QED
  BY <1>4, <1>5 DEF Next, Pass, Fill, vars, ledger

\* The values of a round stay in their domains, every round has a run row of its own
\* that is "running", and no process comes to StartRun without a row left for it.
\* (run_once, main of the two commands)
THEOREM RoundTypeCorrect == Spec => []TypeInv
<1>1. Init => TypeInv
  BY TypeInit
<1>2. TypeInv /\ [Next]_vars => TypeInv'
  BY TypeKept, SignalKept, RunKept, RowsKept DEF TypeInv
<1>3. QED
  BY <1>1, <1>2, PTL DEF Spec
-----------------------------------------------------------------------------
\* While its lock has not run out, a round that took the lock owns the lock row.
\* TakeLock takes a row only when it has expired, and Released deletes only the row of
\* its own process. (try_acquire_lock, release_lock)
THEOREM LockCorrect == Spec => []LockHeld
<1>1. Init => LockHeld
  BY DEF Init, LockHeld, LockPoint, RoundPoint, TryPoint
<1>2. ASSUME TypeInv, LockHeld, [Next]_vars PROVE LockHeld'
  <2>1. ASSUME NEW p \in Process, Step(p), NEW q \in Process, q # p
        PROVE  pc'[q] = pc[q] /\ entry'[q] = entry[q] /\ until'[q] = until[q]
    BY <1>2, <2>1, OthersKeep DEF TypeInv
  <2>3. CASE UNCHANGED <<clock, lock, pc, entry, until>>
    BY <1>2, <2>3 DEF LockHeld
  <2>2. CASE Pass
    <3>1. clock \in Nat /\ \A q \in Process : until[q] \in Nat
      BY <1>2 DEF TypeInv, TypeOK
    <3>2. clock' = clock + 1 /\ lock' = lock /\ pc' = pc /\ entry' = entry /\ until' = until
      BY <2>2 DEF Pass, ledger, local
    <3>3. \A q \in Process : clock' < until'[q] => clock < until[q]
      BY <3>1, <3>2
    <3>4. QED
      BY <1>2, <3>2, <3>3 DEF LockHeld
  <2> USE <1>2, TradingAssumption DEF TypeInv, TypeOK, Lock, ledger, local, LockPoint, RoundPoint, TryPoint
  <2>4. ASSUME NEW p \in Process, Step(p) PROVE LockHeld'
    <3>1. \A q \in Process : q # p => pc'[q] = pc[q] /\ entry'[q] = entry[q] /\ until'[q] = until[q]
      BY <2>4, <2>1
    <3>2. CASE TakeLock(p)
      <4>1. lock.expires <= clock /\ lock.expires \in Nat /\ clock' = clock
        BY <3>2 DEF TakeLock
      <4>2. /\ lock' = [owner |-> p, expires |-> clock + LockTtl]
            /\ until'[p] = clock + LockTtl
        BY <3>2 DEF TakeLock
      <4>3. ASSUME NEW q \in Process, pc'[q] \in LockPoint, entry'[q].locks, clock' < until'[q]
            PROVE  q = p
        <5>1. SUFFICES ASSUME q # p PROVE FALSE
          OBVIOUS
        <5>2. pc[q] \in LockPoint /\ entry[q].locks /\ clock < until[q]
          BY <3>1, <4>1, <4>3, <5>1
        <5>3. lock = [owner |-> q, expires |-> until[q]]
          BY <1>2, <5>2 DEF LockHeld
        <5>4. QED
          BY <4>1, <5>2, <5>3
      <4>4. QED
        BY <4>2, <4>3 DEF LockHeld
    <3>3. CASE /\ lock' \in {lock, Released(p)} /\ clock' = clock
               /\ pc'[p] \notin LockPoint
      <4>1. ASSUME NEW q \in Process, pc'[q] \in LockPoint, entry'[q].locks, clock' < until'[q]
            PROVE  lock' = [owner |-> q, expires |-> until'[q]]
        <5>1. q # p
          BY <3>3, <4>1
        <5>2. lock = [owner |-> q, expires |-> until[q]] /\ until'[q] = until[q]
          BY <1>2, <3>1, <3>3, <4>1, <5>1 DEF LockHeld
        <5>3. lock.owner # p
          BY <5>1, <5>2
        <5>4. QED
          BY <3>3, <5>2, <5>3 DEF Released
      <4>2. QED
        BY <4>1 DEF LockHeld
    <3>4. CASE /\ lock' = lock /\ clock' = clock
               /\ pc'[p] \in LockPoint /\ entry'[p].locks =>
                    pc[p] \in LockPoint /\ entry[p].locks /\ until'[p] = until[p]
      BY <3>1, <3>4 DEF LockHeld
    <3>5. QED
      <4> USE DEF Goto, Forget
      <4>1. CASE \E e \in Entries : Begin(p, e)
        BY <3>3, <4>1 DEF Begin
      <4>2. CASE \E force \in BOOLEAN : Schedule(p, force)
        BY <3>3, <4>2 DEF Schedule
      <4>3. CASE GoUnlocked(p) \/ LockUnavailable(p)
        BY <3>3, <3>4, <4>3 DEF GoUnlocked, LockUnavailable
      <4>4. CASE StartRun(p) \/ ReadAccount(p) \/ \E hit \in SUBSET Code : ReadPositions(p, hit)
        BY <3>4, <4>4 DEF StartRun, ReadAccount, ReadPositions
      <4>5. CASE Evaluate(p) \/ RecordAccepted(p) \/ RecordRejected(p)
        BY <3>4, <4>5 DEF Evaluate, RecordAccepted, RecordRejected
      <4>6. CASE Submit(p) \/ RecordOrder(p) \/ FinishOk(p) \/ FinishFailed(p)
        BY <3>4, <4>6 DEF Submit, RecordOrder, FinishOk, FinishFailed, Finish
      <4>7. CASE Release(p) \/ RecordTick(p)
        BY <3>3, <4>7 DEF Release, RecordTick, AfterRound
      <4>8. CASE Fail(p)
        <5>1. lock' = lock /\ clock' = clock
          BY <4>8 DEF Fail
        <5>2. CASE AfterRound(p)
          <6>1. pc'[p] \notin LockPoint
            BY <5>2, AfterRoundPlace
          <6>2. QED
            BY <3>3, <5>1, <6>1
        <5>3. CASE /\ pc[p] \in LockPoint
                   /\ UNCHANGED local
          BY <3>4, <5>1, <5>3
        <5>4. QED
          BY <4>8, <5>2, <5>3 DEF Fail
      <4>9. CASE Crash(p)
        BY <3>3, <4>9 DEF Crash
      <4>10. QED
        BY <2>4, <3>2, <4>1, <4>2, <4>3, <4>4, <4>5, <4>6, <4>7, <4>8, <4>9 DEF Step
  <2>5. QED
    BY <1>2, <2>2, <2>3, <2>4 DEF Next, Fill, vars
<1>3. QED
  BY <1>1, <1>2, RoundTypeCorrect, PTL DEF Spec
-----------------------------------------------------------------------------
\* An order is added at the end of those the broker was sent.
LEMMA SubmitAdds ==
  ASSUME TypeInv, NEW p \in Process, Submit(p)
  PROVE  \E n \in Nat \ {0} :
           /\ DOMAIN submitted = 1 .. n - 1 /\ DOMAIN submitted' = 1 .. n
           /\ \A k \in 1 .. n - 1 : submitted'[k] = submitted[k]
           /\ submitted'[n] = [run |-> run[p], code |-> Signal(p)]
<1> DEFINE e == [run |-> run[p], code |-> Signal(p)]
<1>1. pc[p] = "submit" /\ submitted' = Append(submitted, e)
  BY DEF Submit
<1>2. e \in Order
  BY <1>1, SignalIsCode DEF TypeInv, HasSignal, HasRun, InRound, RoundPoint, TryPoint, Order
<1>3. submitted \in Seq(Order)
  BY DEF TypeInv, TypeOK
<1> DEFINE n == Len(submitted) + 1
<1> HIDE DEF e
<1>4. n \in Nat \ {0} /\ n - 1 = Len(submitted)
  BY <1>3, LenProperties
<1>5. Len(submitted') = n /\ submitted' \in Seq(Order) /\ submitted'[n] = e
  BY <1>1, <1>2, <1>3, AppendProperties
<1>6. \A k \in 1 .. n - 1 : submitted'[k] = submitted[k]
  BY <1>1, <1>2, <1>3, <1>4, AppendProperties
<1>7. DOMAIN submitted = 1 .. n - 1 /\ DOMAIN submitted' = 1 .. n
  BY <1>3, <1>4, <1>5, LenProperties
<1>8. QED
  BY <1>4, <1>5, <1>6, <1>7 DEF e

\* Every step but the four that write the ledger or send an order leaves the ledger's
\* decisions and keys and the broker's orders alone, and does not come to a point
\* after such a write.
LEMMA QuietStep ==
  ASSUME TypeInv, NEW p \in Process, Step(p),
         ~RecordAccepted(p), ~RecordRejected(p), ~Submit(p), ~RecordOrder(p)
  PROVE  /\ UNCHANGED <<decisions, orders, submitted>>
         /\ pc'[p] \notin {"submit", "order"}
         /\ pc'[p] = "record" => Accepted(p, Signal(p)) /\ todo' = todo
         /\ \/ StartRun(p)
            \/ pc'[p] \in TryPoint =>
                 pc[p] \in TryPoint \ {"submit", "order"} /\ run'[p] = run[p]
<1> USE DEF TypeInv, TypeOK, Goto, Forget, local, ledger, broker, TryPoint, LockPoint, RoundPoint
<1>1. CASE \E e \in Entries : Begin(p, e)
  BY <1>1 DEF Begin
<1>2. CASE \E force \in BOOLEAN : Schedule(p, force)
  BY <1>2 DEF Schedule
<1>3. CASE TakeLock(p) \/ GoUnlocked(p) \/ LockUnavailable(p)
  BY <1>3 DEF TakeLock, GoUnlocked, LockUnavailable
<1>4. CASE StartRun(p)
  BY <1>4 DEF StartRun
<1>5. CASE ReadAccount(p) \/ \E hit \in SUBSET Code : ReadPositions(p, hit)
  BY <1>5 DEF ReadAccount, ReadPositions
<1>6. CASE Evaluate(p)
  BY <1>6 DEF Evaluate
<1>7. CASE FinishOk(p) \/ FinishFailed(p)
  BY <1>7 DEF FinishOk, FinishFailed, Finish
<1>8. CASE Release(p) \/ RecordTick(p)
  BY <1>8 DEF Release, RecordTick, AfterRound
<1>9. CASE Fail(p)
  BY <1>9 DEF Fail, AfterRound
<1>10. CASE Crash(p)
  BY <1>10 DEF Crash
<1>11. QED
  BY <1>1, <1>2, <1>3, <1>4, <1>5, <1>6, <1>7, <1>8, <1>9, <1>10 DEF Step

\* A signal that a step leaves alone is the same signal afterwards.
LEMMA SameSignal ==
  ASSUME NEW q \in Process, todo'[q] = todo[q]
  PROVE  Signal(q)' = Signal(q)
BY DEF Signal, Upcoming

\* The ledger's decisions and the broker's orders are never taken back.
LEMMA LedgerGrows ==
  ASSUME TypeInv, [Next]_vars
  PROVE  /\ decisions \subseteq decisions'
         /\ \A r, c : Sent(r, c) => Sent(r, c)'
<1>1. CASE UNCHANGED <<decisions, submitted>>
  BY <1>1 DEF Sent
<1>2. ASSUME NEW p \in Process, Step(p), ~Submit(p)
      PROVE  decisions \subseteq decisions' /\ submitted' = submitted
  BY <1>2, QuietStep DEF RecordAccepted, RecordRejected, RecordOrder, Decide, broker, ledger
<1>3. ASSUME NEW p \in Process, Submit(p)
      PROVE  decisions' = decisions /\ \A r, c : Sent(r, c) => Sent(r, c)'
  BY <1>3, SubmitAdds DEF Submit, Sent, ledger
<1>4. QED
  BY <1>1, <1>2, <1>3 DEF Next, Pass, Fill, vars, ledger, broker, Sent

\* A process that is to send the order at hand has its acceptance in the ledger, and
\* one that is to record its key has sent it.
AtHand ==
  \A p \in Process :
    /\ pc[p] \in {"submit", "order"} => InLedger(run[p], Signal(p), "accepted")
    /\ pc[p] = "order" => Sent(run[p], Signal(p))

LEMMA AtHandKept == TypeInv /\ AtHand /\ [Next]_vars => AtHand'
<1> SUFFICES ASSUME TypeInv, AtHand, [Next]_vars PROVE AtHand'
  OBVIOUS
<1>1. CASE UNCHANGED <<pc, run, todo, decisions, submitted>>
  BY <1>1 DEF AtHand, InLedger, Sent, Signal, Upcoming
<1>2. ASSUME NEW p \in Process, Step(p) PROVE AtHand'
  <2> DEFINE Held(q) == /\ pc[q] \in {"submit", "order"} => InLedger(run[q], Signal(q), "accepted")
                        /\ pc[q] = "order" => Sent(run[q], Signal(q))
  <2>1. ASSUME NEW q \in Process, q # p PROVE Held(q)'
    <3>1. pc'[q] = pc[q] /\ run'[q] = run[q] /\ Signal(q)' = Signal(q)
      BY <1>2, <2>1, OthersKeep, SameSignal DEF TypeInv
    <3>2. QED
      BY <3>1, LedgerGrows DEF AtHand, InLedger
  <2>2. ASSUME Submit(p)
        PROVE  \E k \in DOMAIN submitted' :
                 submitted'[k] = [run |-> run[p], code |-> Signal(p)]
    <3>1. PICK n \in Nat \ {0} : /\ DOMAIN submitted' = 1 .. n
                                 /\ submitted'[n] = [run |-> run[p], code |-> Signal(p)]
      BY <2>2, SubmitAdds
    <3>2. n \in DOMAIN submitted'
      BY <3>1
    <3>3. QED
      BY <3>1, <3>2
  <2>3. Held(p)'
    <3> USE DEF TypeInv, TypeOK, Goto, local
    <3>1. CASE RecordAccepted(p)
      <4>1. pc'[p] = "submit" /\ run'[p] = run[p] /\ todo'[p] = todo[p]
        BY <3>1 DEF RecordAccepted
      <4>2. Signal(p)' = Signal(p)
        BY <4>1, SameSignal
      <4>3. QED
        BY <3>1, <4>1, <4>2 DEF RecordAccepted, Decide, InLedger
    <3>2. CASE Submit(p)
      <4>1. pc[p] = "submit" /\ pc'[p] = "order" /\ run'[p] = run[p] /\ todo'[p] = todo[p]
        BY <3>2 DEF Submit
      <4>2. Signal(p)' = Signal(p)
        BY <4>1, SameSignal
      <4>3. Sent(run[p], Signal(p))'
        BY <2>2, <3>2, <4>1, <4>2 DEF Sent
      <4>4. QED
        BY <3>2, <4>1, <4>2, <4>3 DEF Submit, ledger, AtHand, InLedger
    <3>3. CASE RecordRejected(p) \/ RecordOrder(p)
      BY <3>3 DEF RecordRejected, RecordOrder
    <3>4. QED
      BY <1>2, <3>1, <3>2, <3>3, QuietStep
  <2>4. QED
    BY <2>1, <2>3 DEF AtHand
<1>3. QED
  BY <1>1, <1>2 DEF Next, Pass, Fill, vars, ledger, broker, local

LEMMA SentKept == TypeInv /\ AtHand /\ SentIsDecided /\ [Next]_vars => SentIsDecided'
<1> SUFFICES ASSUME TypeInv, AtHand, SentIsDecided, [Next]_vars PROVE SentIsDecided'
  OBVIOUS
<1>1. CASE UNCHANGED <<orders, submitted>>
  BY <1>1, LedgerGrows DEF SentIsDecided, InLedger
<1>2. ASSUME NEW p \in Process, Submit(p) PROVE SentIsDecided'
  <2>1. orders' = orders /\ decisions' = decisions
    BY <1>2 DEF Submit, ledger
  <2>2. InLedger(run[p], Signal(p), "accepted")
    BY <1>2 DEF Submit, AtHand
  <2>3. PICK n \in Nat \ {0} :
          /\ DOMAIN submitted = 1 .. n - 1 /\ DOMAIN submitted' = 1 .. n
          /\ \A k \in 1 .. n - 1 : submitted'[k] = submitted[k]
          /\ submitted'[n] = [run |-> run[p], code |-> Signal(p)]
    BY <1>2, SubmitAdds
  <2>4. ASSUME NEW k \in 1 .. n
        PROVE  InLedger(submitted[k].run, submitted[k].code, "accepted")'
    BY <2>1, <2>2, <2>3, <2>4 DEF SentIsDecided, InLedger
  <2>5. ASSUME NEW c \in Code, orders[c] # None
        PROVE  Sent(orders[c], c)'
    BY <2>1, <2>5, LedgerGrows DEF SentIsDecided, Sent
  <2>6. QED
    BY <2>1, <2>3, <2>4, <2>5 DEF SentIsDecided
<1>3. ASSUME NEW p \in Process, RecordOrder(p) PROVE SentIsDecided'
  <2>1. Sent(run[p], Signal(p)) /\ UNCHANGED <<submitted, decisions>>
    BY <1>3 DEF RecordOrder, AtHand, broker
  <2>2. \A c \in Code : orders'[c] = orders[c] \/ (c = Signal(p) /\ orders'[c] = run[p])
    BY <1>3 DEF RecordOrder, TypeInv, TypeOK
  <2>3. QED
    BY <2>1, <2>2 DEF SentIsDecided, InLedger, Sent
<1>4. QED
  <2>1. ASSUME NEW p \in Process, Step(p), ~Submit(p), ~RecordOrder(p)
        PROVE  UNCHANGED <<orders, submitted>>
    BY <2>1, QuietStep DEF RecordAccepted, RecordRejected, broker
  <2>2. QED
    BY <1>1, <1>2, <1>3, <2>1 DEF Next, Pass, Fill, vars, ledger, broker

\* Every order sent to the broker has its accepted decision in the ledger, and the
\* ledger names as the owner of a key only a run that did send it. (run_once)
THEOREM SentDecided == Spec => []SentIsDecided
<1>1. Init => AtHand /\ SentIsDecided
  BY DEF Init, AtHand, SentIsDecided
<1>2. QED
  BY <1>1, AtHandKept, SentKept, RoundTypeCorrect, PTL DEF Spec
-----------------------------------------------------------------------------
Settled(r, c) == Sent(r, c) /\ orders[c] # None

\* A run with a decision has started; a round has settled every order it accepted,
\* except the one at hand.
DecidedRuns == \A d \in decisions : runs[d.run] # "absent"
RoundSettled ==
  \A p \in Process : pc[p] \in TryPoint =>
    \A c \in Code : InLedger(run[p], c, "accepted") =>
      Settled(run[p], c) \/ (pc[p] \in {"submit", "order"} /\ c = Signal(p))

OkInv == DecidedRuns /\ RoundSettled /\ OkRunIsComplete

LEMMA SettledStays ==
  ASSUME TypeInv, [Next]_vars, NEW r, NEW c \in Code, Settled(r, c)
  PROVE  Settled(r, c)'
<1>1. Sent(r, c)'
  BY LedgerGrows DEF Settled
<1>2. ASSUME NEW p \in Process, Step(p) PROVE orders'[c] # None
  <2>1. CASE RecordOrder(p)
    BY <2>1 DEF RecordOrder, Settled, TypeInv, TypeOK
  <2>2. CASE ~RecordOrder(p)
    <3>1. orders' = orders
      BY <1>2, <2>2, QuietStep DEF RecordAccepted, RecordRejected, Submit, ledger
    <3>2. QED
      BY <3>1 DEF Settled
  <2>3. QED
    BY <2>1, <2>2
<1>3. orders'[c] # None
  BY <1>2 DEF Next, Pass, Fill, vars, ledger, Settled
<1>4. QED
  BY <1>1, <1>3 DEF Settled

\* A step that writes a decision or is quiet leaves a started run started.
LEMMA StartedStays ==
  ASSUME TypeInv, [Next]_vars, NEW r \in RunId, runs[r] # "absent"
  PROVE  runs'[r] # "absent"
<1>1. ASSUME NEW p \in Process, Step(p) PROVE runs'[r] # "absent"
  BY <1>1, RowsOfStep DEF StartRun, TypeInv, TypeOK
<1>2. QED
  BY <1>1 DEF Next, Pass, Fill, vars, ledger

LEMMA DecidedKept == TypeInv /\ DecidedRuns /\ [Next]_vars => DecidedRuns'
<1> SUFFICES ASSUME TypeInv, DecidedRuns, [Next]_vars, NEW d \in decisions'
             PROVE  runs'[d.run] # "absent"
  BY DEF DecidedRuns
<1>1. CASE d \in decisions
  BY <1>1, StartedStays DEF DecidedRuns, TypeInv, TypeOK, Decision
<1>2. ASSUME NEW p \in Process, RecordAccepted(p) \/ RecordRejected(p), d \notin decisions
      PROVE  runs'[d.run] # "absent"
  <2>1. d.run = run[p] /\ InRound(p) /\ runs' = runs
    BY <1>2 DEF RecordAccepted, RecordRejected, Decide, InRound, RoundPoint, TryPoint
  <2>2. QED
    BY <2>1 DEF TypeInv, HasRun
<1>3. ASSUME NEW p \in Process, Step(p), ~RecordAccepted(p), ~RecordRejected(p)
      PROVE  decisions' = decisions
  BY <1>3, QuietStep DEF RecordOrder, Submit, ledger
<1>4. QED
  BY <1>1, <1>2, <1>3 DEF Next, Pass, Fill, vars, ledger

LEMMA RoundSettledKept ==
  TypeInv /\ AtHand /\ DecidedRuns /\ RoundSettled /\ [Next]_vars => RoundSettled'
<1> SUFFICES ASSUME TypeInv, AtHand, DecidedRuns, RoundSettled, [Next]_vars PROVE RoundSettled'
  OBVIOUS
<1> DEFINE Done(q, c) == Settled(run[q], c) \/ (pc[q] \in {"submit", "order"} /\ c = Signal(q))
<1>1. CASE UNCHANGED <<pc, run, todo, decisions, orders, submitted>>
  BY <1>1 DEF RoundSettled, InLedger, Settled, Sent, Signal, Upcoming
<1>2. ASSUME NEW p \in Process, Step(p) PROVE RoundSettled'
  <2>1. ASSUME NEW q \in Process, q # p, pc'[q] \in TryPoint,
               NEW c \in Code, InLedger(run[q], c, "accepted")'
        PROVE  Done(q, c)'
    <3>1. pc'[q] = pc[q] /\ run'[q] = run[q] /\ Signal(q)' = Signal(q)
      BY <1>2, <2>1, OthersKeep, SameSignal DEF TypeInv
    <3>2. InLedger(run[q], c, "accepted")
      <4>1. CASE RecordAccepted(p) \/ RecordRejected(p)
        <5>1. run[q] # run[p]
          BY <2>1, <3>1, <4>1 DEF RecordAccepted, RecordRejected, TypeInv, OwnRun, InRound,
             RoundPoint, TryPoint
        <5>2. QED
          BY <2>1, <3>1, <4>1, <5>1 DEF RecordAccepted, RecordRejected, Decide, InLedger
      <4>2. CASE decisions' = decisions
        BY <2>1, <3>1, <4>2 DEF InLedger
      <4>3. QED
        BY <1>2, <4>1, <4>2, QuietStep DEF Submit, RecordOrder, ledger
    <3>3. Done(q, c)
      BY <2>1, <3>1, <3>2 DEF RoundSettled
    <3>4. QED
      BY <3>1, <3>3, SettledStays
  <2>2. ASSUME pc'[p] \in TryPoint, NEW c \in Code, InLedger(run[p], c, "accepted")'
        PROVE  Done(p, c)'
    <3>1. CASE RecordAccepted(p) \/ RecordRejected(p)
      <4>1. run'[p] = run[p] /\ pc[p] \in TryPoint \ {"submit", "order"}
        BY <3>1 DEF RecordAccepted, RecordRejected, local, TryPoint
      <4>2. CASE InLedger(run[p], c, "accepted")
        <5>1. Settled(run[p], c)
          BY <4>1, <4>2 DEF RoundSettled
        <5>2. QED
          BY <4>1, <5>1, SettledStays
      <4>3. CASE ~InLedger(run[p], c, "accepted")
        <5>1. RecordAccepted(p) /\ c = Signal(p)
          BY <2>2, <3>1, <4>1, <4>3 DEF RecordAccepted, RecordRejected, Decide, InLedger
        <5>2. pc'[p] = "submit" /\ todo'[p] = todo[p]
          BY <5>1 DEF RecordAccepted, Goto, local, TypeInv, TypeOK
        <5>3. QED
          BY <5>1, <5>2, SameSignal
      <4>4. QED
        BY <4>2, <4>3
    <3>2. CASE Submit(p)
      <4>1. /\ pc[p] = "submit" /\ pc'[p] = "order" /\ run'[p] = run[p]
            /\ todo'[p] = todo[p] /\ decisions' = decisions
        BY <3>2 DEF Submit, Goto, local, ledger, TypeInv, TypeOK
      <4>2. Done(p, c)
        BY <2>2, <4>1 DEF RoundSettled, InLedger, TryPoint
      <4>3. QED
        BY <4>1, <4>2, SameSignal, SettledStays
    <3>3. CASE RecordOrder(p)
      <4>1. pc[p] = "order" /\ run'[p] = run[p] /\ decisions' = decisions
        BY <3>3 DEF RecordOrder
      <4>2. Done(p, c)
        BY <2>2, <4>1 DEF RoundSettled, InLedger, TryPoint
      <4>3. CASE Settled(run[p], c)
        BY <4>1, <4>3, SettledStays
      <4>4. CASE c = Signal(p)
        <5>1. orders'[c] # None
          <6>1. run[p] \in RunId
            BY <4>1 DEF TypeInv, HasRun, InRound, RoundPoint, TryPoint
          <6>2. QED
            BY <3>3, <4>4, <6>1, TradingAssumption DEF RecordOrder, TypeInv, TypeOK
        <5>2. Sent(run[p], c)'
          BY <4>1, <4>4, LedgerGrows DEF AtHand
        <5>3. QED
          BY <4>1, <5>1, <5>2 DEF Settled, Sent
      <4>5. QED
        BY <4>2, <4>3, <4>4
    <3>4. CASE StartRun(p)
      <4>1. run'[p] = FreshRun /\ decisions' = decisions
        BY <3>4 DEF StartRun, TypeInv, TypeOK
      <4>2. runs[FreshRun] = "absent"
        BY <3>4, FreshRunExists DEF StartRun
      <4>3. QED
        BY <2>2, <4>1, <4>2 DEF InLedger, DecidedRuns
    <3>5. CASE /\ UNCHANGED <<decisions, orders, submitted>>
               /\ pc[p] \in TryPoint \ {"submit", "order"} /\ run'[p] = run[p]
      <4>1. Settled(run[p], c)
        BY <2>2, <3>5 DEF RoundSettled, InLedger
      <4>2. QED
        BY <3>5, <4>1, SettledStays
    <3>6. QED
      BY <1>2, <2>2, <3>1, <3>2, <3>3, <3>4, <3>5, QuietStep
  <2>3. QED
    BY <2>1, <2>2 DEF RoundSettled
<1>3. QED
  BY <1>1, <1>2 DEF Next, Pass, Fill, vars, ledger, broker, local

\* A run becomes "ok" only when its round comes to its end.
LEMMA OkOfStep ==
  ASSUME TypeInv, NEW p \in Process, Step(p), NEW r \in RunId, runs'[r] = "ok"
  PROVE  runs[r] = "ok" \/ (FinishOk(p) /\ r = run[p])
<1> USE DEF TypeInv, TypeOK, ledger
<1>1. CASE \E e \in Entries : Begin(p, e)
  BY <1>1 DEF Begin
<1>2. CASE \E force \in BOOLEAN : Schedule(p, force)
  BY <1>2 DEF Schedule
<1>3. CASE TakeLock(p) \/ GoUnlocked(p) \/ LockUnavailable(p)
  BY <1>3 DEF TakeLock, GoUnlocked, LockUnavailable
<1>4. CASE StartRun(p) \/ ReadAccount(p) \/ \E hit \in SUBSET Code : ReadPositions(p, hit)
  BY <1>4 DEF StartRun, ReadAccount, ReadPositions
<1>5. CASE Evaluate(p) \/ RecordAccepted(p) \/ RecordRejected(p)
  BY <1>5 DEF Evaluate, RecordAccepted, RecordRejected
<1>6. CASE Submit(p) \/ RecordOrder(p)
  BY <1>6 DEF Submit, RecordOrder
<1>7. CASE FinishOk(p) \/ FinishFailed(p)
  BY <1>7 DEF FinishOk, FinishFailed, Finish
<1>8. CASE Release(p) \/ RecordTick(p) \/ Fail(p) \/ Crash(p)
  BY <1>8 DEF Release, RecordTick, Fail, Crash
<1>9. QED
  BY <1>1, <1>2, <1>3, <1>4, <1>5, <1>6, <1>7, <1>8 DEF Step

LEMMA OkRunKept ==
  TypeInv /\ RoundSettled /\ OkRunIsComplete /\ [Next]_vars => OkRunIsComplete'
<1> SUFFICES ASSUME TypeInv, RoundSettled, OkRunIsComplete, [Next]_vars,
                    NEW r \in RunId, runs'[r] = "ok",
                    NEW c \in Code, InLedger(r, c, "accepted")'
             PROVE  Settled(r, c)'
  BY DEF OkRunIsComplete, Settled
<1>1. ASSUME runs[r] = "ok", InLedger(r, c, "accepted") PROVE Settled(r, c)'
  <2>1. Settled(r, c)
    BY <1>1 DEF OkRunIsComplete, Settled
  <2>2. QED
    BY <2>1, SettledStays
<1>2. CASE UNCHANGED <<runs, decisions>>
  BY <1>1, <1>2 DEF InLedger
<1>3. ASSUME NEW p \in Process, Step(p) PROVE Settled(r, c)'
  <2>1. CASE FinishOk(p) /\ r = run[p]
    <3>1. decisions' = decisions /\ pc[p] = "finish"
      BY <2>1 DEF FinishOk, Finish
    <3>2. Settled(r, c)
      BY <2>1, <3>1 DEF RoundSettled, InLedger, TryPoint
    <3>3. QED
      BY <3>2, SettledStays
  <2>2. CASE runs[r] = "ok"
    <3>1. InLedger(r, c, "accepted")
      <4>1. CASE RecordAccepted(p) \/ RecordRejected(p)
        <5>1. run[p] # r
          BY <2>2, <4>1 DEF RecordAccepted, RecordRejected, TypeInv, HasRun, InRound,
             RoundPoint, TryPoint
        <5>2. QED
          BY <4>1, <5>1 DEF RecordAccepted, RecordRejected, Decide, InLedger
      <4>2. CASE decisions' = decisions
        BY <4>2 DEF InLedger
      <4>3. QED
        BY <1>3, <4>1, <4>2, QuietStep DEF Submit, RecordOrder, ledger
    <3>2. QED
      BY <1>1, <2>2, <3>1
  <2>3. QED
    BY <1>3, <2>1, <2>2, OkOfStep
<1>4. QED
  BY <1>2, <1>3 DEF Next, Pass, Fill, vars, ledger

\* A run that ended ok sent every order it accepted and left its key in the ledger,
\* so that no later round sends it again. (run_once, record_order)
THEOREM OkRunsComplete == Spec => []OkRunIsComplete
<1>1. Init => AtHand /\ OkInv
  BY DEF Init, AtHand, OkInv, DecidedRuns, RoundSettled, OkRunIsComplete, TryPoint, InLedger
<1>2. TypeInv /\ AtHand /\ OkInv /\ [Next]_vars => (AtHand /\ OkInv)'
  BY AtHandKept, DecidedKept, RoundSettledKept, OkRunKept DEF OkInv
<1>3. OkInv => OkRunIsComplete
  BY DEF OkInv
<1>4. QED
  BY <1>1, <1>2, <1>3, RoundTypeCorrect, PTL DEF Spec
-----------------------------------------------------------------------------
\* Nothing has gone wrong so far.
Clean == crashes + failures = 0 /\ ~overlap

\* Then at most one process is in a round; every code sent has its key in the ledger or
\* is about to get it, and a code that is about to be sent has not been sent.
OnceInv ==
  Clean =>
    /\ \A p, q \in Process : InRound(p) /\ InRound(q) => p = q
    /\ \A k \in DOMAIN submitted :
         \/ orders[submitted[k].code] # None
         \/ \E p \in Process : pc[p] = "order" /\ Signal(p) = submitted[k].code
    /\ \A p \in Process : pc[p] \in {"record", "submit"} => orders[Signal(p)] = None
    /\ ~Duplicate

\* What a step that leaves the state clean does, as far as the points go.
LEMMA CleanStep ==
  ASSUME TypeInv, NEW p \in Process, Step(p), Clean'
  PROVE  /\ Clean
         /\ InRound(p)' => InRound(p) \/ \A q \in Process : ~InRound(q)
         /\ pc[p] = "order" => RecordOrder(p)
<1> USE DEF TypeInv, TypeOK, Goto, Forget, local, aux, InRound, RoundPoint, TryPoint, Clean
<1>1. CASE \E e \in Entries : Begin(p, e)
  BY <1>1 DEF Begin
<1>2. CASE \E force \in BOOLEAN : Schedule(p, force)
  BY <1>2 DEF Schedule
<1>3. CASE TakeLock(p) \/ GoUnlocked(p) \/ LockUnavailable(p)
  BY <1>3 DEF TakeLock, GoUnlocked, LockUnavailable
<1>4. CASE StartRun(p)
  BY <1>4 DEF StartRun
<1>5. CASE ReadAccount(p) \/ \E hit \in SUBSET Code : ReadPositions(p, hit)
  BY <1>5 DEF ReadAccount, ReadPositions
<1>6. CASE Evaluate(p) \/ RecordAccepted(p) \/ RecordRejected(p)
  BY <1>6 DEF Evaluate, RecordAccepted, RecordRejected
<1>7. CASE Submit(p) \/ RecordOrder(p)
  BY <1>7 DEF Submit, RecordOrder
<1>8. CASE FinishOk(p) \/ FinishFailed(p)
  BY <1>8 DEF FinishOk, FinishFailed, Finish
<1>9. CASE Release(p) \/ RecordTick(p)
  BY <1>9 DEF Release, RecordTick, AfterRound
<1>10. CASE Fail(p) \/ Crash(p)
  BY <1>10 DEF Fail, Crash
<1>11. QED
  BY <1>1, <1>2, <1>3, <1>4, <1>5, <1>6, <1>7, <1>8, <1>9, <1>10 DEF Step

LEMMA OnceKept == TypeInv /\ OnceInv /\ [Next]_vars => OnceInv'
<1> SUFFICES ASSUME TypeInv, OnceInv, [Next]_vars PROVE OnceInv'
  OBVIOUS
<1> DEFINE Keyed(k) == \/ orders[submitted[k].code] # None
                       \/ \E q \in Process : pc[q] = "order" /\ Signal(q) = submitted[k].code
<1>1. CASE UNCHANGED <<pc, todo, orders, submitted, aux>>
  <2>1. /\ Clean' = Clean /\ Duplicate' = Duplicate
        /\ \A p \in Process : InRound(p)' = InRound(p) /\ Signal(p)' = Signal(p)
    BY <1>1 DEF Clean, aux, InRound, Duplicate, Signal, Upcoming
  <2>2. pc' = pc /\ orders' = orders /\ submitted' = submitted
    BY <1>1
  <2>3. QED
    BY <2>1, <2>2 DEF OnceInv
<1>2. ASSUME NEW p \in Process, Step(p), Clean' PROVE OnceInv'
  <2>1. /\ Clean
        /\ InRound(p)' => InRound(p) \/ \A q \in Process : ~InRound(q)
        /\ pc[p] = "order" => RecordOrder(p)
    BY <1>2, CleanStep
  <2>2. \A q \in Process : q # p => pc'[q] = pc[q] /\ Signal(q)' = Signal(q)
    BY <1>2, OthersKeep, SameSignal DEF TypeInv
  <2>3. /\ \A q, r \in Process : InRound(q) /\ InRound(r) => q = r
        /\ \A k \in DOMAIN submitted : Keyed(k)
        /\ \A q \in Process : pc[q] \in {"record", "submit"} => orders[Signal(q)] = None
        /\ ~Duplicate
    BY <2>1 DEF OnceInv
  <2>4. \A q, r \in Process : InRound(q)' /\ InRound(r)' => q = r
    BY <2>1, <2>2, <2>3 DEF InRound
  <2>5. CASE RecordOrder(p)
    <3>1. /\ pc[p] = "order" /\ pc'[p] = "evaluate" /\ submitted' = submitted
          /\ run[p] \in RunId
      BY <2>5 DEF RecordOrder, Goto, broker, TypeInv, TypeOK, HasRun, InRound, RoundPoint, TryPoint
    <3>2. \A c \in Code : orders[c] # None \/ c = Signal(p) => orders'[c] # None
      BY <2>5, <3>1, TradingAssumption DEF RecordOrder, TypeInv, TypeOK
    <3>3. \A q \in Process : q # p => pc[q] \notin {"record", "submit", "order"}
      BY <2>3, <3>1 DEF InRound, RoundPoint, TryPoint
    <3>4. \A k \in DOMAIN submitted : submitted[k].code \in Code
      <4>1. submitted \in Seq(Order)
        BY DEF TypeInv, TypeOK
      <4>2. \A k \in DOMAIN submitted : submitted[k] \in Order
        BY <4>1, ElementOfSeq, LenProperties
      <4>3. QED
        BY <4>2 DEF Order
    <3>5. \A k \in DOMAIN submitted : Keyed(k)'
      BY <2>3, <3>1, <3>2, <3>3, <3>4
    <3>6. \A q \in Process : pc'[q] \notin {"record", "submit"}
      BY <2>2, <3>1, <3>3
    <3>7. QED
      BY <2>3, <2>4, <3>1, <3>5, <3>6 DEF OnceInv, Duplicate
  <2>6. CASE Submit(p)
    <3>1. /\ pc[p] = "submit" /\ pc'[p] = "order" /\ orders' = orders
          /\ todo'[p] = todo[p]
      BY <2>6 DEF Submit, Goto, ledger, local, TypeInv, TypeOK
    <3>2. PICK n \in Nat \ {0} :
            /\ DOMAIN submitted = 1 .. n - 1 /\ DOMAIN submitted' = 1 .. n
            /\ \A k \in 1 .. n - 1 : submitted'[k] = submitted[k]
            /\ submitted'[n] = [run |-> run[p], code |-> Signal(p)]
      BY <2>6, SubmitAdds
    <3>3. Signal(p)' = Signal(p)
      BY <3>1, SameSignal
    <3>4. ASSUME NEW k \in 1 .. n - 1 PROVE Keyed(k)' /\ submitted[k].code # Signal(p)
      <4>1. Keyed(k)
        BY <2>3, <3>2
      <4>2. \A q \in Process : pc[q] # "order"
        BY <2>3, <3>1 DEF InRound, RoundPoint, TryPoint
      <4>3. orders[submitted[k].code] # None /\ orders[Signal(p)] = None
        BY <2>3, <3>1, <4>1, <4>2
      <4>4. QED
        BY <3>1, <3>2, <4>3
    <3>5. Keyed(n)'
      BY <3>1, <3>2, <3>3
    <3>6. \A k \in DOMAIN submitted' : Keyed(k)'
      BY <3>2, <3>4, <3>5
    <3>7. \A q \in Process : pc'[q] \in {"record", "submit"} => orders'[Signal(q)'] = None
      BY <2>2, <2>3, <3>1
    <3>8. ~Duplicate'
      BY <2>3, <3>2, <3>4 DEF Duplicate
    <3>9. QED
      BY <2>4, <3>6, <3>7, <3>8 DEF OnceInv
  <2>7. CASE ~RecordOrder(p) /\ ~Submit(p)
    <3>1. UNCHANGED <<orders, submitted>>
      BY <1>2, <2>7, QuietStep DEF RecordAccepted, RecordRejected, broker
    <3>2. \A q \in Process : pc[q] = "order" => q # p
      BY <2>1, <2>7
    <3>3. \A k \in DOMAIN submitted : Keyed(k)'
      BY <2>2, <2>3, <3>1, <3>2
    <3>4. pc'[p] \in {"record", "submit"} => orders[Signal(p)] = None /\ todo'[p] = todo[p]
      <4>1. CASE RecordAccepted(p) \/ RecordRejected(p)
        BY <2>3, <4>1 DEF RecordAccepted, RecordRejected, Goto, local, TypeInv, TypeOK
      <4>2. CASE ~RecordAccepted(p) /\ ~RecordRejected(p)
        BY <1>2, <2>7, <4>2, QuietStep DEF Accepted
      <4>3. QED
        BY <4>1, <4>2
    <3>5. \A q \in Process : pc'[q] \in {"record", "submit"} => orders'[Signal(q)'] = None
      BY <2>2, <2>3, <3>1, <3>4, SameSignal
    <3>6. QED
      BY <2>3, <2>4, <3>1, <3>3, <3>5 DEF OnceInv, Duplicate
  <2>8. QED
    BY <2>5, <2>6, <2>7
<1>3. QED
  BY <1>1, <1>2 DEF Next, Pass, Fill, vars, ledger, broker, local, OnceInv

\* The broker is sent the same order twice only if some process crashed or failed, or
\* two rounds were under way at once: a run asks for the key before it accepts, and
\* one round's key is recorded before the next round asks. (evaluate, record_order)
THEOREM DuplicateIsFault == Spec => []DuplicateNeedsFault
<1>1. Init => OnceInv
  BY DEF Init, OnceInv, Duplicate, InRound, RoundPoint, TryPoint
<1>2. TypeInv /\ OnceInv => DuplicateNeedsFault
  BY DEF OnceInv, Clean, DuplicateNeedsFault, TypeInv, TypeOK
<1>3. QED
  BY <1>1, <1>2, OnceKept, RoundTypeCorrect, PTL DEF Spec
=============================================================================
