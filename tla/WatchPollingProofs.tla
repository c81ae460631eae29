-------------------------- MODULE WatchPollingProofs --------------------------
(***************************************************************************)
(* Theorems about WatchPolling for every set of request threads and of     *)
(* symbols, whatever the sources return, every time to live of a baseline  *)
(* and any number of restarts.                                             *)
(***************************************************************************)
EXTENDS WatchPolling, SequenceTheorems, WellFoundedInduction, NaturalsInduction, TLAPS

\* A request is between the snapshot and the save of its current symbol.
Held == {"load", "drop", "save", "raise"}

Fact == UNION {Facts[s] : s \in Symbol}
Snap == {Snapshot(f, us, at) : f \in Fact, us \in BOOLEAN, at \in Nat}
Entry == [payload : Snap, savedAt : Nat]
Answer == {Item(s, snapshot, previous) : s \in Symbol, snapshot \in Snap, previous \in Snap \cup {None}}

Typed ==
  /\ clock \in 0 .. MaxClock
  /\ baseline \in [Symbol -> Entry \cup {None}]
  /\ pc \in [Request -> Point]
  /\ DOMAIN todo = Request
  /\ todo = [r \in Request |-> todo[r]]
  /\ current \in [Request -> Snap \cup {None}]
  /\ reply \in [Request -> Seq(Answer)]
  /\ gap \in [Symbol -> SUBSET Cause]
  /\ \A r \in Request : pc[r] \in Held => Head(todo[r]) \in Symbol /\ current[r] \in Snap

\* No snapshot is of the future.
Past ==
  /\ \A s \in Symbol : baseline[s] # None => baseline[s].payload.at <= clock
  /\ \A r \in Request : pc[r] \in Held => current[r].at <= clock

\* Two requests that have both begun with a symbol have left a mark.
Marked ==
  \A s \in Symbol : \A q, r \in Request :
    q # r /\ Owed(q, s) /\ Owed(r, s) => "overlap" \in gap[s]

\* Without that mark the snapshot of a request is not older than the baseline.
Newer ==
  \A r \in Request : \A s \in Symbol :
    pc[r] \in Held /\ Head(todo[r]) = s =>
      \/ baseline[s] = None
      \/ baseline[s].payload.at <= current[r].at
      \/ "overlap" \in gap[s]

WatchInv == Typed /\ Past /\ Marked /\ Newer
-----------------------------------------------------------------------------
LEMMA SnapshotIsSnap ==
  ASSUME NEW s \in Symbol, NEW f \in Facts[s], NEW us \in BOOLEAN, NEW at \in Nat
  PROVE  Snapshot(f, us, at) \in Snap /\ Snapshot(f, us, at).at = at
<1>1. f \in Fact
  BY DEF Fact
<1>2. Snapshot(f, us, at) \in Snap
  BY <1>1 DEF Snap
<1>3. Snapshot(f, us, at).at = at
  BY DEF Snapshot
<1>4. QED
  BY <1>2, <1>3

LEMMA SnapHasTime ==
  ASSUME NEW x \in Snap
  PROVE  x.at \in Nat
<1>1. PICK f \in Fact, us \in BOOLEAN, at \in Nat : x = Snapshot(f, us, at)
  BY DEF Snap
<1>2. QED
  BY <1>1 DEF Snapshot

LEMMA TakenIsSnap ==
  ASSUME clock \in Nat, NEW s \in Symbol, NEW f \in Facts[s]
  PROVE  Snapshot(f, s \in Us, clock) \in Snap /\ Snapshot(f, s \in Us, clock).at = clock
<1>1. \A us \in BOOLEAN : Snapshot(f, us, clock) \in Snap /\ Snapshot(f, us, clock).at = clock
  BY SnapshotIsSnap
<1>2. (s \in Us) \in BOOLEAN
  OBVIOUS
<1>3. QED
  BY <1>1, <1>2, Zenon

LEMMA ItemIsAnswer ==
  ASSUME NEW s \in Symbol, NEW x \in Snap, NEW y \in Snap \cup {None}
  PROVE  Item(s, x, y) \in Answer
  BY DEF Answer

\* An answered symbol joins the reply of its request.
LEMMA AnswerStep ==
  ASSUME Typed, NEW r \in Request, pc[r] \in Held, NEW previous \in Snap \cup {None},
         AnswerSymbol(r, previous)
  PROVE  /\ reply' \in [Request -> Seq(Answer)]
         /\ pc' \in [Request -> Point] /\ pc'[r] \in Held
         /\ \A q \in Request : q # r => pc'[q] = pc[q] /\ reply'[q] = reply[q]
         /\ \A s : Replied(r, s)' => Replied(r, s) \/ s = Head(todo[r])
<1>1. CASE DividesByZero(current[r])
  BY <1>1 DEF AnswerSymbol, Typed, Point, Held, Replied
<1>2. CASE ~DividesByZero(current[r])
  <2> DEFINE item == Item(Head(todo[r]), current[r], previous)
  <2>1. item \in Answer
    <3>1. Head(todo[r]) \in Symbol /\ current[r] \in Snap
      BY DEF Typed
    <3>2. QED
      BY <3>1, ItemIsAnswer
  <2>2. item.symbol = Head(todo[r])
    BY DEF Item
  <2>3. pc' = [pc EXCEPT ![r] = "save"] /\ reply' = [reply EXCEPT ![r] = Append(@, item)]
    BY <1>2 DEF AnswerSymbol
  <2> HIDE DEF item
  <2>4. reply[r] \in Seq(Answer)
    BY DEF Typed
  <2>5. reply'[r] = Append(reply[r], item)
    BY <2>3 DEF Typed
  <2>6. /\ Append(reply[r], item) \in Seq(Answer)
        /\ \A k \in DOMAIN Append(reply[r], item) :
             (k \in DOMAIN reply[r] /\ Append(reply[r], item)[k] = reply[r][k])
             \/ Append(reply[r], item)[k] = item
    BY <2>1, <2>4, AppendProperties, LenProperties
  <2>7. \A s : Replied(r, s)' => Replied(r, s) \/ s = Head(todo[r])
    BY <2>2, <2>5, <2>6 DEF Replied
  <2>8. QED
    BY <2>3, <2>5, <2>6, <2>7 DEF Typed, Point, Held
<1>3. QED
  BY <1>1, <1>2

\* What loading a baseline does: the answer is built from no older snapshot than it.
LEMMA LoadStep ==
  ASSUME Typed, NEW r \in Request, LoadBaseline(r) \/ DropBaseline(r)
  PROVE  /\ reply' \in [Request -> Seq(Answer)]
         /\ pc' \in [Request -> Point] /\ pc[r] \in Held /\ pc'[r] \in Held
         /\ \A q \in Request : q # r => pc'[q] = pc[q] /\ reply'[q] = reply[q]
         /\ \A s : Replied(r, s)' => Replied(r, s) \/ s = Head(todo[r])
         /\ UNCHANGED <<todo, current, clock>>
<1>1. pc[r] \in Held /\ Head(todo[r]) \in Symbol
  BY DEF LoadBaseline, DropBaseline, Held, Typed
<1>2. UNCHANGED <<todo, current, clock>>
  BY DEF LoadBaseline, DropBaseline
<1>3. CASE \E previous \in Snap \cup {None} : AnswerSymbol(r, previous)
  BY <1>1, <1>2, <1>3, AnswerStep
<1>4. CASE pc' = [pc EXCEPT ![r] = "drop"] /\ reply' = reply
  BY <1>1, <1>2, <1>4 DEF Typed, Point, Held, Replied
<1>5. baseline[Head(todo[r])] # None => baseline[Head(todo[r])].payload \in Snap
  BY <1>1 DEF Typed, Entry
<1>6. QED
  BY <1>3, <1>4, <1>5 DEF LoadBaseline, DropBaseline

\* Who has begun with a symbol after a step had begun with it before, or takes its
\* snapshot in the step.
LEMMA OwedStep ==
  ASSUME Typed, [Next]_vars, NEW q \in Request, NEW s \in Symbol, Owed(q, s)'
  PROVE  Owed(q, s) \/ \E f \in Facts[s] : TakeSnapshot(q, s, f)
<1> USE DEF Owed
<1>1. CASE UNCHANGED <<pc, todo, reply>>
  BY <1>1 DEF Replied
<1>2. CASE Restart
  BY <1>2 DEF Restart, Replied
<1>3. ASSUME NEW r \in Request, NEW asked \in Asked, Begin(r, asked)
      PROVE  Owed(q, s)
  BY <1>3 DEF Begin, Replied, Typed
<1>4. ASSUME NEW r \in Request, NEW t \in Symbol, NEW f \in Facts[t], TakeSnapshot(r, t, f)
      PROVE  Owed(q, s) \/ (q = r /\ s = t)
  BY <1>4 DEF TakeSnapshot, Replied, Typed
<1>5. ASSUME NEW r \in Request, LoadBaseline(r) \/ DropBaseline(r)
      PROVE  Owed(q, s)
  BY <1>5, LoadStep DEF Replied, Held
<1>6. ASSUME NEW r \in Request, SaveBaseline(r) \/ RaiseSymbol(r)
      PROVE  Owed(q, s)
  <2>1. CASE q # r
    BY <1>6, <2>1 DEF SaveBaseline, RaiseSymbol, Replied, Typed
  <2>2. CASE q = r /\ RaiseSymbol(r)
    BY <2>2 DEF RaiseSymbol, Replied, Typed
  <2>3. CASE q = r /\ SaveBaseline(r)
    <3>1. pc'[r] \in {"idle", "snapshot"} /\ (reply'[r] = reply[r] \/ reply'[r] = <<>>)
      BY <2>3 DEF SaveBaseline, Typed
    <3>2. QED
      BY <2>3, <3>1 DEF Replied
  <2>4. QED
    BY <1>6, <2>1, <2>2, <2>3
<1>7. QED
  BY <1>1, <1>2, <1>3, <1>4, <1>5, <1>6 DEF Next, Step, Tick, vars

\* The mark of a symbol is only removed by a restart or by the answer of a request that
\* was alone with the symbol.
LEMMA MarkStep ==
  ASSUME Typed, [Next]_vars, NEW s \in Symbol, "overlap" \in gap[s], "overlap" \notin gap'[s]
  PROVE  Restart \/ \E r \in Request : SaveBaseline(r) /\ \A q \in Request : q # r => ~Owed(q, s)
<1> USE DEF Typed
<1>1. ASSUME NEW r \in Request, NEW t \in Symbol, NEW f \in Facts[t], TakeSnapshot(r, t, f)
      PROVE  FALSE
  BY <1>1 DEF TakeSnapshot
<1>2. ASSUME NEW r \in Request, SaveBaseline(r)
      PROVE  \A q \in Request : q # r => ~Owed(q, s)
  <2>1. CASE Rest(r) # <<>>
    BY <1>2, <2>1 DEF SaveBaseline
  <2>2. CASE Rest(r) = <<>>
    <3>1. Reply(r, Kept(r))
      BY <1>2, <2>2 DEF SaveBaseline
    <3>2. QED
      BY <3>1 DEF Reply
  <2>3. QED
    BY <2>1, <2>2
<1>3. ASSUME NEW r \in Request, NEW asked \in Asked, Begin(r, asked)
      PROVE  FALSE
  BY <1>3 DEF Begin
<1>4. ASSUME NEW r \in Request, LoadBaseline(r) \/ DropBaseline(r)
      PROVE  FALSE
  BY <1>4, SMTT(30) DEF LoadBaseline, DropBaseline
<1>5. ASSUME NEW r \in Request, RaiseSymbol(r)
      PROVE  FALSE
  BY <1>5 DEF RaiseSymbol
<1>6. QED
  BY <1>1, <1>2, <1>3, <1>4, <1>5 DEF Next, Step, Tick, vars

LEMMA MarkedKept == Typed /\ Marked /\ [Next]_vars => Marked'
<1> SUFFICES ASSUME Typed, Marked, [Next]_vars, NEW s \in Symbol, NEW q \in Request, NEW r \in Request,
                    q # r, Owed(q, s)', Owed(r, s)'
             PROVE  "overlap" \in gap'[s]
  BY DEF Marked
<1>1. CASE ~Owed(q, s) \/ ~Owed(r, s)
  <2>1. PICK p \in {q, r}, f \in Facts[s] : TakeSnapshot(p, s, f)
    BY <1>1, OwedStep
  <2>2. ASSUME NEW o \in {q, r}, o # p PROVE Owed(o, s)
    BY <2>1, <2>2, OwedStep DEF TakeSnapshot, Typed, Owed, Replied
  <2>3. QED
    BY <2>1, <2>2 DEF TakeSnapshot, Typed
<1>2. CASE Owed(q, s) /\ Owed(r, s)
  <2>1. "overlap" \in gap[s]
    BY <1>2 DEF Marked
  <2>2. ~Restart
    BY DEF Restart, Owed, Replied
  <2>3. QED
    BY <1>2, <2>1, <2>2, MarkStep
<1>3. QED
  BY <1>1, <1>2
-----------------------------------------------------------------------------
LEMMA KeptIsTyped ==
  ASSUME Typed, NEW r \in Request, pc[r] \in Held
  PROVE  /\ Kept(r) \in [Symbol -> Entry \cup {None}]
         /\ \A s \in Symbol :
              \/ Kept(r)[s] = baseline[s]
              \/ s = Head(todo[r]) /\ Kept(r)[s].payload = current[r]
<1>1. CASE current[r].status = "failed"
  BY <1>1 DEF Kept, Typed
<1>2. CASE current[r].status # "failed"
  <2> DEFINE entry == Saved(current[r], clock)
  <2>1. entry \in Entry /\ entry.payload = current[r]
    BY DEF Typed, Entry, Saved
  <2>2. Kept(r) = [baseline EXCEPT ![Head(todo[r])] = entry]
    BY <1>2 DEF Kept
  <2> HIDE DEF entry
  <2>3. QED
    BY <2>1, <2>2 DEF Typed
<1>3. QED
  BY <1>1, <1>2

LEMMA TypedInit == Init => Typed
<1>1. MaxClock \in Nat
  BY WatchAssumption
<1>2. QED
  BY <1>1 DEF Init, Typed, Point, Held, Cause, Entry

LEMMA TypedKept == Typed /\ [Next]_vars => Typed'
<1> SUFFICES ASSUME Typed, [Next]_vars PROVE Typed'
  OBVIOUS
<1>1. CASE UNCHANGED vars
  BY <1>1 DEF vars, Typed
<1>2. CASE Restart
  <2>1. baseline' \in [Symbol -> Entry \cup {None}] /\ pc' \in [Request -> Point]
    BY <1>2 DEF Restart, Point
  <2>2. gap' \in [Symbol -> SUBSET Cause]
    BY <1>2 DEF Restart, Cause
  <2>3. \A r \in Request : pc'[r] \notin Held
    BY <1>2 DEF Restart, Held
  <2>4. QED
    BY <1>2, <2>1, <2>2, <2>3 DEF Restart, Typed
<1>3. CASE Tick
  <2>1. clock' \in 0 .. MaxClock
    BY <1>3, WatchAssumption DEF Tick, Typed
  <2>2. QED
    BY <1>3, <2>1 DEF Tick, Typed
<1>4. ASSUME NEW r \in Request, NEW asked \in Asked, Begin(r, asked)
      PROVE  Typed'
  BY <1>4 DEF Begin, Typed, Point, Held
<1>5. ASSUME NEW r \in Request, NEW s \in Symbol, NEW f \in Facts[s], TakeSnapshot(r, s, f)
      PROVE  Typed'
  <2> DEFINE snapshot == Snapshot(f, s \in Us, clock)
  <2>1. snapshot \in Snap
    BY TakenIsSnap DEF Typed
  <2>2. current' = [current EXCEPT ![r] = snapshot]
    BY <1>5 DEF TakeSnapshot
  <2> HIDE DEF snapshot
  <2>3. current' \in [Request -> Snap \cup {None}] /\ current'[r] \in Snap
    BY <2>1, <2>2 DEF Typed
  <2>4. pc' \in [Request -> Point] /\ \A q \in Request : q # r => pc'[q] = pc[q] /\ current'[q] = current[q]
    BY <1>5, <2>2 DEF TakeSnapshot, Typed, Point
  <2>5. gap' \in [Symbol -> SUBSET Cause]
    BY <1>5 DEF TakeSnapshot, Typed, Cause
  <2>6. Head(todo'[r]) \in Symbol /\ UNCHANGED <<baseline, todo, reply, clock>>
    BY <1>5 DEF TakeSnapshot
  <2>7. QED
    BY <2>3, <2>4, <2>5, <2>6 DEF Typed
<1>6. ASSUME NEW r \in Request, LoadBaseline(r) \/ DropBaseline(r)
      PROVE  Typed'
  <2>1. CASE LoadBaseline(r)
    BY <2>1, LoadStep DEF LoadBaseline, Typed
  <2>2. CASE DropBaseline(r)
    <3>1. Head(todo[r]) \in Symbol
      BY <2>2 DEF DropBaseline, Typed, Held
    <3>2. baseline' \in [Symbol -> Entry \cup {None}]
      BY <2>2, <3>1 DEF DropBaseline, Typed
    <3>3. gap' \in [Symbol -> SUBSET Cause]
      BY <2>2, <3>1 DEF DropBaseline, Typed, Cause
    <3>4. QED
      BY <2>2, <3>2, <3>3, LoadStep DEF Typed
  <2>3. QED
    BY <1>6, <2>1, <2>2
<1>7. ASSUME NEW r \in Request, SaveBaseline(r)
      PROVE  Typed'
  <2>1. baseline' \in [Symbol -> Entry \cup {None}]
    BY <1>7, KeptIsTyped DEF SaveBaseline, Held
  <2>2. /\ pc' \in [Request -> Point] /\ pc'[r] \notin Held
        /\ \A q \in Request : q # r => pc'[q] = pc[q] /\ todo'[q] = todo[q] /\ current'[q] = current[q]
    BY <1>7 DEF SaveBaseline, Typed, Point, Held
  <2>3. current' \in [Request -> Snap \cup {None}] /\ clock' = clock
    BY <1>7 DEF SaveBaseline, Typed
  <2>4. reply' \in [Request -> Seq(Answer)]
    <3>1. reply' = reply \/ reply' = [reply EXCEPT ![r] = <<>>]
      BY <1>7 DEF SaveBaseline
    <3>2. <<>> \in Seq(Answer)
      BY EmptySeq
    <3>3. QED
      BY <3>1, <3>2 DEF Typed
  <2>5. gap' \in [Symbol -> SUBSET Cause]
    BY <1>7 DEF SaveBaseline, Reply, Typed
  <2>6. DOMAIN todo' = Request /\ todo' = [q \in Request |-> todo'[q]]
    BY <1>7 DEF SaveBaseline, Typed
  <2>7. QED
    BY <2>1, <2>2, <2>3, <2>4, <2>5, <2>6 DEF Typed
<1>8. ASSUME NEW r \in Request, RaiseSymbol(r)
      PROVE  Typed'
  <2>1. gap' \in [Symbol -> SUBSET Cause]
    BY <1>8 DEF RaiseSymbol, Typed, Cause
  <2>2. pc' \in [Request -> Point] /\ pc'[r] \notin Held
    BY <1>8 DEF RaiseSymbol, Typed, Point, Held
  <2>3. reply' \in [Request -> Seq(Answer)]
    <3>1. <<>> \in Seq(Answer)
      BY EmptySeq
    <3>2. QED
      BY <1>8, <3>1 DEF RaiseSymbol, Typed
  <2>4. /\ current' \in [Request -> Snap \cup {None}]
        /\ \A q \in Request : q # r => pc'[q] = pc[q] /\ todo'[q] = todo[q] /\ current'[q] = current[q]
    BY <1>8 DEF RaiseSymbol, Typed
  <2>5. DOMAIN todo' = Request /\ todo' = [q \in Request |-> todo'[q]]
    BY <1>8 DEF RaiseSymbol, Typed
  <2>6. UNCHANGED <<baseline, clock>>
    BY <1>8 DEF RaiseSymbol
  <2>7. QED
    BY <2>1, <2>2, <2>3, <2>4, <2>5, <2>6 DEF Typed
<1>9. QED
  BY <1>1, <1>2, <1>3, <1>4, <1>5, <1>6, <1>7, <1>8 DEF Next, Step
-----------------------------------------------------------------------------
LEMMA PastKept == Typed /\ Past /\ [Next]_vars => Past'
<1> SUFFICES ASSUME Typed, Past, [Next]_vars PROVE Past'
  OBVIOUS
<1>1. CASE UNCHANGED vars
  BY <1>1 DEF vars, Past
<1>2. CASE Restart
  BY <1>2 DEF Restart, Past, Held
<1>3. CASE Tick
  <2>1. /\ \A s \in Symbol : baseline[s] # None => baseline[s].payload.at \in Nat
        /\ \A r \in Request : pc[r] \in Held => current[r].at \in Nat
    BY SnapHasTime DEF Typed, Entry
  <2>2. clock' = clock + 1 /\ UNCHANGED <<baseline, pc, current>> /\ clock \in Nat
    BY <1>3 DEF Tick, Typed
  <2>3. QED
    BY <2>1, <2>2 DEF Past
<1>4. ASSUME NEW r \in Request, NEW asked \in Asked, Begin(r, asked)
      PROVE  Past'
  BY <1>4 DEF Begin, Typed, Past, Held
<1>5. ASSUME NEW r \in Request, NEW s \in Symbol, NEW f \in Facts[s], TakeSnapshot(r, s, f)
      PROVE  Past'
  <2>1. current'[r].at = clock /\ clock \in Nat
    BY <1>5, TakenIsSnap DEF TakeSnapshot, Typed
  <2>2. \A q \in Request : q # r => pc'[q] = pc[q] /\ current'[q] = current[q]
    BY <1>5 DEF TakeSnapshot, Typed
  <2>3. UNCHANGED <<baseline, clock>>
    BY <1>5 DEF TakeSnapshot
  <2>4. QED
    BY <2>1, <2>2, <2>3 DEF Past
<1>6. ASSUME NEW r \in Request, LoadBaseline(r) \/ DropBaseline(r)
      PROVE  Past'
  <2>1. \A s \in Symbol : baseline'[s] = baseline[s] \/ baseline'[s] = None
    BY <1>6 DEF LoadBaseline, DropBaseline, Typed
  <2>2. QED
    BY <1>6, <2>1, LoadStep DEF Past
<1>7. ASSUME NEW r \in Request, SaveBaseline(r)
      PROVE  Past'
  <2>1. \A s \in Symbol : baseline'[s] # None => baseline'[s].payload.at <= clock
    BY <1>7, KeptIsTyped DEF SaveBaseline, Held, Past
  <2>2. \A q \in Request : pc'[q] \in Held => pc[q] \in Held /\ current'[q] = current[q]
    BY <1>7 DEF SaveBaseline, Typed, Held
  <2>3. clock' = clock
    BY <1>7 DEF SaveBaseline
  <2>4. QED
    BY <2>1, <2>2, <2>3 DEF Past
<1>8. ASSUME NEW r \in Request, RaiseSymbol(r)
      PROVE  Past'
  BY <1>8 DEF RaiseSymbol, Typed, Past, Held
<1>9. QED
  BY <1>1, <1>2, <1>3, <1>4, <1>5, <1>6, <1>7, <1>8 DEF Next, Step

LEMMA NewerKept == Typed /\ Past /\ Marked /\ Newer /\ [Next]_vars => Newer'
<1> SUFFICES ASSUME Typed, Past, Marked, Newer, [Next]_vars,
                    NEW r \in Request, NEW s \in Symbol, pc'[r] \in Held, Head(todo'[r]) = s
             PROVE  \/ baseline'[s] = None
                    \/ baseline'[s].payload.at <= current'[r].at
                    \/ "overlap" \in gap'[s]
  BY DEF Newer
<1>1. CASE UNCHANGED vars
  BY <1>1 DEF vars, Newer
<1>2. CASE Restart
  BY <1>2 DEF Restart, Held
<1>3. CASE Tick
  BY <1>3 DEF Tick, Newer
<1>4. ASSUME NEW q \in Request, NEW asked \in Asked, Begin(q, asked)
      PROVE  pc[r] \in Held /\ Head(todo[r]) = s /\ UNCHANGED <<baseline, current, gap>>
  BY <1>4 DEF Begin, Typed, Held
<1>5. ASSUME NEW q \in Request, NEW t \in Symbol, NEW f \in Facts[t], TakeSnapshot(q, t, f)
      PROVE  \/ baseline'[s] = None
             \/ baseline'[s].payload.at <= current'[r].at
             \/ "overlap" \in gap'[s]
  <2>1. CASE q = r
    <3>1. current'[r].at = clock
      BY <1>5, <2>1, TakenIsSnap DEF TakeSnapshot, Typed
    <3>2. baseline' = baseline
      BY <1>5 DEF TakeSnapshot
    <3>3. QED
      BY <3>1, <3>2 DEF Past
  <2>2. CASE q # r
    <3>1. pc[r] \in Held /\ Head(todo[r]) = s /\ current'[r] = current[r] /\ baseline' = baseline
      BY <1>5, <2>2 DEF TakeSnapshot, Typed
    <3>2. "overlap" \in gap[s] => "overlap" \in gap'[s]
      BY <1>5 DEF TakeSnapshot, Typed
    <3>3. QED
      BY <3>1, <3>2 DEF Newer
  <2>3. QED
    BY <2>1, <2>2
<1>6. ASSUME NEW q \in Request, LoadBaseline(q) \/ DropBaseline(q)
      PROVE  \/ baseline'[s] = None
             \/ baseline'[s].payload.at <= current'[r].at
             \/ "overlap" \in gap'[s]
  <2>1. baseline'[s] = baseline[s] \/ baseline'[s] = None
    BY <1>6 DEF LoadBaseline, DropBaseline, Typed
  <2>2. "overlap" \in gap[s] => "overlap" \in gap'[s]
    BY <1>6 DEF LoadBaseline, DropBaseline, Typed
  <2>3. pc[r] \in Held /\ Head(todo[r]) = s /\ current' = current
    BY <1>6, LoadStep
  <2>4. QED
    BY <2>1, <2>2, <2>3 DEF Newer
<1>7. ASSUME NEW q \in Request, SaveBaseline(q)
      PROVE  \/ baseline'[s] = baseline[s] /\ current'[r] = current[r]
             \/ "overlap" \in gap[s]
  <2>1. q # r /\ pc[r] \in Held /\ Head(todo[r]) = s /\ current'[r] = current[r]
    BY <1>7 DEF SaveBaseline, Typed, Held
  <2>2. CASE Head(todo[q]) = s
    BY <1>7, <2>1, <2>2 DEF Marked, Owed, SaveBaseline, Held
  <2>3. CASE Head(todo[q]) # s
    BY <1>7, <2>1, <2>3, KeptIsTyped DEF SaveBaseline, Held
  <2>4. QED
    BY <2>2, <2>3, <2>1
<1>8. ASSUME NEW q \in Request, SaveBaseline(q)
      PROVE  /\ pc[r] \in Held /\ Head(todo[r]) = s
             /\ "overlap" \in gap[s] => "overlap" \in gap'[s]
  <2>1. q # r /\ pc[r] \in Held /\ Head(todo[r]) = s
    BY <1>8 DEF SaveBaseline, Typed, Held
  <2>2. Owed(r, s) /\ ~Restart
    BY <1>8, <2>1 DEF Owed, Held, Restart
  <2>3. \A p \in Request : SaveBaseline(p) => p # r
    BY DEF SaveBaseline, Typed, Held
  <2>4. QED
    BY <2>1, <2>2, <2>3, MarkStep
<1>9. ASSUME NEW q \in Request, RaiseSymbol(q)
      PROVE  /\ pc[r] \in Held /\ Head(todo[r]) = s /\ current'[r] = current[r] /\ baseline' = baseline
             /\ "overlap" \in gap[s] => "overlap" \in gap'[s]
  BY <1>9 DEF RaiseSymbol, Typed, Held
<1>10. QED
  BY <1>1, <1>2, <1>3, <1>4, <1>5, <1>6, <1>7, <1>8, <1>9 DEF Next, Step, Newer
-----------------------------------------------------------------------------
LEMMA WatchInvInit == Init => WatchInv
<1> SUFFICES ASSUME Init PROVE WatchInv
  OBVIOUS
<1>1. \A r \in Request : pc[r] \notin Held
  BY DEF Init, Held
<1>2. \A r \in Request : \A s \in Symbol : ~Owed(r, s)
  BY DEF Init, Owed, Replied
<1>3. QED
  BY <1>1, <1>2, TypedInit DEF WatchInv, Past, Marked, Newer, Init

LEMMA WatchInvKept == WatchInv /\ [Next]_vars => WatchInv'
  BY TypedKept, PastKept, MarkedKept, NewerKept DEF WatchInv

\* The inductive invariant of polling: what the table, the requests and their replies
\* may hold; no snapshot is of the future; and requests that have both begun with a
\* symbol have left a mark, without which none of them holds a snapshot older than
\* the baseline (WatchPollingService.poll).
THEOREM WatchCorrect == Spec => []WatchInv
<1>1. QED
  BY WatchInvInit, WatchInvKept, PTL DEF Spec

\* Whatever the sources answer, however late, only requests that overlap on a symbol
\* can replace its baseline by an older snapshot (_load_baseline and _save_baseline).
THEOREM BaselineGoesForward == Spec => BaselineForward
<1>1. WatchInv /\ [Next]_vars
        => [\A s \in Symbol :
              \/ baseline[s] = None \/ baseline'[s] = None
              \/ baseline'[s].payload.at >= baseline[s].payload.at
              \/ "overlap" \in gap[s]]_vars
  <2> SUFFICES ASSUME WatchInv, Next, NEW s \in Symbol, baseline[s] # None, baseline'[s] # None,
                      "overlap" \notin gap[s]
               PROVE  baseline'[s].payload.at >= baseline[s].payload.at
    OBVIOUS
  <2> USE DEF WatchInv
  <2>1. baseline[s].payload.at \in Nat
    BY SnapHasTime DEF Typed, Entry
  <2>2. CASE baseline'[s] = baseline[s]
    BY <2>1, <2>2
  <2>3. ASSUME NEW r \in Request, SaveBaseline(r)
        PROVE  \/ baseline'[s] = baseline[s]
               \/ baseline'[s].payload.at >= baseline[s].payload.at
    <3>1. pc[r] \in Held /\ baseline' = Kept(r)
      BY <2>3 DEF SaveBaseline, Held
    <3>2. CASE s = Head(todo[r]) /\ baseline'[s].payload = current[r]
      <4>1. baseline[s].payload.at <= current[r].at /\ current[r].at \in Nat
        BY <3>1, <3>2, SnapHasTime DEF Newer, Typed
      <4>2. QED
        BY <2>1, <3>2, <4>1
    <3>3. QED
      BY <3>1, <3>2, KeptIsTyped
  <2>4. ASSUME NEW r \in Request, LoadBaseline(r) \/ DropBaseline(r) \/ RaiseSymbol(r)
        PROVE  baseline'[s] = baseline[s]
    BY <2>4 DEF LoadBaseline, DropBaseline, RaiseSymbol, Typed
  <2>5. ~Restart
    BY DEF Restart
  <2>6. ASSUME NEW r \in Request, \/ \E asked \in Asked : Begin(r, asked)
                                  \/ \E t \in Symbol : \E f \in Facts[t] : TakeSnapshot(r, t, f)
        PROVE  baseline' = baseline
    BY <2>6 DEF Begin, TakeSnapshot
  <2>7. QED
    BY <2>2, <2>3, <2>4, <2>5, <2>6 DEF Next, Step, Tick
<1>2. QED
  BY <1>1, WatchCorrect, PTL DEF Spec, BaselineForward
-----------------------------------------------------------------------------
(* What the reply of a request says, and what the client was told. *)

\* Induction, where a proof needs it, is by a least counterexample.
LEMMA LeastNat ==
  ASSUME NEW S, S \subseteq Nat, S # {}
  PROVE  \E m \in S : \A n \in S : m <= n
<1> DEFINE R == {ss \in Nat \X Nat : ss[1] < ss[2]}
<1>1. R = OpToRel(<, Nat)
  BY DEF OpToRel
<1>2. IsWellFoundedOn(R, Nat)
  BY <1>1, NatLessThanWellFounded
<1>3. PICK x \in S : \A y \in S : ~(<<y, x>> \in R)
  <2> HIDE DEF R
  <2> QED BY <1>2, WFMin
<1>4. ASSUME NEW y \in S, y < x PROVE FALSE
  <2>1. <<y, x>> \in Nat \X Nat /\ <<y, x>>[1] < <<y, x>>[2]
    BY <1>4
  <2>2. <<y, x>> \in R
    BY <2>1
  <2> QED BY <1>3, <2>2
<1> QED BY <1>4

\* The places of a symbol in the reply of a request.
Places(r, s) == {k \in DOMAIN reply[r] : reply[r][k].symbol = s}

\* The loop of poll: a symbol is asked once, and its item holds its snapshot.
Looping(r) ==
  /\ todo[r] \in Seq(Symbol)
  /\ pc[r] # "idle" => todo[r] # <<>>
  /\ pc[r] = "idle" => reply[r] = <<>>
  /\ pc[r] \notin {"idle", "save"} => Places(r, Head(todo[r])) = {}
  /\ pc[r] = "save" => /\ Places(r, Head(todo[r])) # {}
                       /\ \A k \in Places(r, Head(todo[r])) : reply[r][k].snapshot = current[r]
  /\ \A s \in Symbol : \A j, k \in Places(r, s) : j = k

LoopInv == \A r \in Request : Looping(r)

\* The end of a sequence, from one of its places on.
LEMMA EndOfList ==
  ASSUME NEW S, NEW s \in Seq(S), NEW m \in 1 .. Len(s)
  PROVE  /\ SubSeq(s, m, Len(s)) \in Seq(S)
         /\ Len(SubSeq(s, m, Len(s))) = Len(s) - m + 1
         /\ SubSeq(s, m, Len(s))[1] = s[m]
<1>1. m \in Int /\ Len(s) \in Int /\ m <= Len(s) /\ \A i \in m .. Len(s) : s[i] \in S
  OBVIOUS
<1>2. /\ SubSeq(s, m, Len(s)) \in Seq(S)
      /\ Len(SubSeq(s, m, Len(s))) = IF m <= Len(s) THEN Len(s) - m + 1 ELSE 0
      /\ \A i \in 1 .. Len(s) - m + 1 : SubSeq(s, m, Len(s))[i] = s[m + i - 1]
  BY <1>1, SubSeqProperties
<1>3. 1 \in 1 .. Len(s) - m + 1 /\ m + 1 - 1 = m
  BY <1>1
<1>4. QED
  BY <1>1, <1>2, <1>3

LEMMA RestOfList ==
  ASSUME Typed, NEW r \in Request, todo[r] \in Seq(Symbol)
  PROVE  /\ Rest(r) \in Seq(Symbol)
         /\ Rest(r) # <<>> => Places(r, Head(Rest(r))) = {}
<1>0. /\ Len(todo[r]) \in Nat /\ DOMAIN todo[r] = 1 .. Len(todo[r])
      /\ \A i \in 1 .. Len(todo[r]) : todo[r][i] \in Symbol
  OBVIOUS
<1> DEFINE seen == {reply[r][k].symbol : k \in DOMAIN reply[r]}
           new == {k \in DOMAIN todo[r] : todo[r][k] \notin seen}
<1>1. new \subseteq Nat /\ \A k \in new : k \in 1 .. Len(todo[r]) /\ todo[r][k] \notin seen
  BY <1>0
<1>2. CASE new = {}
  BY <1>2 DEF Rest
<1>3. CASE new # {}
  <2>1. Min(new) \in new
    <3>1. \E m \in new : \A k \in new : m <= k
      <4> HIDE DEF new
      <4>1. QED
        BY <1>1, <1>3, LeastNat
    <3>2. QED
      BY <3>1 DEF Min
  <2>2. PICK m \in 1 .. Len(todo[r]) : m = Min(new) /\ todo[r][m] \notin seen
    BY <1>1, <2>1
  <2>3. Rest(r) = SubSeq(todo[r], m, Len(todo[r]))
    BY <1>3, <2>2 DEF Rest
  <2>4. /\ SubSeq(todo[r], m, Len(todo[r])) \in Seq(Symbol)
        /\ Len(SubSeq(todo[r], m, Len(todo[r]))) = Len(todo[r]) - m + 1
        /\ SubSeq(todo[r], m, Len(todo[r]))[1] = todo[r][m]
    BY <1>0, EndOfList
  <2>5. Head(Rest(r)) = todo[r][m]
    BY <2>3, <2>4
  <2>6. Places(r, todo[r][m]) = {}
    BY <2>2 DEF Places
  <2>7. QED
    BY <2>3, <2>4, <2>5, <2>6
<1>4. QED
  BY <1>2, <1>3

\* The item of the current symbol is the last of the reply, and no other one's place moves.
LEMMA AnswerPlaces ==
  ASSUME Typed, NEW r \in Request, pc[r] \in {"load", "drop"}, NEW previous \in Snap \cup {None},
         AnswerSymbol(r, previous)
  PROVE  \/ pc' = [pc EXCEPT ![r] = "raise"] /\ reply' = reply
         \/ /\ pc' = [pc EXCEPT ![r] = "save"]
            /\ \A q \in Request : q # r => reply'[q] = reply[q]
            /\ \A s \in Symbol : s # Head(todo[r]) =>
                 /\ Places(r, s)' = Places(r, s)
                 /\ \A k \in Places(r, s) : reply'[r][k] = reply[r][k]
            /\ LET last == Len(reply[r]) + 1 IN
                 /\ \A s \in Symbol : s = Head(todo[r]) => Places(r, s)' = Places(r, s) \cup {last}
                 /\ reply'[r][last].snapshot = current[r]
                 /\ reply'[r][last].previous = previous
<1>1. CASE DividesByZero(current[r])
  BY <1>1 DEF AnswerSymbol
<1>2. CASE ~DividesByZero(current[r])
  <2> DEFINE item == Item(Head(todo[r]), current[r], previous)
             last == Len(reply[r]) + 1
  <2>1. item.symbol = Head(todo[r]) /\ item.snapshot = current[r] /\ item.previous = previous
    BY DEF Item
  <2>2. pc' = [pc EXCEPT ![r] = "save"] /\ reply' = [reply EXCEPT ![r] = Append(@, item)]
    BY <1>2 DEF AnswerSymbol
  <2> HIDE DEF item
  <2>3. reply[r] \in Seq(Answer) /\ reply'[r] = Append(reply[r], item)
    BY <2>2 DEF Typed
  <2>4. /\ DOMAIN reply'[r] = DOMAIN reply[r] \cup {last} /\ last \notin DOMAIN reply[r]
        /\ \A k \in DOMAIN reply[r] : reply'[r][k] = reply[r][k]
        /\ reply'[r][last] = item
    BY <2>3
  <2> HIDE DEF last
  <2>5. \A s \in Symbol : s # Head(todo[r]) =>
          /\ Places(r, s)' = Places(r, s)
          /\ \A k \in Places(r, s) : reply'[r][k] = reply[r][k]
    BY <2>1, <2>4 DEF Places
  <2>6. \A s \in Symbol : s = Head(todo[r]) => Places(r, s)' = Places(r, s) \cup {last}
    BY <2>1, <2>4 DEF Places
  <2>7. \A q \in Request : q # r => reply'[q] = reply[q]
    BY <2>2 DEF Typed
  <2>8. QED
    BY <2>1, <2>2, <2>4, <2>5, <2>6, <2>7 DEF last
<1>3. QED
  BY <1>1, <1>2

LEMMA LoopInit == Init => LoopInv
<1> SUFFICES ASSUME Init, NEW r \in Request PROVE Looping(r)
  BY DEF LoopInv
<1>1. todo[r] = <<>> /\ pc[r] = "idle" /\ reply[r] = <<>>
  BY DEF Init
<1>2. <<>> \in Seq(Symbol) /\ \A s \in Symbol : Places(r, s) = {}
  BY <1>1 DEF Places
<1>3. QED
  BY <1>1, <1>2 DEF Looping

\* A request that a step leaves alone goes on as it was.
LEMMA LoopAlone ==
  ASSUME NEW r \in Request, Looping(r), pc'[r] = pc[r], todo'[r] = todo[r],
         reply'[r] = reply[r], current'[r] = current[r]
  PROVE  Looping(r)'
<1>1. \A s : Places(r, s)' = Places(r, s)
  BY DEF Places
<1>2. Head(todo'[r]) = Head(todo[r])
  OBVIOUS
<1>3. Places(r, Head(todo[r]))' = Places(r, Head(todo[r]))
  BY <1>2 DEF Places
<1>4. QED
  BY <1>1, <1>2, <1>3 DEF Looping

LEMMA LoopKept == Typed /\ LoopInv /\ [Next]_vars => LoopInv'
<1> SUFFICES ASSUME Typed, LoopInv, [Next]_vars, NEW q \in Request PROVE Looping(q)'
  BY DEF LoopInv
<1>L. Looping(q)
  BY DEF LoopInv
<1>1. CASE UNCHANGED <<pc, todo, reply, current>>
  BY <1>1, <1>L, LoopAlone
<1>2. CASE Restart
  <2>1. todo'[q] = <<>> /\ pc'[q] = "idle" /\ reply'[q] = <<>>
    BY <1>2 DEF Restart
  <2>2. <<>> \in Seq(Symbol) /\ \A s \in Symbol : Places(q, s)' = {}
    BY <2>1 DEF Places
  <2>3. QED
    BY <2>1, <2>2 DEF Looping
<1>3. ASSUME NEW r \in Request, Step(r), q # r PROVE Looping(q)'
  <2>1. /\ pc'[q] = pc[q] /\ todo'[q] = todo[q] /\ reply'[q] = reply[q] /\ current'[q] = current[q]
    <3>1. CASE \E asked \in Asked : Begin(r, asked)
      BY <1>3, <3>1 DEF Begin, Typed
    <3>2. CASE \E s \in Symbol : \E f \in Facts[s] : TakeSnapshot(r, s, f)
      BY <1>3, <3>2 DEF TakeSnapshot, Typed
    <3>3. CASE LoadBaseline(r) \/ DropBaseline(r)
      BY <1>3, <3>3, LoadStep
    <3>4. CASE SaveBaseline(r) \/ RaiseSymbol(r)
      BY <1>3, <3>4 DEF SaveBaseline, RaiseSymbol, Typed
    <3>5. QED
      BY <1>3, <3>1, <3>2, <3>3, <3>4 DEF Step
  <2>2. QED
    BY <1>L, <2>1, LoopAlone
<1>4. ASSUME NEW asked \in Asked, Begin(q, asked) PROVE Looping(q)'
  <2>1. todo'[q] = asked /\ pc'[q] = "snapshot" /\ reply'[q] = <<>>
    BY <1>4, <1>L DEF Begin, Typed, Looping
  <2>2. asked \in Seq(Symbol) /\ asked # <<>>
    BY WatchAssumption
  <2>3. \A s : Places(q, s)' = {}
    BY <2>1 DEF Places
  <2>4. Places(q, Head(todo[q]))' = {}
    BY <2>1 DEF Places
  <2>5. QED
    BY <2>1, <2>2, <2>3, <2>4 DEF Looping
<1>5. ASSUME NEW s \in Symbol, NEW f \in Facts[s], TakeSnapshot(q, s, f) PROVE Looping(q)'
  <2>1. /\ pc[q] = "snapshot" /\ pc'[q] = "load" /\ todo'[q] = todo[q] /\ reply'[q] = reply[q]
    BY <1>5 DEF TakeSnapshot, Typed
  <2>2. \A t : Places(q, t)' = Places(q, t)
    BY <2>1 DEF Places
  <2>3. Places(q, Head(todo[q]))' = Places(q, Head(todo[q]))
    BY <2>1 DEF Places
  <2>4. QED
    BY <1>L, <2>1, <2>2, <2>3 DEF Looping
<1>6. CASE LoadBaseline(q) \/ DropBaseline(q)
  <2>0. /\ pc[q] \in {"load", "drop"} /\ UNCHANGED <<todo, current>>
        /\ Head(todo[q]) \in Symbol
    BY <1>6 DEF LoadBaseline, DropBaseline, Typed, Held
  <2>1. CASE pc' = [pc EXCEPT ![q] = "drop"] /\ reply' = reply
    <3>1. pc'[q] = "drop"
      BY <2>1 DEF Typed
    <3>2. \A t : Places(q, t)' = Places(q, t)
      BY <2>1 DEF Places
    <3>3. Places(q, Head(todo[q]))' = Places(q, Head(todo[q]))
      BY <2>0, <2>1 DEF Places
    <3>4. QED
      BY <1>L, <2>0, <3>1, <3>2, <3>3 DEF Looping
  <2>2. CASE \E previous \in Snap \cup {None} : AnswerSymbol(q, previous)
    <3>1. PICK previous \in Snap \cup {None} : AnswerSymbol(q, previous)
      BY <2>2
    <3>2. CASE pc' = [pc EXCEPT ![q] = "raise"] /\ reply' = reply
      <4>1. pc'[q] = "raise"
        BY <3>2 DEF Typed
      <4>2. \A t : Places(q, t)' = Places(q, t)
        BY <3>2 DEF Places
      <4>3. Places(q, Head(todo[q]))' = Places(q, Head(todo[q]))
        BY <2>0, <3>2 DEF Places
      <4>4. QED
        BY <1>L, <2>0, <4>1, <4>2, <4>3 DEF Looping
    <3>3. CASE pc' = [pc EXCEPT ![q] = "save"]
      <4> DEFINE last == Len(reply[q]) + 1
      <4>1. /\ \A s \in Symbol : s # Head(todo[q]) => Places(q, s)' = Places(q, s)
            /\ \A s \in Symbol : s = Head(todo[q]) => Places(q, s)' = Places(q, s) \cup {last}
            /\ reply'[q][last].snapshot = current[q]
        <5>1. pc'[q] = "save"
          BY <3>3 DEF Typed
        <5>2. ~(pc' = [pc EXCEPT ![q] = "raise"])
          BY <5>1 DEF Typed
        <5>3. QED
          BY <2>0, <3>1, <5>2, AnswerPlaces
      <4> HIDE DEF last
      <4>2. Places(q, Head(todo[q])) = {}
        BY <1>L, <2>0 DEF Looping
      <4>3. \A s \in Symbol : s = Head(todo[q]) => Places(q, s)' = {last}
        BY <4>1, <4>2
      <4>4. Places(q, Head(todo[q]))' = {last}
        <5>1. PICK h \in Symbol : h = Head(todo[q])
          BY <2>0
        <5>2. Places(q, h)' = {last}
          BY <4>3, <5>1
        <5>3. Head(todo'[q]) = h
          BY <2>0, <5>1
        <5>4. QED
          BY <5>2, <5>3 DEF Places
      <4>5. pc'[q] = "save"
        BY <3>3 DEF Typed
      <4>6. \A s \in Symbol : \A j, k \in Places(q, s)' : j = k
        BY <1>L, <4>1, <4>3 DEF Looping
      <4>7. QED
        BY <1>L, <2>0, <4>1, <4>4, <4>5, <4>6 DEF Looping
    <3>4. QED
      BY <2>0, <3>1, <3>2, <3>3, AnswerPlaces
  <2>3. baseline[Head(todo[q])] # None => baseline[Head(todo[q])].payload \in Snap
    BY <2>0 DEF Typed, Entry
  <2>4. QED
    BY <1>6, <2>1, <2>2, <2>3 DEF LoadBaseline, DropBaseline
<1>7. CASE SaveBaseline(q)
  <2>1. todo'[q] = Rest(q) /\ Rest(q) \in Seq(Symbol)
    BY <1>7, <1>L, RestOfList DEF SaveBaseline, Typed, Looping
  <2>2. CASE Rest(q) = <<>>
    <3>1. pc'[q] = "idle" /\ reply'[q] = <<>>
      BY <1>7, <2>2 DEF SaveBaseline, Typed
    <3>2. \A s : Places(q, s)' = {}
      BY <3>1 DEF Places
    <3>3. QED
      BY <2>1, <3>1, <3>2 DEF Looping
  <2>3. CASE Rest(q) # <<>>
    <3>1. pc'[q] = "snapshot" /\ reply'[q] = reply[q]
      BY <1>7, <2>3 DEF SaveBaseline, Typed
    <3>2. Places(q, Head(Rest(q))) = {}
      BY <1>L, <2>3, RestOfList DEF Looping
    <3>3. Places(q, Head(todo[q]))' = {}
      BY <2>1, <3>1, <3>2 DEF Places
    <3>4. \A s : Places(q, s)' = Places(q, s)
      BY <3>1 DEF Places
    <3>5. QED
      BY <1>L, <2>1, <2>3, <3>1, <3>3, <3>4 DEF Looping
  <2>4. QED
    BY <2>2, <2>3
<1>8. CASE RaiseSymbol(q)
  <2>1. todo'[q] = <<>> /\ pc'[q] = "idle" /\ reply'[q] = <<>>
    BY <1>8 DEF RaiseSymbol, Typed
  <2>2. <<>> \in Seq(Symbol) /\ \A s \in Symbol : Places(q, s)' = {}
    BY <2>1 DEF Places
  <2>3. QED
    BY <2>1, <2>2 DEF Looping
<1>9. QED
  BY <1>1, <1>2, <1>3, <1>4, <1>5, <1>6, <1>7, <1>8 DEF Next, Step, Tick, vars
-----------------------------------------------------------------------------
\* The item of a symbol is built and its snapshot not saved.
Waiting(r, s) == pc[r] = "save" /\ Head(todo[r]) = s

Keeps(s, snapshot) == baseline[s] # None /\ baseline[s].payload = snapshot

\* The baseline of a symbol is what the client was last told.
AsTold(s) == IF baseline[s] = None THEN told[s] = None ELSE baseline[s].payload = told[s]

\* The item is compared with what was told, and its snapshot is the baseline by now.
ItemInStep(r, k, s) ==
  /\ reply[r][k].previous = told[s]
  /\ Waiting(r, s) \/ reply[r][k].snapshot.status = "failed" \/ Keeps(s, reply[r][k].snapshot)

InStep(s) ==
  /\ \A r \in Request : \A k \in Places(r, s) : ItemInStep(r, k, s)
  /\ \/ \E r \in Request : \E k \in Places(r, s) :
          ~Waiting(r, s) /\ reply[r][k].snapshot.status # "failed"
     \/ AsTold(s)

ToldInv == \A s \in Symbol : gap[s] = {} => InStep(s)

LEMMA ToldInit == Init => ToldInv
<1> SUFFICES ASSUME Init, NEW s \in Symbol PROVE InStep(s)
  BY DEF ToldInv
<1>1. \A r \in Request : Places(r, s) = {}
  BY DEF Init, Places
<1>2. AsTold(s)
  BY DEF Init, AsTold
<1>3. QED
  BY <1>1, <1>2 DEF InStep

\* A symbol whose items, baseline and last answer a step leaves alone stays in step.
LEMMA InStepAlone ==
  ASSUME NEW s \in Symbol, InStep(s), baseline'[s] = baseline[s], told'[s] = told[s],
         \A r \in Request : /\ Places(r, s)' = Places(r, s)
                            /\ \A k \in Places(r, s) : reply'[r][k] = reply[r][k]
                            /\ Places(r, s) # {} => (Waiting(r, s)' <=> Waiting(r, s))
  PROVE  InStep(s)'
<1>1. \A r \in Request : \A k \in Places(r, s)' : ItemInStep(r, k, s)'
  <2> SUFFICES ASSUME NEW r \in Request, NEW k \in Places(r, s) PROVE ItemInStep(r, k, s)'
    OBVIOUS
  <2>1. ItemInStep(r, k, s) /\ (Waiting(r, s)' <=> Waiting(r, s)) /\ reply'[r][k] = reply[r][k]
    BY DEF InStep
  <2>2. QED
    BY <2>1 DEF ItemInStep, Keeps
<1>2. CASE AsTold(s)
  <2>1. AsTold(s)'
    BY <1>2 DEF AsTold
  <2>2. QED
    BY <1>1, <2>1 DEF InStep
<1>3. ASSUME NEW r \in Request, NEW k \in Places(r, s),
             ~Waiting(r, s), reply[r][k].snapshot.status # "failed"
      PROVE  InStep(s)'
  <2>1. k \in Places(r, s)' /\ ~Waiting(r, s)' /\ reply'[r][k].snapshot.status # "failed"
    BY <1>3
  <2>2. QED
    BY <1>1, <2>1 DEF InStep
<1>4. QED
  BY <1>2, <1>3 DEF InStep

\* Nobody else has begun with the symbol of a request that has, unless it is marked.
LEMMA OnlyOne ==
  ASSUME Marked, NEW s \in Symbol, gap[s] = {}, NEW r \in Request, Owed(r, s),
         NEW q \in Request, q # r
  PROVE  ~Owed(q, s) /\ Places(q, s) = {}
<1>1. ~Owed(q, s)
  BY DEF Marked
<1>2. QED
  BY <1>1 DEF Owed, Replied, Places

LEMMA ToldAnswer ==
  ASSUME Typed, Marked, LoopInv, NEW r \in Request, LoadBaseline(r) \/ DropBaseline(r),
         NEW s \in Symbol, gap[s] = {}, gap'[s] = {}, InStep(s)
  PROVE  InStep(s)'
<1>1. /\ pc[r] \in {"load", "drop"} /\ Head(todo[r]) \in Symbol /\ told' = told
      /\ UNCHANGED <<todo, current>> /\ current[r] \in Snap
  BY DEF LoadBaseline, DropBaseline, Typed, Held
<1>2. baseline'[s] = baseline[s]
  BY <1>1 DEF LoadBaseline, DropBaseline, Typed
<1>3. CASE reply' = reply /\ \A q \in Request : pc'[q] = "save" <=> pc[q] = "save"
  BY <1>1, <1>2, <1>3, InStepAlone DEF Places, Waiting
<1>4. ASSUME NEW previous \in Snap \cup {None}, AnswerSymbol(r, previous),
             Head(todo[r]) = s => previous = told[s]
      PROVE  InStep(s)'
  <2>1. CASE pc' = [pc EXCEPT ![r] = "raise"] /\ reply' = reply
    <3>1. \A q \in Request : pc'[q] = "save" <=> pc[q] = "save"
      BY <1>1, <2>1 DEF Typed
    <3>2. QED
      BY <1>3, <2>1, <3>1
  <2> DEFINE last == Len(reply[r]) + 1
  <2>2. CASE pc' = [pc EXCEPT ![r] = "save"]
    <3>1. pc'[r] = "save" /\ \A q \in Request : q # r => pc'[q] = pc[q]
      BY <2>2 DEF Typed
    <3>2. ~(pc' = [pc EXCEPT ![r] = "raise"])
      BY <3>1 DEF Typed
    <3>3. /\ \A q \in Request : q # r => reply'[q] = reply[q]
          /\ s # Head(todo[r]) => /\ Places(r, s)' = Places(r, s)
                                  /\ \A k \in Places(r, s) : reply'[r][k] = reply[r][k]
          /\ s = Head(todo[r]) => Places(r, s)' = Places(r, s) \cup {last}
          /\ reply'[r][last].snapshot = current[r]
          /\ reply'[r][last].previous = previous
      BY <1>1, <1>4, <3>2, AnswerPlaces
    <3> HIDE DEF last
    <3>4. \A q \in Request : q # r => Places(q, s)' = Places(q, s)
      BY <3>3 DEF Places
    <3>5. CASE s # Head(todo[r])
      <4>1. \A q \in Request : Waiting(q, s)' <=> Waiting(q, s)
        BY <1>1, <3>1, <3>5 DEF Waiting
      <4>2. QED
        BY <1>1, <1>2, <3>3, <3>4, <3>5, <4>1, InStepAlone
    <3>6. CASE s = Head(todo[r])
      <4>1. Owed(r, s)
        BY <1>1, <3>6 DEF Owed
      <4>2. \A q \in Request : q # r => Places(q, s) = {}
        BY <4>1, OnlyOne
      <4>3. Places(r, s) = {}
        BY <1>1, <3>6 DEF LoopInv, Looping
      <4>4. Places(r, s)' = {last} /\ \A q \in Request : q # r => Places(q, s)' = {}
        BY <3>3, <3>4, <3>6, <4>2, <4>3
      <4>5. Waiting(r, s)'
        BY <1>1, <3>1, <3>6 DEF Waiting
      <4>6. AsTold(s)
        BY <4>2, <4>3 DEF InStep
      <4>7. AsTold(s)'
        BY <1>1, <1>2, <4>6 DEF AsTold
      <4>8. \A q \in Request : \A k \in Places(q, s)' : ItemInStep(q, k, s)'
        <5>1. reply'[r][last].previous = told'[s]
          BY <1>1, <1>4, <3>3, <3>6
        <5>2. \A k \in Places(r, s)' : ItemInStep(r, k, s)'
          BY <4>4, <4>5, <5>1 DEF ItemInStep
        <5>3. QED
          BY <4>4, <5>2
      <4>9. QED
        BY <4>7, <4>8 DEF InStep
    <3>7. QED
      BY <3>5, <3>6
  <2>3. QED
    BY <1>1, <1>4, <2>1, <2>2, AnswerPlaces
<1>5. CASE LoadBaseline(r) /\ pc' = [pc EXCEPT ![r] = "drop"] /\ reply' = reply
  <2>1. \A q \in Request : pc'[q] = "save" <=> pc[q] = "save"
    BY <1>1, <1>5 DEF Typed
  <2>2. QED
    BY <1>3, <1>5, <2>1
<1>6. Head(todo[r]) = s => AsTold(s)
  <2> SUFFICES ASSUME Head(todo[r]) = s PROVE AsTold(s)
    OBVIOUS
  <2>1. Owed(r, s)
    BY <1>1 DEF Owed
  <2>2. \A q \in Request : q # r => Places(q, s) = {}
    BY <2>1, OnlyOne
  <2>3. Places(r, s) = {}
    BY <1>1 DEF LoopInv, Looping
  <2>4. QED
    BY <2>2, <2>3 DEF InStep
<1>7. CASE LoadBaseline(r) /\ baseline[Head(todo[r])] = None /\ AnswerSymbol(r, None)
  <2>1. Head(todo[r]) = s => None = told[s]
    BY <1>6, <1>7 DEF AsTold
  <2>2. QED
    BY <1>4, <1>7, <2>1
<1>8. CASE LoadBaseline(r) /\ baseline[Head(todo[r])] # None
           /\ AnswerSymbol(r, baseline[Head(todo[r])].payload)
  <2>1. baseline[Head(todo[r])].payload \in Snap
    BY <1>1, <1>8 DEF Typed, Entry
  <2>2. Head(todo[r]) = s => baseline[Head(todo[r])].payload = told[s]
    BY <1>6, <1>8 DEF AsTold
  <2>3. QED
    BY <1>4, <1>8, <2>1, <2>2
<1>9. CASE DropBaseline(r)
  <2>1. Head(todo[r]) # s
    BY <1>1, <1>9 DEF DropBaseline, Typed
  <2>2. AnswerSymbol(r, None)
    BY <1>9 DEF DropBaseline
  <2>3. QED
    BY <1>4, <2>1, <2>2
<1>10. QED
  BY <1>5, <1>7, <1>8, <1>9 DEF LoadBaseline
-----------------------------------------------------------------------------
\* What _save_baseline stores is never taken for an absent entry.
LEMMA SavedIsEntry ==
  ASSUME Typed, Past, NEW r \in Request, pc[r] = "save"
  PROVE  Saved(current[r], clock) # None
<1>1. current[r] \in Snap /\ current[r].at <= clock /\ clock \in 0 .. MaxClock
  BY DEF Typed, Past, Held
<1>2. current[r] \in Snapshots
  <2>1. PICK f \in Fact, us \in BOOLEAN, at \in Nat : current[r] = Snapshot(f, us, at)
    BY <1>1 DEF Snap
  <2>2. current[r].at = at
    BY <2>1 DEF Snapshot
  <2>3. at \in 0 .. MaxClock
    BY <1>1, <2>2, WatchAssumption
  <2>4. QED
    BY <2>1, <2>3 DEF Snapshots, Fact
<1>3. Saved(current[r], clock) \in Entries
  BY <1>1, <1>2 DEF Saved, Entries
<1>4. QED
  BY <1>3, WatchAssumption

\* The items of a symbol that a request gives its client, the failed ones left out.
Given(r, s) == {k \in Places(r, s) : reply[r][k].snapshot.status # "failed"}

\* What the answer of a request does to what its client was told of a symbol.
LEMMA ReplyStep ==
  ASSUME Typed, NEW r \in Request, NEW saved, Reply(r, saved), NEW s \in Symbol
  PROVE  /\ Given(r, s) = {} => told'[s] = told[s] /\ gap'[s] = gap[s]
         /\ \A k \in Given(r, s) : Given(r, s) = {k} =>
              /\ told'[s] = reply[r][k].snapshot
              /\ IF /\ saved[s] # None /\ saved[s].payload = reply[r][k].snapshot
                    /\ \A q \in Request \ {r} : ~Owed(q, s)
                   THEN gap'[s] = {}
                   ELSE gap'[s] = gap[s]
<1> DEFINE given(x) == {k \in DOMAIN reply[r] : /\ reply[r][k].symbol = x
                                                /\ reply[r][k].snapshot.status # "failed"}
           newest(x) == reply[r][CHOOSE k \in given(x) : TRUE].snapshot
           settled(x) == /\ given(x) # {}
                         /\ saved[x] # None /\ saved[x].payload = newest(x)
                         /\ \A q \in Request \ {r} : ~Owed(q, x)
<1>1. /\ told' = [x \in Symbol |-> IF given(x) = {} THEN told[x] ELSE newest(x)]
      /\ gap' = [x \in Symbol |-> IF settled(x) THEN {} ELSE gap[x]]
  BY DEF Reply
<1>2. given(s) = Given(r, s)
  BY DEF Given, Places
<1>3. \A k \in Given(r, s) : Given(r, s) = {k} => newest(s) = reply[r][k].snapshot
  BY <1>2
<1> HIDE DEF given, newest
<1>4. told'[s] = IF given(s) = {} THEN told[s] ELSE newest(s)
  BY <1>1
<1>5. gap'[s] = IF settled(s) THEN {} ELSE gap[s]
  BY <1>1
<1>6. QED
  BY <1>2, <1>3, <1>4, <1>5

\* A request that saves another symbol.
LEMMA SaveElsewhere ==
  ASSUME Typed, Marked, LoopInv, NEW r \in Request, SaveBaseline(r), NEW s \in Symbol,
         Head(todo[r]) # s
  PROVE  /\ baseline'[s] = baseline[s]
         /\ ~Waiting(r, s) /\ ~Waiting(r, s)'
         /\ \A q \in Request : q # r => /\ Places(q, s)' = Places(q, s)
                                        /\ reply'[q] = reply[q]
                                        /\ Waiting(q, s)' <=> Waiting(q, s)
<1>1. pc[r] \in Held /\ baseline' = Kept(r)
  BY DEF SaveBaseline, Held
<1>2. baseline'[s] = baseline[s]
  BY <1>1, KeptIsTyped
<1>3. pc'[r] # "save" /\ \A q \in Request : q # r => /\ pc'[q] = pc[q] /\ todo'[q] = todo[q]
                                                     /\ reply'[q] = reply[q]
  BY DEF SaveBaseline, Typed
<1>4. QED
  BY <1>2, <1>3 DEF Waiting, Places

\* The request that saves a symbol is alone with it, and its one item holds the snapshot
\* it saves.
LEMMA SaveHere ==
  ASSUME Typed, Past, Marked, LoopInv, NEW r \in Request, SaveBaseline(r), NEW s \in Symbol,
         Head(todo[r]) = s, gap[s] = {}
  PROVE  /\ Places(r, s) # {}
         /\ \A k \in Places(r, s) : Places(r, s) = {k} /\ reply[r][k].snapshot = current[r]
         /\ \A q \in Request : q # r => ~Owed(q, s) /\ Places(q, s) = {} /\ Places(q, s)' = {}
         /\ Waiting(r, s) /\ ~Waiting(r, s)'
         /\ IF current[r].status = "failed" THEN baseline'[s] = baseline[s]
              ELSE baseline'[s] # None /\ baseline'[s].payload = current[r]
<1>1. pc[r] = "save" /\ baseline' = Kept(r) /\ Looping(r)
  BY DEF SaveBaseline, LoopInv
<1>2. PICK k \in Places(r, s) : Places(r, s) = {k} /\ reply[r][k].snapshot = current[r]
  BY <1>1 DEF Looping
<1>3. Owed(r, s)
  BY <1>1 DEF Owed
<1>4. \A q \in Request : q # r => ~Owed(q, s) /\ Places(q, s) = {}
  BY <1>3, OnlyOne
<1>5. pc'[r] # "save" /\ \A q \in Request : q # r => reply'[q] = reply[q]
  BY DEF SaveBaseline, Typed
<1>6. Waiting(r, s) /\ ~Waiting(r, s)'
  BY <1>1, <1>5 DEF Waiting
<1>7. \A q \in Request : q # r => Places(q, s)' = {}
  BY <1>4, <1>5 DEF Places
<1>8. CASE current[r].status = "failed"
  <2>1. baseline'[s] = baseline[s]
    BY <1>1, <1>8 DEF Kept
  <2>2. QED
    BY <1>2, <1>4, <1>6, <1>7, <1>8, <2>1
<1>9. CASE current[r].status # "failed"
  <2> DEFINE entry == Saved(current[r], clock)
  <2>1. entry # None /\ entry.payload = current[r]
    BY <1>1, SavedIsEntry DEF Saved
  <2>2. baseline' = [baseline EXCEPT ![s] = entry]
    BY <1>1, <1>9 DEF Kept
  <2> HIDE DEF entry
  <2>3. baseline'[s] = entry
    BY <2>2 DEF Typed
  <2>4. QED
    BY <1>2, <1>4, <1>6, <1>7, <1>9, <2>1, <2>3
<1>10. QED
  BY <1>8, <1>9

LEMMA ToldSaveOn ==
  ASSUME Typed, Past, Marked, LoopInv, NEW r \in Request, SaveBaseline(r), NEW s \in Symbol,
         Rest(r) # <<>>, gap[s] = {}, InStep(s)
  PROVE  InStep(s)'
<1>1. UNCHANGED <<reply, told>>
  BY DEF SaveBaseline
<1>2. \A q \in Request : Places(q, s)' = Places(q, s)
  BY <1>1 DEF Places
<1>3. CASE Head(todo[r]) # s
  <2>1. /\ baseline'[s] = baseline[s]
        /\ \A q \in Request : Waiting(q, s)' <=> Waiting(q, s)
    BY <1>3, SaveElsewhere
  <2>2. QED
    BY <1>1, <1>2, <2>1, InStepAlone
<1>4. CASE Head(todo[r]) = s
  <2>0. /\ Places(r, s) # {}
      /\ \A k \in Places(r, s) : Places(r, s) = {k} /\ reply[r][k].snapshot = current[r]
    BY <1>4, SaveHere
  <2>1. PICK k \in Places(r, s) : Places(r, s) = {k} /\ reply[r][k].snapshot = current[r]
    BY <2>0
  <2>2. /\ \A q \in Request : q # r => Places(q, s) = {}
        /\ Waiting(r, s) /\ ~Waiting(r, s)'
        /\ IF current[r].status = "failed" THEN baseline'[s] = baseline[s]
             ELSE baseline'[s] # None /\ baseline'[s].payload = current[r]
    BY <1>4, SaveHere
  <2>3. AsTold(s)
    BY <2>2 DEF InStep
  <2>4. reply[r][k].previous = told[s]
    BY DEF InStep, ItemInStep
  <2>5. \A q \in Request : \A j \in Places(q, s)' : q = r /\ j = k
    BY <1>2, <2>1, <2>2
  <2>6. ItemInStep(r, k, s)'
    BY <1>1, <2>1, <2>2, <2>4 DEF ItemInStep, Keeps
  <2>7. \A q \in Request : \A j \in Places(q, s)' : ItemInStep(q, j, s)'
    BY <2>5, <2>6
  <2>8. CASE current[r].status = "failed"
    <3>1. AsTold(s)'
      BY <1>1, <2>2, <2>3, <2>8 DEF AsTold
    <3>2. QED
      BY <2>7, <3>1 DEF InStep
  <2>9. CASE current[r].status # "failed"
    <3>1. k \in Places(r, s)' /\ ~Waiting(r, s)' /\ reply'[r][k].snapshot.status # "failed"
      BY <1>1, <1>2, <2>1, <2>2, <2>9
    <3>2. QED
      BY <2>7, <3>1 DEF InStep
  <2>10. QED
    BY <2>8, <2>9
<1>5. QED
  BY <1>3, <1>4

LEMMA ToldSaveLast ==
  ASSUME Typed, Past, Marked, LoopInv, NEW r \in Request, SaveBaseline(r), NEW s \in Symbol,
         Rest(r) = <<>>, gap[s] = {} => InStep(s), gap'[s] = {}
  PROVE  InStep(s)'
<1>1. /\ Reply(r, baseline') /\ reply'[r] = <<>> /\ pc[r] = "save" /\ Looping(r)
      /\ \A q \in Request : q # r => reply'[q] = reply[q]
  BY DEF SaveBaseline, Typed, LoopInv
<1>2. Places(r, s)' = {} /\ \A q \in Request : q # r => Places(q, s)' = Places(q, s)
  BY <1>1 DEF Places
<1>3. CASE Given(r, s) = {}
  <2>1. told'[s] = told[s] /\ gap[s] = {}
    BY <1>1, <1>3, ReplyStep
  <2>2. InStep(s)
    BY <2>1
  <2>3. CASE Head(todo[r]) # s
    <3>1. /\ baseline'[s] = baseline[s]
          /\ \A q \in Request : q # r => /\ reply'[q] = reply[q]
                                         /\ Waiting(q, s)' <=> Waiting(q, s)
      BY <2>3, SaveElsewhere
    <3>2. \A q \in Request : \A k \in Places(q, s)' : ItemInStep(q, k, s)'
      <4> SUFFICES ASSUME NEW q \in Request, NEW k \in Places(q, s), q # r
                   PROVE  ItemInStep(q, k, s)'
        BY <1>2
      <4>1. ItemInStep(q, k, s)
        BY <2>2 DEF InStep
      <4>2. QED
        BY <2>1, <3>1, <4>1 DEF ItemInStep, Keeps
    <3>3. CASE AsTold(s)
      <4>1. AsTold(s)'
        BY <2>1, <3>1, <3>3 DEF AsTold
      <4>2. QED
        BY <3>2, <4>1 DEF InStep
    <3>4. ASSUME NEW q \in Request, NEW k \in Places(q, s),
                 ~Waiting(q, s), reply[q][k].snapshot.status # "failed"
          PROVE  InStep(s)'
      <4>1. q # r
        BY <1>3, <3>4 DEF Given
      <4>2. k \in Places(q, s)' /\ ~Waiting(q, s)' /\ reply'[q][k].snapshot.status # "failed"
        BY <1>2, <3>1, <3>4, <4>1
      <4>3. QED
        BY <3>2, <4>2 DEF InStep
    <3>5. QED
      BY <2>2, <3>3, <3>4 DEF InStep
  <2>4. CASE Head(todo[r]) = s
    <3>0. /\ Places(r, s) # {}
        /\ \A k \in Places(r, s) : Places(r, s) = {k} /\ reply[r][k].snapshot = current[r]
      BY <2>1, <2>4, SaveHere
    <3>1. PICK k \in Places(r, s) : Places(r, s) = {k} /\ reply[r][k].snapshot = current[r]
      BY <3>0
    <3>2. /\ \A q \in Request : q # r => Places(q, s) = {} /\ Places(q, s)' = {}
          /\ Waiting(r, s)
          /\ current[r].status = "failed" => baseline'[s] = baseline[s]
      BY <2>1, <2>4, SaveHere
    <3>3. current[r].status = "failed"
      BY <1>3, <3>1 DEF Given
    <3>4. AsTold(s)
      BY <2>2, <3>2 DEF InStep
    <3>5. AsTold(s)'
      BY <2>1, <3>2, <3>3, <3>4 DEF AsTold
    <3>6. \A q \in Request : Places(q, s)' = {}
      BY <1>2, <3>2
    <3>7. QED
      BY <3>5, <3>6 DEF InStep
  <2>5. QED
    BY <2>3, <2>4
<1>4. CASE Given(r, s) # {}
  <2>1. PICK k \in Given(r, s) : Given(r, s) = {k}
    BY <1>1, <1>4 DEF Given, Looping
  <2>2. k \in Places(r, s) /\ reply[r][k].snapshot.status # "failed"
    BY DEF Given
  <2> DEFINE settled == /\ baseline'[s] # None /\ baseline'[s].payload = reply[r][k].snapshot
                        /\ \A q \in Request \ {r} : ~Owed(q, s)
  <2>3. /\ told'[s] = reply[r][k].snapshot
        /\ IF settled THEN gap'[s] = {} ELSE gap'[s] = gap[s]
    BY <1>1, <2>1, ReplyStep
  <2>4. settled
    <3> SUFFICES ASSUME ~settled PROVE FALSE
      OBVIOUS
    <3>1. gap[s] = {} /\ InStep(s)
      BY <2>3
    <3>2. Owed(r, s)
      BY <2>2 DEF Owed, Replied, Places
    <3>3. \A q \in Request \ {r} : ~Owed(q, s)
      BY <3>1, <3>2, OnlyOne
    <3>4. CASE Head(todo[r]) = s
      <4>1. reply[r][k].snapshot = current[r]
        BY <1>1, <2>2, <3>4 DEF Looping
      <4>2. baseline'[s] # None /\ baseline'[s].payload = current[r]
        BY <2>2, <3>1, <3>4, <4>1, SaveHere
      <4>3. QED
        BY <3>3, <4>1, <4>2
    <3>5. CASE Head(todo[r]) # s
      <4>1. baseline'[s] = baseline[s] /\ ~Waiting(r, s)
        BY <3>5, SaveElsewhere
      <4>2. Keeps(s, reply[r][k].snapshot)
        BY <2>2, <3>1, <4>1 DEF InStep, ItemInStep
      <4>3. QED
        BY <3>3, <4>1, <4>2 DEF Keeps
    <3>6. QED
      BY <3>4, <3>5
  <2>5. \A q \in Request : Places(q, s)' = {}
    BY <1>2, <2>4 DEF Owed, Replied, Places
  <2>6. AsTold(s)'
    BY <2>3, <2>4 DEF AsTold
  <2>7. QED
    BY <2>5, <2>6 DEF InStep
<1>5. QED
  BY <1>3, <1>4

\* A request that ends without an answer leaves a mark on all that it had begun with.
LEMMA ToldRaise ==
  ASSUME Typed, LoopInv, NEW r \in Request, RaiseSymbol(r), NEW s \in Symbol,
         gap[s] = {} => InStep(s), gap'[s] = {}
  PROVE  InStep(s)'
<1>1. gap'[s] = IF Replied(r, s) THEN gap[s] \cup {"undelivered"} ELSE gap[s]
  BY DEF RaiseSymbol
<1>2. ~Replied(r, s) /\ gap[s] = {}
  BY <1>1
<1>3. Places(r, s) = {}
  BY <1>2 DEF Places, Replied
<1>4. reply'[r] = <<>> /\ \A q \in Request : q # r => /\ reply'[q] = reply[q] /\ pc'[q] = pc[q]
                                                      /\ todo'[q] = todo[q]
  BY DEF RaiseSymbol, Typed
<1>5. Places(r, s)' = {}
  BY <1>4 DEF Places
<1>6. \A q \in Request : q # r => /\ Places(q, s)' = Places(q, s)
                                  /\ Waiting(q, s)' <=> Waiting(q, s)
  BY <1>4 DEF Places, Waiting
<1>7. baseline'[s] = baseline[s] /\ told'[s] = told[s]
  BY DEF RaiseSymbol
<1>8. QED
  BY <1>2, <1>3, <1>4, <1>5, <1>6, <1>7, InStepAlone

LEMMA ToldKept ==
  Typed /\ Past /\ Marked /\ LoopInv /\ ToldInv /\ [Next]_vars => ToldInv'
<1> SUFFICES ASSUME Typed, Past, Marked, LoopInv, ToldInv, [Next]_vars,
                    NEW s \in Symbol, gap'[s] = {}
             PROVE  InStep(s)'
  BY DEF ToldInv
<1>1. gap[s] = {} => InStep(s)
  BY DEF ToldInv
<1>2. CASE UNCHANGED <<baseline, pc, todo, reply, told, gap>>
  BY <1>1, <1>2, InStepAlone DEF Places, Waiting
<1>3. CASE Restart
  <2>1. \A r \in Request : Places(r, s)' = {}
    BY <1>3 DEF Restart, Places
  <2>2. told[s] = None /\ baseline'[s] = None /\ told' = told
    BY <1>3 DEF Restart
  <2>3. QED
    BY <2>1, <2>2 DEF InStep, AsTold
<1>4. ASSUME NEW r \in Request, NEW asked \in Asked, Begin(r, asked)
      PROVE  InStep(s)'
  <2>1. UNCHANGED <<baseline, reply, told, gap>>
    BY <1>4 DEF Begin
  <2>2. Places(r, s) = {}
    BY <1>4 DEF Begin, Places, LoopInv, Looping
  <2>3. \A q \in Request : q # r => (Waiting(q, s)' <=> Waiting(q, s))
    BY <1>4 DEF Begin, Waiting, Typed
  <2>4. QED
    BY <1>1, <2>1, <2>2, <2>3, InStepAlone DEF Places
<1>5. ASSUME NEW r \in Request, NEW t \in Symbol, NEW f \in Facts[t], TakeSnapshot(r, t, f)
      PROVE  InStep(s)'
  <2>1. UNCHANGED <<baseline, todo, reply, told>>
    BY <1>5 DEF TakeSnapshot
  <2>2. gap[s] = {}
    BY <1>5 DEF TakeSnapshot, Typed
  <2>3. \A q \in Request : Waiting(q, s)' <=> Waiting(q, s)
    BY <1>5 DEF TakeSnapshot, Waiting, Typed
  <2>4. QED
    BY <1>1, <2>1, <2>2, <2>3, InStepAlone DEF Places
<1>6. ASSUME NEW r \in Request, LoadBaseline(r) \/ DropBaseline(r)
      PROVE  InStep(s)'
  <2>1. gap[s] = {}
    <3>1. CASE LoadBaseline(r)
      BY <3>1 DEF LoadBaseline
    <3>2. CASE DropBaseline(r)
      BY <3>2 DEF DropBaseline, Typed
    <3>3. QED
      BY <1>6, <3>1, <3>2
  <2>2. QED
    BY <1>1, <1>6, <2>1, ToldAnswer
<1>7. ASSUME NEW r \in Request, SaveBaseline(r)
      PROVE  InStep(s)'
  <2>1. CASE Rest(r) # <<>>
    <3>1. gap[s] = {}
      BY <1>7, <2>1 DEF SaveBaseline
    <3>2. QED
      BY <1>1, <1>7, <2>1, <3>1, ToldSaveOn
  <2>2. CASE Rest(r) = <<>>
    BY <1>1, <1>7, <2>2, ToldSaveLast
  <2>3. QED
    BY <2>1, <2>2
<1>8. ASSUME NEW r \in Request, RaiseSymbol(r)
      PROVE  InStep(s)'
  BY <1>1, <1>8, ToldRaise
<1>9. QED
  BY <1>2, <1>3, <1>4, <1>5, <1>6, <1>7, <1>8 DEF Next, Step, Tick, vars

\* While nothing has come between a symbol and what its client was told, every item of
\* a reply is compared with exactly that (WatchPollingService.poll and its baselines).
THEOREM SinceLastToldHolds == Spec => []SinceLastTold
<1> DEFINE I == WatchInv /\ LoopInv /\ ToldInv
<1>1. Init => I
  BY WatchInvInit, LoopInit, ToldInit
<1>2. I /\ [Next]_vars => I'
  BY WatchInvKept, LoopKept, ToldKept DEF WatchInv
<1>3. I => SinceLastTold
  <2> SUFFICES ASSUME I, NEW r \in Request, NEW k \in DOMAIN reply[r],
                      gap[reply[r][k].symbol] = {}
               PROVE  reply[r][k].previous = told[reply[r][k].symbol]
    BY DEF SinceLastTold, Items
  <2>1. reply[r][k].symbol \in Symbol
    <3>1. reply[r][k] \in Answer
      BY DEF WatchInv, Typed
    <3>2. QED
      BY <3>1 DEF Answer, Item
  <2>2. k \in Places(r, reply[r][k].symbol) /\ InStep(reply[r][k].symbol)
    BY <2>1 DEF Places, ToldInv
  <2>3. QED
    BY <2>2 DEF InStep, ItemInStep
<1>4. QED
  BY <1>1, <1>2, <1>3, PTL DEF Spec
=============================================================================
