-------------------------------- MODULE DeskProofs --------------------------------
(***************************************************************************)
(* Theorems about the services that share no state, each for every value   *)
(* of its own constants.                                                   *)
(***************************************************************************)
EXTENDS Desk,
        FiniteSetTheorems, SequenceTheorems, WellFoundedInduction, NaturalsInduction, TLAPS

\* Induction, where a proof needs it, is by a least counterexample.
LEMMA LeastNat ==
  ASSUME NEW S, S \subseteq Nat, S # {}
  PROVE  \E m \in S : \A n \in S : m <= n
<1> DEFINE R == {ss \in Nat \X Nat : ss[1] < ss[2]}
<1>1. R = OpToRel(<, Nat)
  BY DEF OpToRel
<1>2. IsWellFoundedOn(R, Nat)
  BY <1>1, NatLessThanWellFounded
<1>3. PICK x \in S : \A y \in S : ~(<<y, x>> \in R)
  <2> HIDE DEF R
  <2> QED BY <1>2, WFMin
<1>4. ASSUME NEW y \in S, y < x PROVE FALSE
  <2>1. <<y, x>> \in Nat \X Nat /\ <<y, x>>[1] < <<y, x>>[2]
    BY <1>4
  <2>2. <<y, x>> \in R
    BY <2>1
  <2> QED BY <1>3, <2>2
<1> QED BY <1>4
-----------------------------------------------------------------------------
(* WorkerTicks. *)

TickStatus == {"ok", "degraded", "failed", "skipped", None}
TickPoint == {"start", "read_row", "read_strategy", "query", "record", "done", "dead"}

TickState == [pc : TickPoint, now : Nat \cup {None}, force : BOOLEAN, once : BOOLEAN,
         seen : Seq(Tickers), status : TickStatus, exit : {None, 0, 1, 2}]

TickTyped ==
  /\ tickTime \in Nat
  /\ ticks \in [Tickers -> TickState]
  /\ recorded \in Seq(Tickers)
  /\ \A k \in Tickers : ticks[k].pc \notin {"start", "dead"} => ticks[k].now \in Nat
  /\ \A k \in Tickers : ticks[k].pc = "record" => ticks[k].status \in {"ok", "degraded", "failed"}

\* A process writes its row once, at its end.
WrittenOnce(s) ==
  /\ \A n \in DOMAIN s : ticks[s[n]].pc = "done"
  /\ \A m, n \in DOMAIN s : s[m] = s[n] => m = n

\* The row holds the start of the process that wrote last.
RowIsLast ==
  IF recorded = <<>> THEN tickRow = None
  ELSE /\ tickRow \in [started : Nat, status : {"ok", "degraded", "failed"}]
       /\ tickRow.started = ticks[recorded[Len(recorded)]].now

\* A process that goes on although it is not forced came an interval after the last start
\* on record when it looked.
CameAfterLast(j) ==
  ticks[j].pc \in {"read_strategy", "query", "record"} /\ ~ticks[j].once =>
    /\ WrittenOnce(ticks[j].seen)
    /\ ~ticks[j].force /\ ticks[j].seen # <<>> =>
         ticks[j].now >= ticks[ticks[j].seen[Len(ticks[j].seen)]].now + Interval

TickInv ==
  /\ TickTyped
  /\ WrittenOnce(recorded)
  /\ RowIsLast
  /\ \A j \in Tickers : CameAfterLast(j)

LEMMA TickInvApart == TickInv => TicksApart
<1> SUFFICES ASSUME TickInv, NEW j \in Tickers,
                    ticks[j].pc \in {"read_strategy", "query", "record"}, ~ticks[j].force, ~ticks[j].once,
                    NEW n \in DOMAIN ticks[j].seen
             PROVE  \/ ticks[j].now >= ticks[ticks[j].seen[n]].now + Interval
                    \/ \E k \in {ticks[j].seen[m] : m \in DOMAIN ticks[j].seen} :
                         /\ Position(ticks[j].seen, k) > Position(ticks[j].seen, ticks[j].seen[n])
                         /\ ticks[k].now < ticks[ticks[j].seen[n]].now
  BY DEF TicksApart
<1> DEFINE s == ticks[j].seen
           last == s[Len(s)]
<1>1. /\ s \in Seq(Tickers) /\ s # <<>>
      /\ n \in 1 .. Len(s) /\ Len(s) \in 1 .. Len(s)
      /\ DOMAIN s = 1 .. Len(s)
  BY DEF TickInv, TickTyped, TickState
<1>2. s[n] \in Tickers /\ last \in Tickers
  BY <1>1
<1>3. WrittenOnce(s) /\ ticks[j].now >= ticks[last].now + Interval
  BY <1>1 DEF TickInv, CameAfterLast
<1>4. ticks[j].now \in Nat /\ ticks[s[n]].now \in Nat /\ ticks[last].now \in Nat /\ Interval \in Int
  BY <1>1, <1>2, <1>3, TickAssumption DEF TickInv, TickTyped, WrittenOnce
<1>5. CASE ticks[s[n]].now <= ticks[last].now
  <2>1. ticks[j].now >= ticks[s[n]].now + Interval
    <3> HIDE DEF s, last
    <3> QED BY <1>3, <1>4, <1>5
  <2> QED BY <2>1
<1>6. CASE ticks[last].now < ticks[s[n]].now
  <2>1. Position(s, last) = Len(s)
    BY <1>1, <1>3 DEF Position, WrittenOnce
  <2>2. Position(s, s[n]) = n
    BY <1>1, <1>3 DEF Position, WrittenOnce
  <2>3. n # Len(s)
    BY <1>4, <1>6
  <2>4. Position(s, last) > Position(s, s[n])
    BY <1>1, <2>1, <2>2, <2>3
  <2>5. last \in {s[m] : m \in DOMAIN s}
    BY <1>1
  <2> QED BY <1>6, <2>4, <2>5
<1> QED BY <1>4, <1>5, <1>6

LEMMA TickInitInv == TickInit => TickInv
<1> SUFFICES ASSUME TickInit PROVE TickInv
  OBVIOUS
<1>1. NotStarted \in TickState
  BY DEF NotStarted, TickState, TickPoint, TickStatus
<1>2. TickTyped
  BY <1>1 DEF TickInit, TickTyped, NotStarted
<1> QED BY <1>2 DEF TickInit, TickInv, WrittenOnce, RowIsLast, CameAfterLast, NotStarted

LEMMA EmptyTick ==
  NotStarted \in TickState /\ NotStarted.now = None /\ NotStarted.seen = <<>>
BY DEF NotStarted, TickState, TickPoint, TickStatus

\* A step of one process that writes no row.
LEMMA TickStepsOn ==
  ASSUME TickInv, NEW k \in Tickers, NEW tick \in TickState, Becomes(k, tick),
         UNCHANGED <<tickRow, recorded>>, ticks[k].pc # "done",
         tick.pc \notin {"start", "dead"} => tick.now \in Nat,
         tick.pc = "record" => tick.status \in {"ok", "degraded", "failed"},
         tick.pc \in {"read_strategy", "query", "record"} /\ ~tick.once =>
           /\ WrittenOnce(tick.seen)
           /\ ~tick.force /\ tick.seen # <<>> =>
                tick.now >= ticks[tick.seen[Len(tick.seen)]].now + Interval
  PROVE  TickInv'
<1>1. /\ ticks \in [Tickers -> TickState] /\ ticks' = [ticks EXCEPT ![k] = tick]
      /\ ticks'[k] = tick /\ \A i \in Tickers : i # k => ticks'[i] = ticks[i]
      /\ tickTime' = tickTime /\ recorded' = recorded /\ tickRow' = tickRow
  BY DEF Becomes, TickInv, TickTyped
<1>2. TickTyped'
  BY <1>1 DEF TickInv, TickTyped
<1>3. \A i \in Tickers : ticks[i].pc = "done" => ticks'[i] = ticks[i]
  BY <1>1
<1>4. ASSUME NEW s \in Seq(Tickers), WrittenOnce(s)
      PROVE  WrittenOnce(s)'
  BY <1>3, <1>4 DEF WrittenOnce
<1>5. WrittenOnce(recorded)'
  BY <1>1, <1>4 DEF TickInv, TickTyped, WrittenOnce
<1>6. RowIsLast'
  <2>1. CASE recorded = <<>>
    BY <1>1, <2>1 DEF TickInv, RowIsLast
  <2>2. CASE recorded # <<>>
    <3>1. /\ recorded \in Seq(Tickers) /\ Len(recorded) \in DOMAIN recorded
          /\ recorded[Len(recorded)] \in Tickers /\ ticks[recorded[Len(recorded)]].pc = "done"
      BY <2>2 DEF TickInv, TickTyped, WrittenOnce
    <3> QED BY <1>1, <1>3, <2>2, <3>1 DEF TickInv, RowIsLast
  <2> QED BY <2>1, <2>2
<1>7. ASSUME NEW j \in Tickers PROVE CameAfterLast(j)'
  <2>1. ASSUME ticks'[j].pc \in {"read_strategy", "query", "record"}, ~ticks'[j].once
        PROVE  /\ ticks'[j].seen \in Seq(Tickers) /\ WrittenOnce(ticks'[j].seen)
               /\ ~ticks'[j].force /\ ticks'[j].seen # <<>> =>
                    ticks'[j].now >= ticks[ticks'[j].seen[Len(ticks'[j].seen)]].now + Interval
    BY <1>1, <2>1 DEF TickInv, TickTyped, CameAfterLast, TickState
  <2>2. ASSUME ticks'[j].pc \in {"read_strategy", "query", "record"}, ~ticks'[j].once
        PROVE  /\ \A m, n \in DOMAIN ticks'[j].seen : ticks'[j].seen[m] = ticks'[j].seen[n] => m = n
               /\ \A n \in DOMAIN ticks'[j].seen :
                    ticks'[j].seen[n] \in Tickers /\ ticks'[ticks'[j].seen[n]] = ticks[ticks'[j].seen[n]]
                    /\ ticks[ticks'[j].seen[n]].pc = "done"
    BY <1>3, <2>1, <2>2 DEF WrittenOnce
  <2>3. ASSUME ticks'[j].pc \in {"read_strategy", "query", "record"}, ~ticks'[j].once,
               ticks'[j].seen # <<>>
        PROVE  Len(ticks'[j].seen) \in DOMAIN ticks'[j].seen
    BY <2>1, <2>3
  <2> QED BY <2>1, <2>2, <2>3 DEF CameAfterLast, WrittenOnce
<1> QED BY <1>2, <1>5, <1>6, <1>7 DEF TickInv

LEMMA TickEndsInv ==
  ASSUME TickInv, NEW k \in Tickers, NEW x \in TickStatus, NEW e \in {None, 0, 1, 2}, NEW tick \in TickState,
         tick.now \in Nat, ticks[k].pc # "done", Ends(k, tick, x, e), UNCHANGED <<tickRow, recorded>>
  PROVE  TickInv'
<1> DEFINE next == [NotStarted EXCEPT !.pc = "done", !.now = tick.now, !.status = x, !.exit = e]
<1>1. Becomes(k, next)
  BY DEF Ends
<1>2. next \in TickState /\ next.pc = "done" /\ next.now \in Nat
  <2>1. PICK now : now = tick.now
    OBVIOUS
  <2>2. next = [NotStarted EXCEPT !.pc = "done", !.now = now, !.status = x, !.exit = e] /\ now \in Nat
    BY <2>1
  <2> HIDE DEF next
  <2> QED BY <2>2, EmptyTick DEF TickState, TickPoint
<1> HIDE DEF next
<1> QED BY <1>1, <1>2, TickStepsOn

LEMMA TickStartInv ==
  ASSUME TickInv, NEW k \in Tickers, NEW force \in BOOLEAN, NEW once \in BOOLEAN, NEW valid \in BOOLEAN,
         StartTick(k, force, once, valid)
  PROVE  TickInv'
<1> DEFINE tick == [NotStarted EXCEPT !.now = tickTime, !.force = force, !.once = once]
<1>1. /\ tickTime \in Nat /\ ticks[k].pc = "start" /\ UNCHANGED <<tickRow, recorded>>
      /\ \/ \E x \in {"failed", "skipped"}, e \in {0, 2} : Ends(k, tick, x, e)
         \/ Becomes(k, [tick EXCEPT !.pc = IF once THEN "query" ELSE "read_row"])
  BY DEF TickInv, TickTyped, StartTick
<1>2. tick \in TickState /\ tick.now \in Nat /\ tick.once = once
  BY <1>1, EmptyTick DEF TickState
<1>3. CASE Becomes(k, [tick EXCEPT !.pc = IF once THEN "query" ELSE "read_row"])
  <2> DEFINE next == [tick EXCEPT !.pc = IF once THEN "query" ELSE "read_row"]
  <2>1. /\ next \in TickState /\ next.pc \in {"query", "read_row"} /\ next.now \in Nat
        /\ next.pc = "query" => next.once
        /\ Becomes(k, next)
    <3> HIDE DEF tick
    <3> QED BY <1>2, <1>3 DEF TickState, TickPoint
  <2> HIDE DEF next
  <2> QED BY <1>1, <2>1, TickStepsOn
<1>4. ASSUME NEW x \in {"failed", "skipped"}, NEW e \in {0, 2}, Ends(k, tick, x, e)
      PROVE  TickInv'
  <2>1. x \in TickStatus /\ e \in {None, 0, 1, 2}
    BY DEF TickStatus
  <2> HIDE DEF tick
  <2> QED BY <1>1, <1>2, <1>4, <2>1, TickEndsInv
<1> QED BY <1>1, <1>3, <1>4

LEMMA TickReadInv ==
  ASSUME TickInv, NEW k \in Tickers, ReadRow(k)
  PROVE  TickInv'
<1> DEFINE tick == [ticks[k] EXCEPT !.seen = recorded]
<1>1. /\ ticks[k] \in TickState /\ ticks[k].pc = "read_row" /\ ticks[k].now \in Nat /\ recorded \in Seq(Tickers)
      /\ UNCHANGED <<tickRow, recorded>>
  BY DEF TickInv, TickTyped, ReadRow
<1>2. /\ tick \in TickState /\ tick.now = ticks[k].now /\ tick.seen = recorded /\ tick.force = ticks[k].force
      /\ tick.once = ticks[k].once
  BY <1>1 DEF TickState
<1>3. \/ Ends(k, tick, "skipped", 0)
      \/ ~NotDue(tick) /\ Becomes(k, [tick EXCEPT !.pc = IF worker = "watch" THEN "read_strategy" ELSE "query"])
  BY DEF ReadRow
<1>4. CASE Ends(k, tick, "skipped", 0)
  <2> HIDE DEF tick
  <2>1. "skipped" \in TickStatus /\ 0 \in {None, 0, 1, 2}
    BY DEF TickStatus
  <2> QED BY <1>1, <1>2, <1>4, <2>1, TickEndsInv
<1>5. ASSUME ~NotDue(tick), ~tick.force, recorded # <<>>
      PROVE  tick.now >= ticks[recorded[Len(recorded)]].now + Interval
  <2>1. /\ tickRow # None /\ tickRow.started \in Nat
        /\ tickRow.started = ticks[recorded[Len(recorded)]].now
    BY <1>5, TickAssumption DEF TickInv, RowIsLast
  <2>2. ~(tick.now < tickRow.started + Interval)
    BY <1>5, <2>1 DEF NotDue
  <2>3. tick.now \in Nat
    BY <1>1, <1>2
  <2> HIDE DEF tick
  <2> QED BY <2>1, <2>2, <2>3, TickAssumption
<1>6. ASSUME ~NotDue(tick), NEW next, next = [tick EXCEPT !.pc = IF worker = "watch" THEN "read_strategy" ELSE "query"],
             Becomes(k, next)
      PROVE  TickInv'
  <2>1. /\ next \in TickState /\ next.pc \in {"query", "read_strategy"} /\ next.now \in Nat
        /\ next.seen = recorded /\ next.force = tick.force /\ next.now = tick.now
    BY <1>1, <1>2, <1>6 DEF TickState, TickPoint
  <2>2. WrittenOnce(recorded)
    BY DEF TickInv
  <2> HIDE DEF tick
  <2> QED BY <1>1, <1>5, <1>6, <2>1, <2>2, TickStepsOn
<1> QED BY <1>3, <1>4, <1>6

\* A process that takes a step of its own keeps what it saw.
LEMMA TickKeepsSight ==
  ASSUME TickInv, NEW k \in Tickers, NEW next \in TickState, Becomes(k, next), UNCHANGED <<tickRow, recorded>>,
         ticks[k].pc \in {"read_strategy", "query"}, next.pc \in {"query", "record"},
         next.pc = "record" => next.status \in {"ok", "degraded", "failed"},
         next.now = ticks[k].now, next.seen = ticks[k].seen, next.force = ticks[k].force, next.once = ticks[k].once
  PROVE  TickInv'
<1>1. ticks[k] \in TickState /\ ticks[k].now \in Nat /\ CameAfterLast(k)
  BY DEF TickInv, TickTyped
<1>2. ~next.once =>
           /\ WrittenOnce(next.seen)
           /\ ~next.force /\ next.seen # <<>> =>
                next.now >= ticks[next.seen[Len(next.seen)]].now + Interval
  BY <1>1 DEF CameAfterLast
<1> QED BY <1>1, <1>2, TickStepsOn

LEMMA TickWorksInv ==
  ASSUME TickInv, NEW k \in Tickers,
         \/ \E active \in BOOLEAN : ReadStrategy(k, active)
         \/ \E status \in {"ok", "degraded"} : MakeReport(k, status)
         \/ \E providers \in SUBSET GreyProviders \ {{}}, futu \in {"ok", "failed"} : QueryProviders(k, providers, futu)
  PROVE  TickInv'
<1>1. ticks[k] \in TickState /\ (ticks[k].pc \in {"read_strategy", "query"} => ticks[k].now \in Nat)
  BY DEF TickInv, TickTyped
<1>2. ASSUME NEW active \in BOOLEAN, ReadStrategy(k, active) PROVE TickInv'
  <2>1. ticks[k].pc = "read_strategy" /\ UNCHANGED <<tickRow, recorded>>
    BY <1>2 DEF ReadStrategy
  <2>2. CASE ~active
    <3>1. Ends(k, ticks[k], "skipped", 0) /\ "skipped" \in TickStatus
      BY <1>2, <2>2 DEF ReadStrategy, TickStatus
    <3> QED BY <1>1, <2>1, <3>1, TickEndsInv
  <2>3. CASE active
    <3> DEFINE next == [ticks[k] EXCEPT !.pc = "query"]
    <3>1. Becomes(k, next)
      BY <1>2, <2>3 DEF ReadStrategy
    <3>2. /\ next \in TickState /\ next.pc = "query" /\ next.now = ticks[k].now /\ next.seen = ticks[k].seen
          /\ next.force = ticks[k].force /\ next.once = ticks[k].once
      BY <1>1 DEF TickState, TickPoint
    <3> HIDE DEF next
    <3> QED BY <2>1, <3>1, <3>2, TickKeepsSight
  <2> QED BY <2>2, <2>3
<1>3. ASSUME NEW status \in {"ok", "degraded"}, MakeReport(k, status) PROVE TickInv'
  <2> DEFINE next == [ticks[k] EXCEPT !.pc = "record", !.status = status]
  <2>1. Becomes(k, next) /\ ticks[k].pc = "query" /\ UNCHANGED <<tickRow, recorded>>
    BY <1>3 DEF MakeReport
  <2>2. /\ next \in TickState /\ next.pc = "record" /\ next.now = ticks[k].now /\ next.seen = ticks[k].seen
        /\ next.force = ticks[k].force /\ next.once = ticks[k].once /\ next.status \in {"ok", "degraded"}
    BY <1>1 DEF TickState, TickPoint, TickStatus
  <2> HIDE DEF next
  <2> QED BY <2>1, <2>2, TickKeepsSight
<1>4. ASSUME NEW providers \in SUBSET GreyProviders \ {{}}, NEW futu \in {"ok", "failed"},
             QueryProviders(k, providers, futu)
      PROVE  TickInv'
  <2>1. PICK status \in {"ok", "failed"} :
          IF ticks[k].once THEN Ends(k, [ticks[k] EXCEPT !.status = status], status, IF status = "ok" THEN 0 ELSE 1)
          ELSE Becomes(k, [[ticks[k] EXCEPT !.status = status] EXCEPT !.pc = "record"])
    BY <1>4 DEF QueryProviders
  <2>2. ticks[k].pc = "query" /\ UNCHANGED <<tickRow, recorded>>
    BY <1>4 DEF QueryProviders
  <2> DEFINE tick == [ticks[k] EXCEPT !.status = status]
             next == [tick EXCEPT !.pc = "record"]
  <2>3. tick \in TickState /\ tick.now \in Nat /\ status \in TickStatus /\ ticks[k].pc # "done"
    BY <1>1, <2>2 DEF TickState, TickStatus
  <2>4. CASE ticks[k].once
    <3>1. Ends(k, tick, status, IF status = "ok" THEN 0 ELSE 1)
      BY <2>1, <2>4
    <3>2. (IF status = "ok" THEN 0 ELSE 1) \in {None, 0, 1, 2}
      OBVIOUS
    <3> HIDE DEF tick
    <3> QED BY <2>2, <2>3, <3>1, <3>2, TickEndsInv
  <2>5. CASE ~ticks[k].once
    <3>1. /\ next \in TickState /\ next.pc = "record" /\ next.now = ticks[k].now /\ next.seen = ticks[k].seen
          /\ next.force = ticks[k].force /\ next.once = ticks[k].once /\ next.status \in {"ok", "failed"}
      BY <1>1 DEF TickState, TickPoint, TickStatus
    <3>2. Becomes(k, next)
      BY <2>1, <2>5
    <3> HIDE DEF next
    <3> QED BY <2>2, <3>1, <3>2, TickKeepsSight
  <2> QED BY <2>4, <2>5
<1> QED BY <1>2, <1>3, <1>4

LEMMA TickFailsInv ==
  ASSUME TickInv, NEW k \in Tickers, WriteFails(k) \/ ReadFails(k) \/ TickDies(k)
  PROVE  TickInv'
<1>1. ticks[k] \in TickState /\ (ticks[k].pc \notin {"start", "dead"} => ticks[k].now \in Nat)
  BY DEF TickInv, TickTyped
<1>2. CASE WriteFails(k) \/ ReadFails(k)
  <2>1. /\ Ends(k, ticks[k], "failed", 1) /\ UNCHANGED <<tickRow, recorded>> /\ "failed" \in TickStatus
        /\ ticks[k].pc \in {"read_row", "read_strategy", "record"}
    BY <1>2 DEF WriteFails, ReadFails, TickStatus
  <2> QED BY <1>1, <2>1, TickEndsInv
<1>3. CASE TickDies(k)
  <2> DEFINE next == [NotStarted EXCEPT !.pc = "dead"]
  <2>1. Becomes(k, next) /\ UNCHANGED <<tickRow, recorded>> /\ ticks[k].pc # "done"
    BY <1>3 DEF TickDies
  <2>2. next \in TickState /\ next.pc = "dead"
    BY EmptyTick DEF TickState, TickPoint
  <2> HIDE DEF next
  <2> QED BY <2>1, <2>2, TickStepsOn
<1> QED BY <1>2, <1>3

LEMMA TickWritesInv ==
  ASSUME TickInv, NEW k \in Tickers, WriteRow(k)
  PROVE  TickInv'
<1> DEFINE next == [NotStarted EXCEPT !.pc = "done", !.now = ticks[k].now, !.status = ticks[k].status,
                                      !.exit = IF worker = "watch" \/ ticks[k].status = "ok" THEN 0 ELSE 1]
<1>1. /\ ticks \in [Tickers -> TickState] /\ ticks[k] \in TickState /\ ticks[k].pc = "record" /\ ticks[k].now \in Nat
      /\ ticks[k].status \in {"ok", "degraded", "failed"} /\ recorded \in Seq(Tickers)
  BY DEF TickInv, TickTyped, WriteRow
<1>2. next \in TickState /\ next.pc = "done" /\ next.now = ticks[k].now
  <2>1. /\ ticks[k].status \in TickStatus
        /\ (IF worker = "watch" \/ ticks[k].status = "ok" THEN 0 ELSE 1) \in {None, 0, 1, 2}
    BY <1>1 DEF TickStatus
  <2>2. PICK now, x, e : /\ now = ticks[k].now /\ x = ticks[k].status
                         /\ e = IF worker = "watch" \/ ticks[k].status = "ok" THEN 0 ELSE 1
    OBVIOUS
  <2>3. next = [NotStarted EXCEPT !.pc = "done", !.now = now, !.status = x, !.exit = e]
    BY <2>2
  <2> HIDE DEF next
  <2> QED BY <1>1, <2>1, <2>2, <2>3, EmptyTick DEF TickState, TickPoint
<1>3. /\ ticks' = [ticks EXCEPT ![k] = next] /\ tickTime' = tickTime
      /\ recorded' = Append(recorded, k)
      /\ tickRow' = [started |-> ticks[k].now, status |-> ticks[k].status]
  BY DEF WriteRow, Ends, Becomes
<1> HIDE DEF next
<1>4. /\ ticks'[k] = next /\ \A i \in Tickers : i # k => ticks'[i] = ticks[i]
      /\ \A i \in Tickers : ticks'[i].now = ticks[i].now
      /\ \A i \in Tickers : ticks[i].pc = "done" => ticks'[i] = ticks[i]
  BY <1>1, <1>2, <1>3
<1>5. /\ recorded' \in Seq(Tickers) /\ recorded' # <<>> /\ Len(recorded') = Len(recorded) + 1
      /\ recorded'[Len(recorded')] = k
      /\ \A n \in DOMAIN recorded : recorded'[n] = recorded[n] /\ recorded[n] \in Tickers
      /\ DOMAIN recorded' = DOMAIN recorded \cup {Len(recorded')}
  BY <1>1, <1>3
<1>6. TickTyped'
  BY <1>1, <1>2, <1>3, <1>4, <1>5 DEF TickInv, TickTyped
<1>7. WrittenOnce(recorded)'
  <2>1. \A n \in DOMAIN recorded : ticks[recorded[n]].pc = "done"
    BY DEF TickInv, WrittenOnce
  <2>2. \A n \in DOMAIN recorded : recorded[n] # k
    BY <1>1, <2>1
  <2>3. \A n \in DOMAIN recorded' : ticks'[recorded'[n]].pc = "done"
    BY <1>2, <1>4, <1>5, <2>1
  <2>4. \A m, n \in DOMAIN recorded' : recorded'[m] = recorded'[n] => m = n
    <3>1. \A m, n \in DOMAIN recorded : recorded[m] = recorded[n] => m = n
      BY DEF TickInv, WrittenOnce
    <3> QED BY <1>5, <2>2, <3>1
  <2> QED BY <2>3, <2>4 DEF WrittenOnce
<1>8. RowIsLast'
  BY <1>1, <1>2, <1>3, <1>4, <1>5 DEF RowIsLast
<1>9. ASSUME NEW j \in Tickers PROVE CameAfterLast(j)'
  <2>1. SUFFICES ASSUME ticks'[j].pc \in {"read_strategy", "query", "record"}, ~ticks'[j].once
                 PROVE  CameAfterLast(j)'
    BY DEF CameAfterLast
  <2>2. j # k /\ ticks'[j] = ticks[j] /\ ticks[j] \in TickState
    BY <1>1, <1>2, <1>4, <2>1
  <2>3. /\ WrittenOnce(ticks[j].seen) /\ ticks[j].seen \in Seq(Tickers)
        /\ ~ticks[j].force /\ ticks[j].seen # <<>> =>
                    ticks[j].now >= ticks[ticks[j].seen[Len(ticks[j].seen)]].now + Interval
    BY <2>1, <2>2 DEF TickInv, CameAfterLast, TickState
  <2>4. /\ \A n \in DOMAIN ticks[j].seen : ticks[j].seen[n] \in Tickers
        /\ \A n \in DOMAIN ticks[j].seen : ticks[ticks[j].seen[n]].pc = "done"
        /\ \A m, n \in DOMAIN ticks[j].seen : ticks[j].seen[m] = ticks[j].seen[n] => m = n
        /\ ticks[j].seen # <<>> => Len(ticks[j].seen) \in DOMAIN ticks[j].seen
    BY <2>3 DEF WrittenOnce
  <2>5. \A n \in DOMAIN ticks[j].seen : ticks'[ticks[j].seen[n]] = ticks[ticks[j].seen[n]]
    BY <1>4, <2>4
  <2> QED BY <2>2, <2>3, <2>4, <2>5 DEF CameAfterLast, WrittenOnce
<1> QED BY <1>6, <1>7, <1>8, <1>9 DEF TickInv

LEMMA TickStepInv == TickInv /\ [TickNext]_tickVars => TickInv'
<1> SUFFICES ASSUME TickInv, [TickNext]_tickVars PROVE TickInv'
  OBVIOUS
<1>1. CASE TickPass
  <2>1. UNCHANGED <<tickRow, ticks, recorded>> /\ tickTime' \in Nat
    BY <1>1 DEF TickPass, TickInv, TickTyped
  <2> QED BY <2>1 DEF TickInv, TickTyped, WrittenOnce, RowIsLast, CameAfterLast
<1>2. ASSUME NEW k \in Tickers, NEW force \in BOOLEAN, NEW once \in BOOLEAN, NEW valid \in BOOLEAN,
             StartTick(k, force, once, valid)
      PROVE  TickInv'
  BY <1>2, TickStartInv
<1>3. ASSUME NEW k \in Tickers, ReadRow(k) PROVE TickInv'
  BY <1>3, TickReadInv
<1>4. ASSUME NEW k \in Tickers,
             \/ \E active \in BOOLEAN : ReadStrategy(k, active)
             \/ \E status \in {"ok", "degraded"} : MakeReport(k, status)
             \/ \E providers \in SUBSET GreyProviders \ {{}}, futu \in {"ok", "failed"} : QueryProviders(k, providers, futu)
      PROVE  TickInv'
  BY <1>4, TickWorksInv
<1>5. ASSUME NEW k \in Tickers, WriteFails(k) \/ ReadFails(k) \/ TickDies(k) PROVE TickInv'
  BY <1>5, TickFailsInv
<1>6. ASSUME NEW k \in Tickers, WriteRow(k) PROVE TickInv'
  BY <1>6, TickWritesInv
<1>7. CASE UNCHANGED tickVars
  BY <1>7 DEF tickVars, TickInv, TickTyped, WrittenOnce, RowIsLast, CameAfterLast
<1> QED BY <1>1, <1>2, <1>3, <1>4, <1>5, <1>6, <1>7 DEF TickNext

\* However many processes cron starts, and whichever is slow or dies: one that is not forced
\* works only an interval after every start on record, unless a slower one hid it.
\* (WatchWorkerService.tick, grey_market_watch_cli.main)
THEOREM TicksHold == TickSpec => []TicksApart
<1>1. TickInit => TickInv
  BY TickInitInv
<1>2. TickInv /\ [TickNext]_tickVars => TickInv'
  BY TickStepInv
<1>3. TickInv => TicksApart
  BY TickInvApart
<1> QED BY <1>1, <1>2, <1>3, PTL DEF TickSpec
-----------------------------------------------------------------------------
(* HkIpoDocs. *)

\* The positions up to n that a set of positions holds are counted without a gap.
LEMMA CountsAll ==
  ASSUME NEW n \in Nat, NEW first, first \subseteq 1 .. n
  PROVE  /\ IsFiniteSet(first) /\ Cardinality(first) \in Nat
         /\ \A k \in 1 .. Cardinality(first) : \E i \in first : Cardinality(first \cap 1 .. i) = k
<1>1. IsFiniteSet(first) /\ Cardinality(first) \in Nat
  <2>1. IsFiniteSet(1 .. n)
    BY FS_Interval
  <2>2. IsFiniteSet(first)
    BY <2>1, FS_Subset
  <2> QED BY <2>2, FS_CardinalityType
<1>2. \A i \in Nat : IsFiniteSet(first \cap 1 .. i) /\ Cardinality(first \cap 1 .. i) \in Nat
  <2> TAKE i \in Nat
  <2>1. IsFiniteSet(first \cap 1 .. i)
    BY <1>1, FS_Subset
  <2> QED BY <2>1, FS_CardinalityType
<1>3. ASSUME NEW k \in 1 .. Cardinality(first)
      PROVE  \E i \in first : Cardinality(first \cap 1 .. i) = k
  <2> DEFINE S == {i \in Nat : Cardinality(first \cap 1 .. i) >= k}
  <2>1. n \in S
    <3>1. first \cap 1 .. n = first
      OBVIOUS
    <3> QED BY <1>1, <3>1
  <2>2. PICK m \in S : \A i \in S : m <= i
    BY <2>1, LeastNat
  <2>3. m \in Nat /\ Cardinality(first \cap 1 .. m) >= k /\ m # 0
    <3>1. first \cap 1 .. 0 = {}
      OBVIOUS
    <3> QED BY <1>1, <1>2, <3>1, FS_EmptySet
  <2>4. m - 1 \in Nat /\ Cardinality(first \cap 1 .. (m - 1)) < k
    <3>1. m - 1 \in Nat /\ m - 1 \notin S
      BY <2>2, <2>3
    <3>2. Cardinality(first \cap 1 .. (m - 1)) \in Nat
      BY <1>2, <3>1
    <3>3. ~(Cardinality(first \cap 1 .. (m - 1)) >= k)
      BY <3>1
    <3> QED BY <1>1, <3>1, <3>2, <3>3
  <2>5. m \in first
    <3>1. m \notin first => first \cap 1 .. m = first \cap 1 .. (m - 1)
      BY <2>3
    <3> QED BY <1>1, <1>2, <2>3, <2>4, <3>1
  <2>6. Cardinality(first \cap 1 .. m) = Cardinality(first \cap 1 .. (m - 1)) + 1
    <3>1. first \cap 1 .. m = (first \cap 1 .. (m - 1)) \cup {m} /\ m \notin first \cap 1 .. (m - 1)
      BY <2>3, <2>5
    <3> QED BY <1>2, <2>4, <3>1, FS_AddElement
  <2> DEFINE a == Cardinality(first \cap 1 .. m)
             b == Cardinality(first \cap 1 .. (m - 1))
  <2>7. a \in Nat /\ b \in Nat /\ a >= k /\ b < k /\ a = b + 1 /\ k \in Nat
    <3>1. a \in Nat /\ b \in Nat
      BY <1>2, <2>3, <2>4
    <3>2. k \in Nat
      BY <1>1
    <3>3. a >= k /\ b < k /\ a = b + 1
      BY <2>3, <2>4, <2>6
    <3> QED BY <3>1, <3>2, <3>3
  <2>8. a = k
    <3> HIDE DEF a, b
    <3> QED BY <2>7
  <2> QED BY <2>5, <2>8
<1> QED BY <1>1, <1>3

\* _dedupe_links answers with links that were found, and with none only when none were.
LEMMA DedupedLinks ==
  ASSUME NEW found \in Seq(Url)
  PROVE  Deduped(found) \in Seq(Url) /\ (Deduped(found) = <<>> <=> found = <<>>)
<1> DEFINE first == FirstLinks(found)
<1>1. first \subseteq 1 .. Len(found) /\ Len(found) \in Nat
  BY DEF FirstLinks
<1> HIDE DEF first
<1>2. /\ IsFiniteSet(first) /\ Cardinality(first) \in Nat
      /\ \A k \in 1 .. Cardinality(first) : \E i \in first : Cardinality(first \cap 1 .. i) = k
  BY <1>1, CountsAll
<1> DEFINE place(k) == CHOOSE i \in first : Cardinality(first \cap 1 .. i) = k
<1>3. \A k \in 1 .. Cardinality(first) : place(k) \in first
  BY <1>2
<1>4. Deduped(found) = [k \in 1 .. Cardinality(first) |-> found[place(k)]]
  BY DEF Deduped, first
<1> HIDE DEF place
<1>5. Deduped(found) \in Seq(Url) /\ Len(Deduped(found)) = Cardinality(first)
  <2>1. PICK n \in Nat : n = Cardinality(first)
    BY <1>2
  <2>2. ASSUME NEW k \in 1 .. n PROVE found[place(k)] \in Url
    <3>1. PICK i \in 1 .. Len(found) : i = place(k)
      BY <1>1, <1>3, <2>1
    <3>2. found[i] \in Url
      BY <1>1
    <3> QED BY <3>1, <3>2
  <2>3. Deduped(found) = [k \in 1 .. n |-> found[place(k)]]
    BY <1>4, <2>1
  <2>4. Deduped(found) \in [1 .. n -> Url]
    BY <2>2, <2>3
  <2>5. Deduped(found) \in Seq(Url) /\ Len(Deduped(found)) = n
    BY <2>4
  <2> QED BY <2>1, <2>5
<1>6. found = <<>> => Deduped(found) = <<>>
  <2>1. found = <<>> => first = {}
    BY <1>1
  <2>2. first = {} => Cardinality(first) = 0
    BY FS_EmptySet
  <2> QED BY <1>5, <2>1, <2>2
<1>7. found # <<>> => Deduped(found) # <<>>
  <2>1. found # <<>> => 1 \in first
    BY DEF FirstLinks, first
  <2>2. first # {} => Cardinality(first) # 0
    BY <1>2, FS_EmptySet
  <2> QED BY <1>5, <2>1, <2>2
<1> QED BY <1>5, <1>6, <1>7

Parse == [url : Url, body : Body]

DocTyped ==
  /\ file \in [Url -> Body \cup {None}]
  /\ docStep \in [DocProcess -> {"idle", "next", "fetching", "writing", "dead"}]
  /\ links \in [DocProcess -> Seq(Url)]
  /\ documents \in [DocProcess -> Seq(Parse)]
  /\ docErrors = [p \in DocProcess |-> docErrors[p]]
  /\ \A p \in DocProcess : docStep[p] \in {"fetching", "writing"} => links[p] # <<>>

\* A file that is neither absent nor whole is being written, or it is on record.
FilesKnown == \A u \in Url : file[u] \in {None, Download(u)} \/ Writing(u) \/ u \in disturbed

\* What was parsed is what the download gives, or it is on record.
TextsKnown ==
  \A p \in DocProcess : \A k \in DOMAIN documents[p] :
    documents[p][k].body = Download(documents[p][k].url) \/ documents[p][k].url \in disturbed

\* A process at work has something to fetch or something to tell.
SomethingToTell ==
  \A p \in DocProcess :
    docStep[p] \in {"next", "fetching", "writing"} /\ links[p] = <<>> => documents[p] # <<>> \/ docErrors[p] # {}

DocInv == DocTyped /\ FilesKnown /\ TextsKnown /\ SomethingToTell

LEMMA DocInvAgree == DocInv => DocumentsAgree
<1> SUFFICES ASSUME DocInv PROVE DocumentsAgree
  OBVIOUS
<1>1. ASSUME NEW p \in DocProcess, NEW q \in DocProcess,
             NEW j \in DOMAIN documents[p], NEW k \in DOMAIN documents[q],
             documents[p][j].url = documents[q][k].url, documents[p][j].url \notin disturbed
      PROVE  Fields(<<documents[p][j]>>) = Fields(<<documents[q][k]>>)
  <2>1. documents[p] \in Seq(Parse) /\ documents[q] \in Seq(Parse)
    BY DEF DocInv, DocTyped
  <2>2. documents[p][j] \in Parse /\ documents[q][k] \in Parse
    BY <2>1
  <2>3. documents[p][j].body = documents[q][k].body
    BY <1>1 DEF DocInv, TextsKnown
  <2>4. documents[p][j] = documents[q][k]
    BY <1>1, <2>2, <2>3 DEF Parse
  <2> QED BY <2>4
<1>2. ASSUME NEW p \in DocProcess, docStep[p] = "next", links[p] = <<>>
      PROVE  DocStatus(p) # "official_docs_not_found"
  BY <1>2 DEF DocInv, SomethingToTell, DocStatus
<1> QED BY <1>1, <1>2 DEF DocumentsAgree

LEMMA DocInitInv == DocInit => DocInv
<1> SUFFICES ASSUME DocInit PROVE DocInv
  OBVIOUS
<1>1. DocTyped
  BY DEF DocInit, DocTyped
<1> QED BY <1>1 DEF DocInit, DocInv, FilesKnown, TextsKnown, SomethingToTell

LEMMA FindLinksInv ==
  ASSUME DocInv, NEW p \in DocProcess, NEW search \in Listings \cup {None}, NEW main \in Listings \cup {None},
         NEW gem \in Listings \cup {None}, FindLinks(p, search, main, gem)
  PROVE  DocInv'
<1> DEFINE found == LinksOf(search, main, gem)
           failed == FailedPages(search, main, gem)
           kept == SubSeq(found, 1, IF Len(found) < MaxDocuments THEN Len(found) ELSE MaxDocuments)
<1>1. found \in Seq(Url)
  <2> DEFINE shown(page) == IF page = None THEN <<>> ELSE page
  <2>1. shown(search) \in Seq(Url) /\ shown(main) \in Seq(Url) /\ shown(gem) \in Seq(Url)
    BY DocAssumption
  <2>2. (shown(search) # <<>>) => search \in Seq(Url)
    BY DocAssumption
  <2>3. found = Deduped(IF shown(search) # <<>> THEN search ELSE shown(main) \o shown(gem))
    BY DEF LinksOf
  <2>4. (IF shown(search) # <<>> THEN search ELSE shown(main) \o shown(gem)) \in Seq(Url)
    <3> HIDE DEF shown
    <3> QED BY <2>1, <2>2
  <2> HIDE DEF shown
  <2> QED BY <2>3, <2>4, DedupedLinks
<1>2. kept \in Seq(Url) /\ (kept = <<>> => found = <<>>)
  <2> HIDE DEF found
  <2>1. MaxDocuments \in Nat \ {0} /\ Len(found) \in Nat
    BY <1>1, DocAssumption
  <2>2. PICK n \in Nat : n = IF Len(found) < MaxDocuments THEN Len(found) ELSE MaxDocuments
    BY <2>1
  <2>3. n <= Len(found) /\ (n = 0 => Len(found) = 0)
    BY <2>1, <2>2
  <2>4. SubSeq(found, 1, n) \in Seq(Url) /\ Len(SubSeq(found, 1, n)) = n
    BY <1>1, <2>2, <2>3
  <2> QED BY <1>1, <2>2, <2>3, <2>4
<1>3. /\ links' = [links EXCEPT ![p] = kept]
      /\ docErrors' = [docErrors EXCEPT ![p] = IF found = <<>> /\ failed = {}
                                              THEN {"no matching official documents found"}
                                              ELSE failed]
      /\ docStep[p] = "idle" /\ docStep' = [docStep EXCEPT ![p] = "next"]
      /\ UNCHANGED <<file, documents, disturbed>>
  BY DEF FindLinks
<1> HIDE DEF found, failed, kept
<1>4. DocTyped'
  BY <1>2, <1>3 DEF DocInv, DocTyped
<1>5. FilesKnown'
  <2>1. ASSUME NEW u \in Url, Writing(u) PROVE Writing(u)'
    <3>1. PICK q \in DocProcess : docStep[q] = "writing" /\ Head(links[q]) = u
      BY <2>1 DEF Writing
    <3>2. q # p /\ docStep'[q] = docStep[q] /\ links'[q] = links[q]
      BY <1>3, <3>1 DEF DocInv, DocTyped
    <3> QED BY <3>1, <3>2 DEF Writing
  <2> QED BY <1>3, <2>1 DEF DocInv, FilesKnown
<1>6. TextsKnown'
  BY <1>3 DEF DocInv, TextsKnown
<1>7. SomethingToTell'
  BY <1>2, <1>3 DEF DocInv, DocTyped, SomethingToTell
<1> QED BY <1>4, <1>5, <1>6, <1>7 DEF DocInv

\* One more text of the current link goes to the parser.
LEMMA ParsedInv ==
  ASSUME DocInv, NEW p \in DocProcess, NEW body \in Body, Parsed(p, body), links[p] # <<>>,
         disturbed \subseteq disturbed', docErrors' = docErrors,
         body = Download(Head(links[p])) \/ Head(links[p]) \in disturbed',
         docStep' \in [DocProcess -> {"idle", "next", "fetching", "writing", "dead"}], docStep'[p] = "next",
         \A q \in DocProcess : q # p => docStep'[q] = docStep[q],
         file' \in [Url -> Body \cup {None}],
         \A u \in Url : file'[u] = file[u] \/ file'[u] = Download(u),
         docStep[p] = "writing" => file'[Head(links[p])] = Download(Head(links[p]))
  PROVE  DocInv'
<1> DEFINE u == Head(links[p])
           entry == [url |-> u, body |-> body]
<1>1. links \in [DocProcess -> Seq(Url)] /\ documents \in [DocProcess -> Seq(Parse)] /\ u \in Url
  BY DEF DocInv, DocTyped
<1>2. entry \in Parse
  BY <1>1 DEF Parse
<1>3. /\ documents' = [documents EXCEPT ![p] = Append(@, entry)]
      /\ links' = [links EXCEPT ![p] = Tail(@)]
  BY DEF Parsed
<1>4. entry.url = u /\ entry.body = body
  OBVIOUS
<1> HIDE DEF entry
<1>5. Tail(links[p]) \in Seq(Url) /\ Append(documents[p], entry) \in Seq(Parse) /\ Append(documents[p], entry) # <<>>
  <2>1. links[p] \in Seq(Url) /\ documents[p] \in Seq(Parse)
    BY <1>1
  <2>2. Tail(links[p]) \in Seq(Url)
    BY <2>1
  <2>3. Append(documents[p], entry) \in Seq(Parse) /\ Len(Append(documents[p], entry)) = Len(documents[p]) + 1
    BY <1>2, <2>1
  <2>4. Len(documents[p]) \in Nat
    BY <2>1
  <2> QED BY <2>2, <2>3, <2>4
<1>6. DocTyped'
  BY <1>1, <1>3, <1>5 DEF DocInv, DocTyped
<1>7. FilesKnown'
  <2> SUFFICES ASSUME NEW w \in Url, file'[w] \notin {None, Download(w)}, w \notin disturbed'
               PROVE  Writing(w)'
    BY DEF FilesKnown
  <2>1. file[w] \notin {None, Download(w)} /\ w \notin disturbed /\ file'[w] = file[w]
    OBVIOUS
  <2>2. PICK q \in DocProcess : docStep[q] = "writing" /\ Head(links[q]) = w
    BY <2>1 DEF DocInv, FilesKnown, Writing
  <2>3. q # p
    BY <2>2
  <2>4. docStep'[q] = "writing" /\ links'[q] = links[q]
    BY <1>1, <1>3, <2>2, <2>3
  <2> QED BY <2>2, <2>4 DEF Writing
<1>8. TextsKnown'
  <2> SUFFICES ASSUME NEW q \in DocProcess, NEW k \in DOMAIN documents'[q]
               PROVE  \/ documents'[q][k].body = Download(documents'[q][k].url)
                      \/ documents'[q][k].url \in disturbed'
    BY DEF TextsKnown
  <2>1. CASE q # p \/ k \in DOMAIN documents[q]
    <3>1. documents'[q][k] = documents[q][k] /\ k \in DOMAIN documents[q]
      BY <1>1, <1>2, <1>3, <2>1
    <3> QED BY <3>1 DEF DocInv, TextsKnown
  <2>2. CASE q = p /\ k \notin DOMAIN documents[q]
    <3>1. documents'[q][k] = entry
      BY <1>1, <1>2, <1>3, <2>2
    <3> QED BY <1>4, <3>1
  <2> QED BY <2>1, <2>2
<1>9. SomethingToTell'
  BY <1>1, <1>3, <1>5 DEF DocInv, DocTyped, SomethingToTell
<1> QED BY <1>6, <1>7, <1>8, <1>9 DEF DocInv

LEMMA DownloadBody == \A u : Download(u) \in Body
BY DEF Download, Body

LEMMA DocReadsInv ==
  ASSUME DocInv, NEW p \in DocProcess, ReadFile(p)
  PROVE  DocInv'
<1> DEFINE u == Head(links[p])
<1>1. /\ docStep[p] = "next" /\ links[p] # <<>> /\ file[u] # None /\ Parsed(p, file[u])
      /\ disturbed' = disturbed \cup {w \in {u} : Writing(w)}
      /\ UNCHANGED <<file, docStep, docErrors>>
  BY DEF ReadFile
<1>2. /\ u \in Url /\ file \in [Url -> Body \cup {None}]
      /\ docStep \in [DocProcess -> {"idle", "next", "fetching", "writing", "dead"}]
  BY <1>1 DEF DocInv, DocTyped
<1>3. file[u] \in Body /\ (file[u] = Download(u) \/ u \in disturbed')
  BY <1>1, <1>2 DEF DocInv, FilesKnown
<1> HIDE DEF u
<1>4. /\ disturbed \subseteq disturbed' /\ docErrors' = docErrors /\ docStep' = docStep /\ file' = file
  BY <1>1
<1> USE DEF u
<1> QED BY <1>1, <1>2, <1>3, <1>4, ParsedInv

LEMMA DocFetchesInv ==
  ASSUME DocInv, NEW p \in DocProcess, FetchEnds(p) \/ WriteEnds(p)
  PROVE  DocInv'
<1> DEFINE u == Head(links[p])
<1>1. /\ docStep[p] \in {"fetching", "writing"} /\ links[p] # <<>> /\ u \in Url
      /\ file \in [Url -> Body \cup {None}] /\ Download(u) \in Body
      /\ docStep \in [DocProcess -> {"idle", "next", "fetching", "writing", "dead"}]
  BY DownloadBody DEF DocInv, DocTyped, FetchEnds, WriteEnds
<1>2. CASE FetchEnds(p) /\ shared[p]
  <2>1. /\ file' = [file EXCEPT ![u] = "cut"] /\ docStep' = [docStep EXCEPT ![p] = "writing"]
        /\ UNCHANGED <<links, documents, docErrors, disturbed>>
    BY <1>2 DEF FetchEnds
  <2>2. DocTyped'
    BY <1>1, <2>1 DEF DocInv, DocTyped, Body
  <2>3. FilesKnown'
    <3> SUFFICES ASSUME NEW w \in Url, file'[w] \notin {None, Download(w)}, w \notin disturbed'
                 PROVE  Writing(w)'
      BY DEF FilesKnown
    <3>1. CASE w = u
      BY <1>1, <2>1, <3>1 DEF Writing
    <3>2. CASE w # u
      <4>1. PICK q \in DocProcess : docStep[q] = "writing" /\ Head(links[q]) = w
        BY <1>1, <2>1, <3>2 DEF DocInv, FilesKnown, Writing
      <4> QED BY <1>1, <2>1, <4>1 DEF Writing
    <3> QED BY <3>1, <3>2
  <2>4. TextsKnown' /\ SomethingToTell'
    BY <1>1, <2>1 DEF DocInv, TextsKnown, SomethingToTell
  <2> QED BY <2>2, <2>3, <2>4 DEF DocInv
<1>3. CASE FetchEnds(p) /\ ~shared[p]
  <2>1. /\ Parsed(p, Download(u)) /\ docStep' = [docStep EXCEPT ![p] = "next"] /\ docStep[p] = "fetching"
        /\ UNCHANGED <<file, docErrors, disturbed>>
    BY <1>3 DEF FetchEnds
  <2> QED BY <1>1, <2>1, ParsedInv
<1>4. CASE WriteEnds(p)
  <2>1. /\ Parsed(p, Download(u)) /\ docStep' = [docStep EXCEPT ![p] = "next"]
        /\ file' = [file EXCEPT ![u] = Download(u)]
        /\ UNCHANGED <<docErrors, disturbed>>
    BY <1>4 DEF WriteEnds
  <2>2. /\ file' \in [Url -> Body \cup {None}] /\ file'[u] = Download(u)
        /\ \A w \in Url : file'[w] = file[w] \/ file'[w] = Download(w)
    BY <1>1, <2>1
  <2> QED BY <1>1, <2>1, <2>2, ParsedInv
<1> QED BY <1>2, <1>3, <1>4

LEMMA DocStopsInv ==
  ASSUME DocInv, NEW p \in DocProcess,
         Fetch(p) \/ FetchFails(p) \/ KeepFails(p) \/ DocDies(p)
  PROVE  DocInv'
<1>1. links \in [DocProcess -> Seq(Url)] /\ docStep \in [DocProcess -> {"idle", "next", "fetching", "writing", "dead"}]
  BY DEF DocInv, DocTyped
<1>2. CASE Fetch(p)
  <2>1. /\ docStep[p] = "next" /\ links[p] # <<>> /\ docStep' = [docStep EXCEPT ![p] = "fetching"]
        /\ UNCHANGED <<file, links, documents, docErrors, disturbed>>
    BY <1>2 DEF Fetch
  <2>2. \A w \in Url : Writing(w) => Writing(w)'
    BY <1>1, <2>1 DEF Writing
  <2> QED BY <1>1, <2>1, <2>2 DEF DocInv, DocTyped, FilesKnown, TextsKnown, SomethingToTell
<1>3. CASE FetchFails(p)
  <2>1. /\ docStep[p] = "fetching" /\ docErrors' = [docErrors EXCEPT ![p] = @ \cup {Head(links[p])}]
        /\ links' = [links EXCEPT ![p] = Tail(@)] /\ docStep' = [docStep EXCEPT ![p] = "next"]
        /\ links[p] # <<>> /\ Tail(links[p]) \in Seq(Url)
        /\ UNCHANGED <<file, documents, disturbed>>
    BY <1>1, <1>3 DEF FetchFails, DocInv, DocTyped
  <2>2. \A w \in Url : Writing(w) => Writing(w)'
    BY <1>1, <2>1 DEF Writing
  <2>3. DocTyped'
    BY <1>1, <2>1 DEF DocInv, DocTyped
  <2>4. FilesKnown' /\ TextsKnown'
    BY <2>1, <2>2 DEF DocInv, FilesKnown, TextsKnown
  <2>5. SomethingToTell'
    BY <1>1, <2>1 DEF DocInv, DocTyped, SomethingToTell
  <2> QED BY <2>3, <2>4, <2>5 DEF DocInv
<1>4. CASE DocDies(p)
  <2>1. /\ disturbed' = IF docStep[p] = "writing" THEN disturbed \cup {Head(links[p])} ELSE disturbed
        /\ docStep' = [docStep EXCEPT ![p] = "dead"]
        /\ UNCHANGED <<file, links, documents, docErrors>>
    BY <1>4 DEF DocDies
  <2>2. \A w \in Url : Writing(w) => Writing(w)' \/ w \in disturbed'
    BY <1>1, <2>1 DEF Writing
  <2>3. DocTyped'
    BY <1>1, <2>1 DEF DocInv, DocTyped
  <2>4. FilesKnown' /\ TextsKnown'
    BY <2>1, <2>2 DEF DocInv, FilesKnown, TextsKnown
  <2>5. SomethingToTell'
    BY <1>1, <2>1 DEF DocInv, SomethingToTell
  <2> QED BY <2>3, <2>4, <2>5 DEF DocInv
<1>5. CASE KeepFails(p)
  <2> DEFINE u == Head(links[p])
  <2>1. /\ docStep[p] = "writing" /\ docErrors' = [docErrors EXCEPT ![p] = @ \cup {u}]
        /\ links' = [links EXCEPT ![p] = Tail(@)] /\ docStep' = [docStep EXCEPT ![p] = "next"]
        /\ links[p] # <<>> /\ Tail(links[p]) \in Seq(Url) /\ u \in Url /\ documents' = documents
    BY <1>1, <1>5 DEF KeepFails, DocInv, DocTyped
  <2>2. \A w \in Url : w # u /\ Writing(w) => Writing(w)'
    BY <1>1, <2>1 DEF Writing
  <2>3. file \in [Url -> Body \cup {None}] /\ file' \in [Url -> Body \cup {None}]
    <3>1. file \in [Url -> Body \cup {None}] /\ Download(u) \in Body
      BY DownloadBody, <2>1 DEF DocInv, DocTyped
    <3>2. file' \in {file, [file EXCEPT ![u] = Download(u)]}
      BY <1>5 DEF KeepFails
    <3> HIDE DEF u
    <3> QED BY <3>1, <3>2
  <2>4. DocTyped'
    BY <1>1, <2>1, <2>3 DEF DocInv, DocTyped
  <2>5. FilesKnown' /\ TextsKnown'
    <3>1. CASE disturbed' = disturbed \cup {u} /\ file' = file
      BY <2>1, <2>2, <3>1 DEF DocInv, FilesKnown, TextsKnown
    <3>2. CASE disturbed' = disturbed /\ file' = [file EXCEPT ![u] = Download(u)]
      BY <2>1, <2>2, <2>3, <3>2 DEF DocInv, FilesKnown, TextsKnown
    <3> QED BY <1>5, <3>1, <3>2 DEF KeepFails
  <2>6. SomethingToTell'
    BY <1>1, <2>1 DEF DocInv, DocTyped, SomethingToTell
  <2> QED BY <2>4, <2>5, <2>6 DEF DocInv
<1> QED BY <1>2, <1>3, <1>4, <1>5

LEMMA DocStepInv == DocInv /\ [DocNext]_docVars => DocInv'
<1> SUFFICES ASSUME DocInv, [DocNext]_docVars PROVE DocInv'
  OBVIOUS
<1>1. ASSUME NEW p \in DocProcess, ReadFile(p) PROVE DocInv'
  BY <1>1, DocReadsInv
<1>2. ASSUME NEW p \in DocProcess, FetchEnds(p) \/ WriteEnds(p) PROVE DocInv'
  BY <1>2, DocFetchesInv
<1>3. ASSUME NEW p \in DocProcess, Fetch(p) \/ FetchFails(p) \/ KeepFails(p) \/ DocDies(p)
      PROVE  DocInv'
  BY <1>3, DocStopsInv
<1>4. ASSUME NEW p \in DocProcess, NEW search \in Listings \cup {None}, NEW main \in Listings \cup {None},
             NEW gem \in Listings \cup {None}, FindLinks(p, search, main, gem)
      PROVE  DocInv'
  BY <1>4, FindLinksInv
<1>5. CASE UNCHANGED docVars
  BY <1>5 DEF docVars, DocInv, DocTyped, FilesKnown, TextsKnown, SomethingToTell, Writing
<1> QED BY <1>1, <1>2, <1>3, <1>4, <1>5 DEF DocNext

\* Any number of processes that share the directory of downloads tell the same of a document,
\* unless one of them read it while another wrote, or the writer died over it; and none ends
\* without a document or an error. (HkIpoOfficialDocService._fetch_with_cache, _scan_one)
THEOREM DocumentsHold == DocSpec => []DocumentsAgree
<1>1. DocInit => DocInv
  BY DocInitInv
<1>2. DocInv /\ [DocNext]_docVars => DocInv'
  BY DocStepInv
<1>3. DocInv => DocumentsAgree
  BY DocInvAgree
<1> QED BY <1>1, <1>2, <1>3, PTL DEF DocSpec
-----------------------------------------------------------------------------
(* MarketPack. *)

LEMMA GreatestUpTo ==
  ASSUME NEW K \in Nat, NEW S, S \subseteq 0 .. K, S # {}
  PROVE  \E m \in S : \A n \in S : n <= m
<1> DEFINE T == {K - n : n \in S}
<1>1. T \subseteq Nat /\ T # {}
  <2>1. ASSUME NEW n \in S PROVE K - n \in Nat
    OBVIOUS
  <2>2. PICK n : n \in S
    OBVIOUS
  <2>3. K - n \in T
    BY <2>2
  <2> QED BY <2>1, <2>3
<1>2. PICK t \in T : \A u \in T : t <= u
  <2> HIDE DEF T
  <2> QED BY <1>1, LeastNat
<1>3. PICK m \in S : t = K - m
  OBVIOUS
<1>4. ASSUME NEW n \in S PROVE n <= m
  <2>1. K - n \in T
    OBVIOUS
  <2>2. K - m <= K - n /\ m \in 0 .. K /\ n \in 0 .. K
    BY <1>2, <1>3, <2>1
  <2> QED BY <2>2
<1> QED BY <1>4

LastPackDay == PackEnd \div 3
PackDays == 0 .. LastPackDay

LEMMA LastPackDayNat == LastPackDay \in Nat
<1>1. PackEnd \in Nat
  BY PackAssumption
<1> QED BY <1>1 DEF LastPackDay

\* The providers of a series, whether it has an identifier for them or not.
PolicyOf(s) == {Providers(SeriesRegion[s])[i] : i \in DOMAIN Providers(SeriesRegion[s])}

PackCandidate == [provider : {"fred", "yahoo_finance", "tencent", "eastmoney"},
                  days : SUBSET PackDays, asOf : PackDays, final : BOOLEAN]

PackThread(s) == [attempts : [PolicyOf(s) -> {"open", "not_supported", "failed", "ok"}],
                  found : Seq(PackCandidate), done : BOOLEAN]

PackTyped ==
  /\ packTime \in Nat
  /\ cutoff # None => cutoff.at \in Nat /\ cutoff.asked \in Nat /\ cutoff.asked <= packTime
  /\ threads = [s \in Series |-> threads[s]]
  /\ \A s \in Series : threads[s] \in PackThread(s)

\* The days of a candidate had ended at the cutoff, and are final if it lies in the past.
CandidateFinal(s, c) ==
  /\ \A d \in c.days : CompletedAt(SeriesRegion[s], d) <= cutoff.at
  /\ cutoff.at <= cutoff.asked => c.final

\* The candidates of a series are those of the providers that answered, each one's own.
CandidatesOfOk(s) ==
  /\ threads[s].found # <<>> => cutoff # None
  /\ \A i \in DOMAIN threads[s].found :
       threads[s].found[i].provider \in PolicyOf(s) /\ CandidateFinal(s, threads[s].found[i])
  /\ \A p \in PolicyOf(s) :
       threads[s].attempts[p] = "ok" <=> \E i \in DOMAIN threads[s].found : threads[s].found[i].provider = p

\* Before the one candidate of a CN series, every better provider had failed.
FirstOfPolicy(s) ==
  SeriesRegion[s] = "CN" =>
    /\ Len(threads[s].found) <= 1
    /\ \A i \in DOMAIN threads[s].found : \A p \in PolicyOf(s) :
         Priority(s, p) < Priority(s, threads[s].found[i].provider)
           => threads[s].attempts[p] \in {"failed", "not_supported"}

\* The answer is of what the threads ended with.
AnswerOfThreads ==
  pack # None =>
    LET good == {s \in Series : threads[s].found # <<>>} IN
      /\ \A s \in Series : threads[s].done
      /\ pack.markets = [s \in good |-> Chosen(s, threads[s].found)]
      /\ pack.failures = Series \ good

PackInv ==
  /\ PackTyped
  /\ \A s \in Series : CandidatesOfOk(s) /\ FirstOfPolicy(s)
  /\ AnswerOfThreads

LEMMA PriorityOfPolicy ==
  ASSUME NEW s \in Series, NEW p \in PolicyOf(s)
  PROVE  /\ Priority(s, p) \in DOMAIN Providers(SeriesRegion[s]) /\ Priority(s, p) \in 1 .. 3
         /\ Providers(SeriesRegion[s])[Priority(s, p)] = p
<1>1. PICK i \in DOMAIN Providers(SeriesRegion[s]) : Providers(SeriesRegion[s])[i] = p
  BY DEF PolicyOf
<1>2. Priority(s, p) \in DOMAIN Providers(SeriesRegion[s]) /\ Providers(SeriesRegion[s])[Priority(s, p)] = p
  BY <1>1 DEF Priority
<1>3. DOMAIN Providers(SeriesRegion[s]) \subseteq 1 .. 3
  BY DEF Providers
<1> QED BY <1>2, <1>3

\* One of any candidates is the freshest, by the policy among the equally fresh.
LEMMA ChosenIsBest ==
  ASSUME NEW s \in Series, NEW found \in Seq(PackCandidate), found # <<>>,
         \A i \in DOMAIN found : found[i].provider \in PolicyOf(s)
  PROVE  \E i \in DOMAIN found :
           /\ Chosen(s, found) = found[i]
           /\ \A j \in DOMAIN found :
                \/ found[i].asOf > found[j].asOf
                \/ /\ found[i].asOf = found[j].asOf
                   /\ Priority(s, found[i].provider) <= Priority(s, found[j].provider)
<1> DEFINE pr(i) == Priority(s, found[i].provider)
           rank(i) == (LastPackDay - found[i].asOf) * 4 + pr(i)
           Preferred(i) == \A j \in DOMAIN found :
                        \/ found[i].asOf > found[j].asOf
                        \/ found[i].asOf = found[j].asOf /\ pr(i) <= pr(j)
           R == {rank(i) : i \in DOMAIN found}
<1>1. LastPackDay \in Nat
  BY LastPackDayNat
<1>2. \A i \in DOMAIN found : found[i].asOf \in 0 .. LastPackDay /\ pr(i) \in 1 .. 3
  <2> TAKE i \in DOMAIN found
  <2>1. found[i] \in PackCandidate
    OBVIOUS
  <2> QED BY <2>1, PriorityOfPolicy DEF PackCandidate, PackDays
<1>3. 1 \in DOMAIN found
  OBVIOUS
<1> HIDE DEF pr
<1>4. R \subseteq Nat /\ R # {}
  <2>1. ASSUME NEW i \in DOMAIN found PROVE rank(i) \in Nat
    BY <1>1, <1>2
  <2> HIDE DEF rank
  <2> QED BY <1>3, <2>1
<1>5. PICK m \in R : \A n \in R : m <= n
  <2> HIDE DEF R
  <2> QED BY <1>4, LeastNat
<1>6. PICK i \in DOMAIN found : m = rank(i)
  <2> HIDE DEF rank
  <2> QED BY <1>5
<1>7. \A j \in DOMAIN found : rank(i) <= rank(j)
  <2> HIDE DEF rank
  <2> QED BY <1>5, <1>6
<1>8. Preferred(i)
  <2> TAKE j \in DOMAIN found
  <2>1. PICK a, b, x, y : a = found[i].asOf /\ b = found[j].asOf /\ x = pr(i) /\ y = pr(j)
    OBVIOUS
  <2>2. /\ a \in 0 .. LastPackDay /\ b \in 0 .. LastPackDay /\ x \in 1 .. 3 /\ y \in 1 .. 3
        /\ (LastPackDay - a) * 4 + x <= (LastPackDay - b) * 4 + y
    BY <1>2, <1>7, <2>1
  <2>3. a > b \/ (a = b /\ x <= y)
    BY <1>1, <2>2
  <2> QED BY <2>1, <2>3
<1>9. PICK k \in DOMAIN found : Preferred(k) /\ k = CHOOSE i_1 \in DOMAIN found : Preferred(i_1)
  <2> HIDE DEF Preferred
  <2> QED BY <1>8
<1>10. Chosen(s, found) = found[k]
  BY <1>9 DEF Chosen, pr
<1> QED BY <1>9, <1>10 DEF pr

LEMMA PackInvTold == PackInv => PackTold
<1> SUFFICES ASSUME PackInv, pack # None PROVE PackTold
  BY DEF PackTold
<1> DEFINE good == {s \in Series : threads[s].found # <<>>}
<1>1. pack.markets = [s \in good |-> Chosen(s, threads[s].found)] /\ pack.failures = Series \ good
  BY DEF PackInv, AnswerOfThreads
<1>2. ASSUME NEW s \in good
      PROVE  /\ \A d \in pack.markets[s].days : CompletedAt(SeriesRegion[s], d) <= cutoff.at
             /\ cutoff.at <= cutoff.asked => pack.markets[s].final
             /\ LET told == pack.markets[s]
                    found == threads[s].found
                IN /\ \A i \in DOMAIN found :
                        \/ found[i].asOf < told.asOf
                        \/ found[i].asOf = told.asOf /\ Priority(s, found[i].provider) >= Priority(s, told.provider)
                   /\ SeriesRegion[s] = "CN" =>
                        \A p \in DOMAIN threads[s].attempts :
                          Priority(s, p) < Priority(s, told.provider)
                            => threads[s].attempts[p] \in {"failed", "not_supported"}
  <2> DEFINE f == threads[s].found
  <2>1. /\ f \in Seq(PackCandidate) /\ f # <<>> /\ DOMAIN threads[s].attempts = PolicyOf(s)
        /\ \A i \in DOMAIN f : f[i].provider \in PolicyOf(s) /\ CandidateFinal(s, f[i])
    BY DEF PackInv, PackTyped, PackThread, CandidatesOfOk
  <2>2. PICK k \in DOMAIN f :
          /\ Chosen(s, f) = f[k]
          /\ \A j \in DOMAIN f :
               \/ f[k].asOf > f[j].asOf
               \/ /\ f[k].asOf = f[j].asOf
                  /\ Priority(s, f[k].provider) <= Priority(s, f[j].provider)
    <3> HIDE DEF f
    <3> QED BY <2>1, ChosenIsBest
  <2>3. pack.markets[s] = f[k]
    BY <1>1, <2>2
  <2>4. \A i \in DOMAIN f : Priority(s, f[i].provider) \in 1 .. 3 /\ f[i].asOf \in Nat
    <3> TAKE i \in DOMAIN f
    <3>1. f[i] \in PackCandidate
      BY <2>1
    <3>2. f[i].asOf \in Nat
      BY <3>1, LastPackDayNat DEF PackCandidate, PackDays
    <3> QED BY <2>1, <3>2, PriorityOfPolicy
  <2>5. \A i \in DOMAIN f :
          \/ f[i].asOf < f[k].asOf
          \/ f[i].asOf = f[k].asOf /\ Priority(s, f[i].provider) >= Priority(s, f[k].provider)
    <3> HIDE DEF f
    <3> QED BY <2>2, <2>4
  <2>6. CandidateFinal(s, f[k])
    BY <2>1, <2>2
  <2>7. SeriesRegion[s] = "CN" =>
          \A p \in PolicyOf(s) :
            Priority(s, p) < Priority(s, f[k].provider) => threads[s].attempts[p] \in {"failed", "not_supported"}
    BY <2>2 DEF PackInv, FirstOfPolicy
  <2> QED BY <2>1, <2>3, <2>5, <2>6, <2>7 DEF CandidateFinal
<1>3. ASSUME NEW s \in pack.failures, NEW p \in DOMAIN threads[s].attempts
      PROVE  threads[s].attempts[p] # "ok"
  <2>1. s \in Series /\ threads[s].found = <<>> /\ p \in PolicyOf(s)
    BY <1>1 DEF PackInv, PackTyped, PackThread
  <2> QED BY <2>1 DEF PackInv, CandidatesOfOk
<1>4. DOMAIN pack.markets = good
  BY <1>1
<1>5. ClosesAreFinal
  BY <1>2, <1>4 DEF ClosesAreFinal
<1>6. ItemsFollowPolicy
  BY <1>2, <1>4 DEF ItemsFollowPolicy
<1> QED BY <1>3, <1>5, <1>6 DEF PackTold

LEMMA PackInitInv == PackInit => PackInv
<1> SUFFICES ASSUME PackInit PROVE PackInv
  OBVIOUS
<1>1. ASSUME NEW s \in Series
      PROVE  /\ threads[s] \in PackThread(s) /\ threads[s].found = <<>>
             /\ \A p \in PolicyOf(s) : threads[s].attempts[p] # "ok"
  <2>1. threads[s] = NewThread(s)
    BY DEF PackInit
  <2>2. NewThread(s).attempts = [p \in PolicyOf(s) |-> IF p \in Identifiers[s] THEN "open" ELSE "not_supported"]
    BY DEF NewThread, PolicyOf
  <2>3. NewThread(s).attempts \in [PolicyOf(s) -> {"open", "not_supported", "failed", "ok"}]
    BY <2>2
  <2>4. NewThread(s) = [attempts |-> NewThread(s).attempts, found |-> <<>>, done |-> FALSE]
    BY DEF NewThread
  <2>5. NewThread(s) \in PackThread(s) /\ NewThread(s).found = <<>>
    <3>1. PICK a \in [PolicyOf(s) -> {"open", "not_supported", "failed", "ok"}] : a = NewThread(s).attempts
      BY <2>3
    <3>2. NewThread(s) = [attempts |-> a, found |-> <<>>, done |-> FALSE]
      BY <2>4, <3>1
    <3> QED BY <3>2 DEF PackThread
  <2> QED BY <2>1, <2>2, <2>5
<1>2. PackTyped
  BY <1>1, PackAssumption DEF PackInit, PackTyped
<1>3. ASSUME NEW s \in Series PROVE CandidatesOfOk(s) /\ FirstOfPolicy(s)
  BY <1>1 DEF CandidatesOfOk, FirstOfPolicy
<1> QED BY <1>2, <1>3 DEF PackInit, PackInv, AnswerOfThreads

\* What a provider's fetch keeps.
LEMMA FetchedFinal ==
  ASSUME PackTyped, cutoff # None, NEW s \in Series, NEW p \in PolicyOf(s),
         NEW first \in Responses(SeriesRegion[s]), NEW second \in Responses(SeriesRegion[s]),
         NEW c
  PROVE  c = Fetched(p, SeriesRegion[s], first, second) /\ c # None
           => c \in PackCandidate /\ c.provider = p /\ CandidateFinal(s, c)
<1> SUFFICES ASSUME c = Fetched(p, SeriesRegion[s], first, second), c # None
             PROVE  c \in PackCandidate /\ c.provider = p /\ CandidateFinal(s, c)
  OBVIOUS
<1> DEFINE region == SeriesRegion[s]
           one == LastTwo(p, region, first)
           two == LastTwo(p, region, second)
           days == IF p = "yahoo_finance" /\ Cardinality(one) < 2 THEN two ELSE one
<1>1. /\ region \in {"US", "CN"} /\ cutoff.at \in Nat /\ cutoff.asked \in Nat /\ cutoff.asked <= packTime
      /\ packTime \in Nat /\ LastPackDay \in Nat
  BY PackAssumption, LastPackDayNat DEF PackTyped
<1>2. \A d \in days : d \in PackDays /\ Complete(p, region, d, cutoff.at)
  BY DEF LastTwo, Responses, PackDays, LastPackDay
<1>3. ~(Cardinality(days) < 2)
  BY DEF Fetched
<1>4. c = [provider |-> p, days |-> days, asOf |-> CHOOSE d \in days : \A e \in days : e <= d,
           final |-> \A d \in days : FinalAt(p, region, d) <= packTime]
  BY <1>3 DEF Fetched
<1> HIDE DEF days, region
<1>5. days # {}
  BY <1>3, FS_EmptySet
<1>6. PICK last \in days : last = CHOOSE d \in days : \A e \in days : e <= d
  <2>1. days \subseteq 0 .. LastPackDay
    BY <1>2 DEF PackDays
  <2>2. \E m \in days : \A n \in days : n <= m
    BY <1>1, <1>5, <2>1, GreatestUpTo
  <2> QED BY <2>2
<1>7. p \in {"fred", "yahoo_finance", "tencent", "eastmoney"}
  BY <1>1 DEF PolicyOf, Providers, region
<1>8. PICK final \in BOOLEAN : final = \A d \in days : FinalAt(p, region, d) <= packTime
  OBVIOUS
<1>9. c = [provider |-> p, days |-> days, asOf |-> last, final |-> final]
  BY <1>4, <1>6, <1>8
<1>10. c \in PackCandidate /\ c.provider = p /\ c.days = days /\ c.final = final
  BY <1>2, <1>6, <1>7, <1>9 DEF PackCandidate
<1>11. ASSUME NEW d \in days
       PROVE  /\ CompletedAt(region, d) <= cutoff.at
              /\ cutoff.at <= cutoff.asked => FinalAt(p, region, d) <= packTime
  <2>1. d \in Nat /\ Complete(p, region, d, cutoff.at)
    BY <1>1, <1>2 DEF PackDays
  <2>2. CASE p = "fred"
    <3>1. region = "US"
      BY <1>1, <2>2 DEF PolicyOf, Providers, region
    <3>2. PICK cut \in Nat : cut = cutoff.at
      BY <1>1
    <3>3. d < cut \div 3
      BY <2>1, <2>2, <3>2 DEF Complete
    <3>4. 3 * (d + 1) <= cut
      BY <2>1, <3>2, <3>3
    <3> QED BY <1>1, <2>1, <2>2, <3>1, <3>2, <3>4 DEF CompletedAt, FinalAt
  <2>3. CASE p # "fred"
    BY <1>1, <2>1, <2>3 DEF Complete, CompletedAt, FinalAt
  <2> QED BY <2>2, <2>3
<1>12. CandidateFinal(s, c)
  BY <1>8, <1>10, <1>11 DEF CandidateFinal, region
<1> QED BY <1>10, <1>12

LEMMA NoteInv ==
  ASSUME PackInv, NEW s \in Series, NEW p, Pending(s, p),
         NEW first \in Responses(SeriesRegion[s]), NEW second \in Responses(SeriesRegion[s]),
         Note(s, p, Fetched(p, SeriesRegion[s], first, second)),
         SeriesRegion[s] = "CN" =>
           /\ threads[s].found = <<>>
           /\ \A i, j \in DOMAIN Providers("CN") :
                i < j /\ Providers("CN")[j] = p => threads[s].attempts[Providers("CN")[i]] # "open"
  PROVE  PackInv'
<1>1. PICK c : c = Fetched(p, SeriesRegion[s], first, second)
  OBVIOUS
<1>2. /\ threads = [t \in Series |-> threads[t]] /\ threads[s] \in PackThread(s)
      /\ \A t \in Series : threads[t] \in PackThread(t)
  BY DEF PackInv, PackTyped
<1>3. /\ cutoff # None /\ ~threads[s].done /\ p \in PolicyOf(s) /\ threads[s].attempts[p] = "open"
      /\ threads[s].attempts \in [PolicyOf(s) -> {"open", "not_supported", "failed", "ok"}]
      /\ threads[s].found \in Seq(PackCandidate) /\ threads[s].done \in BOOLEAN
  BY <1>2 DEF Pending, PackThread
<1>4. c # None => c \in PackCandidate /\ c.provider = p /\ CandidateFinal(s, c)
  <2>1. PackTyped
    BY DEF PackInv
  <2> SUFFICES ASSUME c # None PROVE c \in PackCandidate /\ c.provider = p /\ CandidateFinal(s, c)
    OBVIOUS
  <2>2. p \in PolicyOf(s) /\ cutoff # None
    BY <1>3
  <2>3. first \in Responses(SeriesRegion[s]) /\ second \in Responses(SeriesRegion[s])
    OBVIOUS
  <2>4. c = Fetched(p, SeriesRegion[s], first, second) /\ c # None
           => c \in PackCandidate /\ c.provider = p /\ CandidateFinal(s, c)
    BY <2>1, <2>2, <2>3, FetchedFinal, Zenon
  <2> QED BY <1>1, <2>4
<1>5. PICK att, fnd : /\ att = [threads[s].attempts EXCEPT ![p] = IF c = None THEN "failed" ELSE "ok"]
                      /\ fnd = IF c = None THEN threads[s].found ELSE Append(threads[s].found, c)
  OBVIOUS
<1>6. /\ threads' = [threads EXCEPT ![s] = [threads[s] EXCEPT !.attempts = att, !.found = fnd]]
      /\ UNCHANGED <<packTime, cutoff, pack>>
  BY <1>1, <1>2, <1>3, <1>5 DEF Note
<1>7. /\ att \in [PolicyOf(s) -> {"open", "not_supported", "failed", "ok"}]
      /\ \A q \in PolicyOf(s) : q # p => att[q] = threads[s].attempts[q]
      /\ c = None => att[p] = "failed" /\ fnd = threads[s].found
      /\ c # None => att[p] = "ok"
  BY <1>3, <1>5
<1>8. c # None =>
        /\ fnd \in Seq(PackCandidate) /\ Len(fnd) = Len(threads[s].found) + 1
        /\ DOMAIN fnd = 1 .. (Len(threads[s].found) + 1)
        /\ fnd[Len(threads[s].found) + 1] = c
        /\ \A i \in DOMAIN threads[s].found : fnd[i] = threads[s].found[i]
  BY <1>3, <1>4, <1>5
<1>9. fnd \in Seq(PackCandidate)
  BY <1>3, <1>7, <1>8
<1>10. threads'[s].attempts = att /\ threads'[s].found = fnd /\ threads'[s].done = threads[s].done
  BY <1>2, <1>6 DEF PackThread
<1>11. \A t \in Series : t # s => threads'[t] = threads[t]
  BY <1>2, <1>6
<1>12. PackTyped'
  <2>1. threads' = [t \in Series |-> threads'[t]]
    BY <1>2, <1>6
  <2>2. threads'[s] \in PackThread(s)
    BY <1>2, <1>6, <1>7, <1>9 DEF PackThread
  <2> QED BY <1>2, <1>6, <1>11, <2>1, <2>2 DEF PackInv, PackTyped
<1>13. CandidatesOfOk(s)'
  <2>0. /\ \A i \in DOMAIN threads[s].found :
             threads[s].found[i].provider \in PolicyOf(s) /\ CandidateFinal(s, threads[s].found[i])
        /\ \A q \in PolicyOf(s) :
             threads[s].attempts[q] = "ok" <=> \E i \in DOMAIN threads[s].found : threads[s].found[i].provider = q
    BY DEF PackInv, CandidatesOfOk
  <2>1. CASE c = None
    <3>1. \A q \in PolicyOf(s) : att[q] = "ok" <=> threads[s].attempts[q] = "ok"
      BY <1>3, <1>7, <2>1
    <3> QED BY <1>3, <1>6, <1>7, <1>10, <2>0, <2>1, <3>1 DEF CandidatesOfOk, CandidateFinal
  <2>2. CASE c # None
    <3>1. DOMAIN threads[s].found = 1 .. Len(threads[s].found) /\ Len(threads[s].found) \in Nat
      BY <1>3
    <3>2. \A i \in DOMAIN fnd : fnd[i] = c \/ (i \in DOMAIN threads[s].found /\ fnd[i] = threads[s].found[i])
      BY <1>8, <2>2, <3>1
    <3>3. \A i \in DOMAIN fnd : fnd[i].provider \in PolicyOf(s) /\ CandidateFinal(s, fnd[i])
      BY <1>3, <1>4, <2>0, <2>2, <3>2
    <3>4. ASSUME NEW q \in PolicyOf(s)
          PROVE  att[q] = "ok" <=> \E i \in DOMAIN fnd : fnd[i].provider = q
      <4>1. CASE q = p
        <5>1. Len(threads[s].found) + 1 \in DOMAIN fnd
          BY <1>8, <2>2, <3>1
        <5> QED BY <1>4, <1>7, <1>8, <2>2, <4>1, <5>1
      <4>2. CASE q # p
        <5>1. ASSUME NEW i \in DOMAIN fnd, fnd[i].provider = q
              PROVE  \E k \in DOMAIN threads[s].found : threads[s].found[k].provider = q
          BY <1>4, <2>2, <3>2, <4>2, <5>1
        <5>2. ASSUME NEW i \in DOMAIN threads[s].found, threads[s].found[i].provider = q
              PROVE  \E k \in DOMAIN fnd : fnd[k].provider = q
          BY <1>8, <2>2, <3>1, <5>2
        <5> QED BY <1>7, <2>0, <4>2, <5>1, <5>2
      <4> QED BY <4>1, <4>2
    <3> QED BY <1>3, <1>6, <1>10, <3>3, <3>4 DEF CandidatesOfOk, CandidateFinal
  <2> QED BY <2>1, <2>2
<1>14. FirstOfPolicy(s)'
  <2> SUFFICES ASSUME SeriesRegion[s] = "CN" PROVE FirstOfPolicy(s)'
    BY DEF FirstOfPolicy
  <2>1. threads[s].found = <<>> /\ Len(threads[s].found) = 0
    OBVIOUS
  <2>2. CASE c = None
    BY <1>7, <1>10, <2>1, <2>2 DEF FirstOfPolicy
  <2>3. CASE c # None
    <3>1. Len(fnd) = 1 /\ DOMAIN fnd = {1} /\ fnd[1] = c
      BY <1>8, <2>1, <2>3
    <3>2. ASSUME NEW q \in PolicyOf(s), Priority(s, q) < Priority(s, p)
          PROVE  att[q] \in {"failed", "not_supported"}
      <4>1. q # p
        BY <3>2, <1>3, PriorityOfPolicy
      <4>2. threads[s].attempts[q] # "open"
        BY <1>3, <3>2, PriorityOfPolicy
      <4>3. threads[s].attempts[q] # "ok"
        BY <2>1 DEF PackInv, CandidatesOfOk
      <4> QED BY <1>3, <1>7, <4>1, <4>2, <4>3
    <3> QED BY <1>4, <1>10, <2>3, <3>1, <3>2 DEF FirstOfPolicy
  <2> QED BY <2>2, <2>3
<1>15. ASSUME NEW t \in Series PROVE CandidatesOfOk(t)' /\ FirstOfPolicy(t)'
  <2>1. CASE t # s
    <3>1. CandidatesOfOk(t) /\ FirstOfPolicy(t) /\ threads'[t] = threads[t] /\ cutoff' = cutoff
      BY <1>6, <1>11, <2>1 DEF PackInv
    <3> QED BY <3>1 DEF CandidatesOfOk, FirstOfPolicy, CandidateFinal
  <2> QED BY <1>13, <1>14, <2>1
<1>16. AnswerOfThreads'
  BY <1>3, <1>6 DEF PackInv, AnswerOfThreads
<1> QED BY <1>12, <1>15, <1>16 DEF PackInv

LEMMA PackStepInv == PackInv /\ [PackNext]_packVars => PackInv'
<1> SUFFICES ASSUME PackInv, [PackNext]_packVars PROVE PackInv'
  OBVIOUS
<1>1. CASE PackPass
  <2>1. packTime' = packTime + 1 /\ UNCHANGED <<cutoff, threads, pack>>
    BY <1>1 DEF PackPass
  <2>2. PackTyped'
    BY <2>1 DEF PackInv, PackTyped
  <2>3. \A s \in Series : CandidatesOfOk(s)' /\ FirstOfPolicy(s)'
    BY <2>1 DEF PackInv, CandidatesOfOk, FirstOfPolicy, CandidateFinal
  <2>4. AnswerOfThreads'
    BY <2>1 DEF PackInv, AnswerOfThreads
  <2> QED BY <2>2, <2>3, <2>4 DEF PackInv
<1>2. ASSUME NEW cut \in PackCutoffs, Collect(cut) PROVE PackInv'
  <2>1. cutoff = None /\ cutoff' = [at |-> cut, asked |-> packTime] /\ UNCHANGED <<packTime, threads, pack>>
    BY <1>2 DEF Collect
  <2>2. \A s \in Series : threads[s].found = <<>>
    BY <2>1 DEF PackInv, CandidatesOfOk
  <2>3. cut \in Nat /\ packTime \in Nat
    BY PackAssumption DEF PackInv, PackTyped
  <2>4. PackTyped' /\ AnswerOfThreads'
    BY <2>1, <2>3 DEF PackInv, PackTyped, AnswerOfThreads
  <2>5. \A s \in Series : CandidatesOfOk(s)' /\ FirstOfPolicy(s)'
    BY <2>1, <2>2 DEF PackInv, CandidatesOfOk, FirstOfPolicy
  <2> QED BY <2>4, <2>5 DEF PackInv
<1>3. ASSUME NEW s \in Series, NEW p \in Identifiers[s],
             NEW first \in Responses(SeriesRegion[s]), NEW second \in Responses(SeriesRegion[s]),
             FetchAny(s, p, first, second) \/ FetchNext(s, p, first, second)
      PROVE  PackInv'
  <2>1. /\ Pending(s, p) /\ Note(s, p, Fetched(p, SeriesRegion[s], first, second))
        /\ SeriesRegion[s] = "CN" =>
           /\ threads[s].found = <<>>
           /\ \A i, j \in DOMAIN Providers("CN") :
                i < j /\ Providers("CN")[j] = p => threads[s].attempts[Providers("CN")[i]] # "open"
    BY <1>3 DEF FetchAny, FetchNext
  <2> QED BY <2>1, NoteInv
<1>4. ASSUME NEW s \in Series, EndThread(s) PROVE PackInv'
  <2>1. ~threads[s].done /\ threads' = [threads EXCEPT ![s].done = TRUE] /\ UNCHANGED <<packTime, cutoff, pack>>
    BY <1>4 DEF EndThread
  <2>2. threads = [t \in Series |-> threads[t]] /\ \A t \in Series : threads[t] \in PackThread(t)
    BY DEF PackInv, PackTyped
  <2>3. threads' = [t \in Series |-> threads'[t]] /\ \A t \in Series : t # s => threads'[t] = threads[t]
    BY <2>1, <2>2
  <2>4. /\ threads'[s] \in PackThread(s) /\ threads'[s].attempts = threads[s].attempts
        /\ threads'[s].found = threads[s].found
    BY <2>1, <2>2 DEF PackThread
  <2>5. \A t \in Series : threads'[t].attempts = threads[t].attempts /\ threads'[t].found = threads[t].found
    BY <2>3, <2>4
  <2>6. PackTyped'
    BY <2>1, <2>2, <2>3, <2>4 DEF PackInv, PackTyped
  <2>7. \A t \in Series : CandidatesOfOk(t)' /\ FirstOfPolicy(t)'
    BY <2>1, <2>5 DEF PackInv, CandidatesOfOk, FirstOfPolicy, CandidateFinal
  <2>8. AnswerOfThreads'
    BY <2>1 DEF PackInv, AnswerOfThreads
  <2> QED BY <2>6, <2>7, <2>8 DEF PackInv
<1>5. CASE AnswerPack
  <2>1. UNCHANGED <<packTime, cutoff, threads>> /\ AnswerOfThreads'
    BY <1>5 DEF AnswerPack, AnswerOfThreads
  <2> QED BY <2>1 DEF PackInv, PackTyped, CandidatesOfOk, FirstOfPolicy, CandidateFinal
<1>6. CASE UNCHANGED packVars
  <2>1. UNCHANGED <<packTime, cutoff, threads, pack>>
    BY <1>6 DEF packVars
  <2>2. PackTyped'
    BY <2>1 DEF PackInv, PackTyped
  <2>3. \A s \in Series : CandidatesOfOk(s)' /\ FirstOfPolicy(s)'
    BY <2>1 DEF PackInv, CandidatesOfOk, FirstOfPolicy, CandidateFinal
  <2>4. AnswerOfThreads'
    BY <2>1 DEF PackInv, AnswerOfThreads
  <2> QED BY <2>2, <2>3, <2>4 DEF PackInv
<1> QED BY <1>1, <1>2, <1>3, <1>4, <1>5, <1>6 DEF PackNext

\* Whatever its providers answer and in whatever order, a pack tells only closes that are
\* final at a cutoff that has passed, of the freshest provider and the first of equals, and
\* fails a series only when none of its providers had two. (DailyMarketPackService.collect)
THEOREM PackHolds == PackSpec => []PackTold
<1>1. PackInit => PackInv
  BY PackInitInv
<1>2. PackInv /\ [PackNext]_packVars => PackInv'
  BY PackStepInv
<1>3. PackInv => PackTold
  BY PackInvTold
<1> QED BY <1>1, <1>2, <1>3, PTL DEF PackSpec
-----------------------------------------------------------------------------
(* HkIpoHeat. *)

LEMMA GreatestOfFinite ==
  ASSUME NEW S, S \subseteq Int, IsFiniteSet(S), S # {}
  PROVE  Max(S) \in S /\ \A y \in S : y <= Max(S)
<1> DEFINE Topped(T) == \E m \in T : \A y \in T : m >= y
           Bad == {n \in Nat : \E T \in SUBSET S : T # {} /\ IsFiniteSet(T) /\ Cardinality(T) = n /\ ~Topped(T)}
<1>1. Topped(S)
  <2> SUFFICES ASSUME ~Topped(S) PROVE FALSE
    OBVIOUS
  <2>1. Cardinality(S) \in Bad
    BY FS_CardinalityType
  <2>2. PICK n \in Bad : \A k \in Bad : n <= k
    <3>1. Bad \subseteq Nat
      OBVIOUS
    <3> HIDE DEF Bad
    <3> QED BY <2>1, <3>1, LeastNat
  <2>3. PICK T \in SUBSET S : T # {} /\ IsFiniteSet(T) /\ Cardinality(T) = n /\ ~Topped(T)
    OBVIOUS
  <2>4. PICK x : x \in T /\ x \in Int
    BY <2>3
  <2> DEFINE U == T \ {x}
  <2>5. IsFiniteSet(U) /\ Cardinality(U) = n - 1
    BY <2>3, <2>4, FS_RemoveElement
  <2>6. CASE U = {}
    <3>1. T = {x}
      BY <2>4, <2>6
    <3>2. Topped(T)
      BY <2>4, <3>1
    <3> QED BY <2>3, <3>2
  <2>7. CASE U # {} /\ Topped(U)
    <3>1. PICK m \in U : \A y \in U : m >= y
      BY <2>7
    <3>2. \A y \in T : y = x \/ y \in U
      OBVIOUS
    <3>3. m \in Int /\ m \in T
      OBVIOUS
    <3>4. CASE m >= x
      BY <2>3, <3>1, <3>2, <3>3, <3>4
    <3>5. CASE x >= m
      <4>1. \A y \in T : x >= y
        BY <2>4, <3>1, <3>2, <3>3, <3>5
      <4> QED BY <2>3, <2>4, <4>1
    <3> QED BY <2>4, <3>3, <3>4, <3>5
  <2>8. CASE U # {} /\ ~Topped(U)
    <3>1. n \in Nat /\ n - 1 \in Nat
      <4>1. Cardinality(U) \in Nat
        BY <2>5, FS_CardinalityType
      <4> QED BY <2>5, <4>1
    <3>2. n - 1 \in Bad
      <4>1. U \in SUBSET S
        OBVIOUS
      <4> HIDE DEF U, Topped
      <4> QED BY <2>5, <2>8, <3>1, <4>1
    <3>3. n <= n - 1
      <4> HIDE DEF Bad
      <4> QED BY <2>2, <3>2
    <3> QED BY <3>1, <3>3
  <2> QED BY <2>6, <2>7, <2>8
<1>2. Max(S) \in S /\ \A y \in S : Max(S) >= y
  BY <1>1 DEF Max
<1> QED BY <1>2

\* What a function takes every value of on a finite set is finite.
LEMMA FiniteValues ==
  ASSUME NEW S, IsFiniteSet(S), NEW T, NEW f \in [S -> T], \A y \in T : \E x \in S : f[x] = y
  PROVE  IsFiniteSet(T)
<1>1. f \in Surjection(S, T)
  BY DEF Surjection
<1> QED BY <1>1, FS_Surjection

Multiple == {"margin_multiple", "subscription_multiple"}

\* Evidence is finite, and a multiple is a number.
WellMade(evidence) ==
  IsFiniteSet(evidence) /\ \A e \in evidence : e.field \in Multiple => e.value \in Int

MultiplesOf(evidence) == {e.value : e \in {u \in Usable(evidence) : u.field \in Multiple}}

\* The steps of _score_subscription_heat.
StepOf(best) == IF best >= 100 THEN 20 ELSE IF best >= 50 THEN 17
                ELSE IF best >= 20 THEN 14 ELSE IF best >= 10 THEN 10 ELSE 6

LEMMA ScoreBySteps ==
  ASSUME NEW E
  PROVE  Score(E) = IF Usable(E) = {} THEN 0 ELSE IF MultiplesOf(E) = {} THEN 4 ELSE StepOf(Max(MultiplesOf(E)))
BY DEF Score, MultiplesOf, Multiple, StepOf

\* More evidence never lowers the score or the quality.
LEMMA ScoreGrows ==
  ASSUME NEW D, NEW E, D \subseteq E, WellMade(D), WellMade(E)
  PROVE  Score(E) >= Score(D) /\ HeatQuality(E) >= HeatQuality(D)
<1>1. Usable(D) \subseteq Usable(E) /\ Usable(E) \subseteq E
  BY DEF Usable
<1>2. MultiplesOf(D) \subseteq MultiplesOf(E)
  BY <1>1 DEF MultiplesOf
<1>3. MultiplesOf(E) \subseteq Int /\ IsFiniteSet(MultiplesOf(E))
  <2> DEFINE V == {u \in Usable(E) : u.field \in Multiple}
  <2>1. V \subseteq E
    BY <1>1
  <2>2. IsFiniteSet(V)
    BY <2>1, FS_Subset DEF WellMade
  <2>3. IsFiniteSet({e.value : e \in V})
    <3> DEFINE f == [e \in V |-> e.value]
               R == {e.value : e \in V}
    <3>1. f \in [V -> R] /\ \A y \in R : \E e \in V : f[e] = y
      OBVIOUS
    <3> HIDE DEF V, f, R
    <3>2. IsFiniteSet(R)
      BY <2>2, <3>1, FiniteValues
    <3> QED BY <3>2 DEF R
  <2>4. \A e \in V : e.value \in Int
    BY <2>1 DEF WellMade
  <2> QED BY <2>3, <2>4 DEF MultiplesOf
<1>4. MultiplesOf(D) \subseteq Int /\ IsFiniteSet(MultiplesOf(D))
  BY <1>2, <1>3, FS_Subset
<1>5. Score(E) >= Score(D)
  <2>1. CASE MultiplesOf(D) # {}
    <3>1. PICK a, b \in Int : a = Max(MultiplesOf(D)) /\ b = Max(MultiplesOf(E)) /\ a <= b
      <4>1. /\ Max(MultiplesOf(D)) \in MultiplesOf(D)
            /\ Max(MultiplesOf(E)) \in MultiplesOf(E) /\ \A y \in MultiplesOf(E) : y <= Max(MultiplesOf(E))
        BY <1>2, <1>3, <1>4, <2>1, GreatestOfFinite
      <4> QED BY <1>2, <1>3, <4>1
    <3>2. Usable(D) # {} /\ Usable(E) # {} /\ MultiplesOf(E) # {}
      BY <1>1, <1>2, <2>1 DEF MultiplesOf
    <3>3. Score(D) = StepOf(a) /\ Score(E) = StepOf(b)
      BY <2>1, <3>1, <3>2, ScoreBySteps
    <3>4. StepOf(b) >= StepOf(a)
      BY <3>1 DEF StepOf
    <3> QED BY <3>3, <3>4
  <2>2. CASE MultiplesOf(D) = {}
    <3>1. Score(D) \in {0, 4} /\ (Score(D) = 4 => Usable(E) # {})
      BY <1>1, <2>2, ScoreBySteps
    <3>2. Score(E) \in {0, 4, 6, 10, 14, 17, 20} /\ (Usable(E) # {} => Score(E) # 0)
      BY ScoreBySteps DEF StepOf
    <3> QED BY <3>1, <3>2
  <2> QED BY <2>1, <2>2
<1>6. HeatQuality(E) >= HeatQuality(D)
  <2>1. IsFiniteSet(Usable(E)) /\ IsFiniteSet(Usable(D))
    BY <1>1, FS_Subset DEF WellMade
  <2>2. /\ Cardinality(Usable(E)) \in Nat /\ Cardinality(Usable(D)) \in Nat
        /\ Cardinality(Usable(D)) <= Cardinality(Usable(E))
    BY <1>1, <2>1, FS_CardinalityType, FS_Subset
  <2>3. Usable(D) # {} => Usable(E) # {} /\ Cardinality(Usable(D)) # 0
    BY <1>1, <2>1, FS_EmptySet
  <2>4. PICK c, d \in Nat : c = Cardinality(Usable(D)) /\ d = Cardinality(Usable(E)) /\ c <= d
    BY <2>2
  <2>5. HeatQuality(D) = IF Usable(D) = {} THEN 0 ELSE IF c = 1 THEN 1 ELSE 2
    <3>1. CASE Usable(D) = {}
      BY <2>4, <3>1, FS_EmptySet DEF HeatQuality
    <3>2. CASE Usable(D) # {} /\ c = 1
      BY <2>4, <3>2 DEF HeatQuality
    <3>3. CASE Usable(D) # {} /\ c # 1
      BY <2>4, <3>3 DEF HeatQuality
    <3> QED BY <3>1, <3>2, <3>3
  <2>6. HeatQuality(E) = IF Usable(E) = {} THEN 0 ELSE IF d = 1 THEN 1 ELSE 2
    <3>1. CASE Usable(E) = {}
      BY <2>4, <3>1, FS_EmptySet DEF HeatQuality
    <3>2. CASE Usable(E) # {} /\ d = 1
      BY <2>4, <3>2 DEF HeatQuality
    <3>3. CASE Usable(E) # {} /\ d # 1
      BY <2>4, <3>3 DEF HeatQuality
    <3> QED BY <3>1, <3>2, <3>3
  <2> QED BY <2>3, <2>4, <2>5, <2>6
<1> QED BY <1>5, <1>6

LEMMA StatusesGrow ==
  ASSUME NEW D, NEW E, D \subseteq E
  PROVE  StructureStatus(E) >= StructureStatus(D) /\ ValuationStatus(E) >= ValuationStatus(D)
<1>1. AttributedFields(D) \subseteq AttributedFields(E)
  BY DEF AttributedFields
<1>2. StructureStatus(E) >= StructureStatus(D)
  <2>1. AttributedFields(D) # {} => AttributedFields(E) # {}
    BY <1>1
  <2>2. \A S : S \subseteq AttributedFields(D) => S \subseteq AttributedFields(E)
    BY <1>1
  <2> QED BY <2>1, <2>2 DEF StructureStatus
<1>3. ValuationStatus(E) >= ValuationStatus(D)
  <2>1. AttributedFields(D) # {} => AttributedFields(E) # {}
    BY <1>1
  <2>2. \A S : S \subseteq AttributedFields(D) => S \subseteq AttributedFields(E)
    BY <1>1
  <2>3. \A S : AttributedFields(D) \cap S # {} => AttributedFields(E) \cap S # {}
    BY <1>1
  <2> QED BY <2>1, <2>2, <2>3 DEF ValuationStatus
<1> QED BY <1>2, <1>3

FailedFetch(i) == [Nothing EXCEPT !.errors = {i}]

\* What may come of the fetch of a candidate.
ResultsOf(i) == {Extracted(i, page) : page \in Contents(i)} \cup {FailedFetch(i)}

HeatResult == UNION {ResultsOf(i) : i \in Candidate}
HeatRow == {Merged(results) : results \in [Candidate -> HeatResult]}

HeatInv ==
  /\ answered \in [Candidate -> HeatResult \cup {None}]
  /\ heatRows \in Seq(HeatRow \cup {None})
  /\ heatReport # None => /\ scanAt > Len(HeatPool)
                          /\ heatReport.rows = [n \in Scanned |-> Told(heatRows[n])]

LEMMA ResultWellMade ==
  ASSUME NEW i \in Candidate, NEW x \in ResultsOf(i)
  PROVE  WellMade(x.evidence) /\ x.errors \subseteq Candidate
<1>1. CASE x = FailedFetch(i)
  <2>1. x.evidence = {} /\ x.errors = {i}
    BY <1>1 DEF FailedFetch, Nothing
  <2> QED BY <2>1, FS_EmptySet DEF WellMade
<1>2. ASSUME NEW page \in Contents(i), x = Extracted(i, page)
      PROVE  WellMade(x.evidence) /\ x.errors \subseteq Candidate
  <2>1. CASE HeatSources[i].tracker
    <3>1. x.evidence = TrackerEvidence(i, page) /\ x.errors = {} /\ page \in Records
      BY <1>2, <2>1 DEF Extracted, Nothing, Contents
    <3>2. CASE ~page.matches
      BY <3>1, <3>2, FS_EmptySet DEF TrackerEvidence, WellMade
    <3>3. CASE page.matches
      <4> DEFINE a == Entry(i, "margin_multiple", page.multiple, page.observed)
                 b == Entry(i, "margin_amount_hkd_yi", page.amount, page.observed)
      <4>1. TrackerEvidence(i, page) = {e \in {a, b} : e.value # None}
        BY <3>3 DEF TrackerEvidence
      <4>2. IsFiniteSet({a, b})
        <5>1. {a, b} = {a} \cup {b}
          OBVIOUS
        <5> HIDE DEF a, b
        <5>2. IsFiniteSet({a}) /\ IsFiniteSet({b})
          BY FS_Singleton
        <5>3. IsFiniteSet({a} \cup {b})
          BY <5>2, FS_Union
        <5> QED BY <5>1, <5>3
      <4>3. page.multiple \in Int \cup {None} /\ page.amount \in Int \cup {None}
        BY <3>1, <3>3, HeatAssumption
      <4>4. a.value = page.multiple /\ b.value = page.amount
        BY DEF Entry
      <4> HIDE DEF a, b
      <4>5. IsFiniteSet(TrackerEvidence(i, page))
        BY <4>1, <4>2, FS_Subset
      <4>6. \A e \in TrackerEvidence(i, page) : e.value \in Int
        BY <4>1, <4>3, <4>4
      <4> QED BY <3>1, <4>5, <4>6 DEF WellMade
    <3> QED BY <3>2, <3>3
  <2>2. CASE ~HeatSources[i].tracker
    <3>1. x.evidence = HeatEvidence(i, page) /\ x.errors = {} /\ page \in Pages
      BY <1>2, <2>2 DEF Extracted, Nothing, Contents
    <3> DEFINE f == [field \in DOMAIN page.heat |-> Entry(i, field, page.heat[field], PageTime(i, page))]
    <3>2. IsFiniteSet(DOMAIN page.heat) /\ \A field \in DOMAIN page.heat : page.heat[field] \in Int
      BY <3>1, HeatAssumption
    <3>3. HeatEvidence(i, page) = {f[field] : field \in DOMAIN page.heat}
      BY DEF HeatEvidence
    <3>4. \A field \in DOMAIN page.heat : f[field].value \in Int
      BY <3>2 DEF Entry
    <3>5. IsFiniteSet(HeatEvidence(i, page))
      <4>1. f \in [DOMAIN page.heat -> HeatEvidence(i, page)]
        BY <3>3
      <4>2. \A y \in HeatEvidence(i, page) : \E field \in DOMAIN page.heat : f[field] = y
        BY <3>3
      <4> HIDE DEF f
      <4> QED BY <3>2, <4>1, <4>2, FiniteValues
    <3> HIDE DEF f
    <3> QED BY <3>1, <3>3, <3>4, <3>5 DEF WellMade
  <2> QED BY <2>1, <2>2
<1> QED BY <1>1, <1>2 DEF ResultsOf

LEMMA ResultsWellMade ==
  ASSUME NEW x \in HeatResult
  PROVE  WellMade(x.evidence) /\ x.errors \subseteq Candidate
<1>1. PICK i \in Candidate : x \in ResultsOf(i)
  BY DEF HeatResult
<1> QED BY <1>1, ResultWellMade

LEMMA RowWellMade ==
  ASSUME NEW line \in HeatRow
  PROVE  WellMade(line.evidence) /\ line.errors \subseteq Candidate
<1>1. PICK results \in [Candidate -> HeatResult] : line = Merged(results)
  BY DEF HeatRow
<1> DEFINE R == {results[i].evidence : i \in Candidate}
           f == [i \in Candidate |-> results[i].evidence]
<1>2. line.evidence = UNION R /\ line.errors = UNION {results[i].errors : i \in Candidate}
  BY <1>1 DEF Merged
<1>3. \A i \in Candidate : WellMade(results[i].evidence) /\ results[i].errors \subseteq Candidate
  BY <1>1, ResultsWellMade
<1>4. f \in [Candidate -> R] /\ \A y \in R : \E i \in Candidate : f[i] = y
  OBVIOUS
<1>5. \A T \in R : WellMade(T)
  BY <1>3
<1>6. line.errors \subseteq Candidate
  BY <1>2, <1>3
<1>7. IsFiniteSet(Candidate)
  <2>1. Candidate = 1..Len(HeatSources) /\ Len(HeatSources) \in Nat
    BY HeatAssumption DEF Candidate
  <2> QED BY <2>1, FS_Interval
<1> HIDE DEF R, f
<1>8. IsFiniteSet(R)
  BY <1>4, <1>7, FiniteValues
<1>9. IsFiniteSet(UNION R)
  BY <1>5, <1>8, FS_UNION DEF WellMade
<1>10. WellMade(UNION R)
  BY <1>5, <1>9 DEF WellMade
<1> QED BY <1>2, <1>6, <1>10

LEMMA HeatInitInv == HeatInit => HeatInv
<1> SUFFICES ASSUME HeatInit PROVE HeatInv
  OBVIOUS
<1>1. answered \in [Candidate -> HeatResult \cup {None}]
  BY DEF HeatInit
<1>2. heatRows \in Seq(HeatRow \cup {None}) /\ heatReport = None
  BY DEF HeatInit
<1> QED BY <1>1, <1>2 DEF HeatInv

\* An answer is put in its place.
LEMMA AnswerInPlace ==
  ASSUME NEW S, answered \in [Candidate -> S], NEW i \in Candidate, NEW x \in S,
         answered' = [answered EXCEPT ![i] = x]
  PROVE  answered' \in [Candidate -> S]
OBVIOUS

LEMMA HeatStepInv == HeatInv /\ [HeatNext]_heatVars => HeatInv'
<1> SUFFICES ASSUME HeatInv, [HeatNext]_heatVars PROVE HeatInv'
  OBVIOUS
<1>T. /\ answered \in [Candidate -> HeatResult \cup {None}]
      /\ heatRows \in Seq(HeatRow \cup {None})
  BY DEF HeatInv
<1>L. Len(HeatPool) \in Nat /\ DOMAIN HeatPool = 1..Len(HeatPool)
  BY HeatAssumption
<1>N. ASSUME scanAt \in DOMAIN HeatPool PROVE heatReport = None
  BY <1>L, <1>N DEF HeatInv
<1>1. CASE LeaveOut
  <2>1. heatReport = None /\ heatReport' = None
    BY <1>1, <1>N DEF LeaveOut
  <2>2. heatRows' \in Seq(HeatRow \cup {None})
    BY <1>1, <1>T DEF LeaveOut
  <2>3. answered' = answered
    BY <1>1 DEF LeaveOut
  <2> QED BY <1>T, <2>1, <2>2, <2>3 DEF HeatInv
<1>2. CASE EndScan
  <2>1. heatReport = None /\ heatReport' = None
    BY <1>2, <1>N DEF EndScan
  <2>2. Merged(answered) \in HeatRow
    <3>1. answered \in [Candidate -> HeatResult]
      BY <1>2, <1>T DEF EndScan
    <3> QED BY <3>1 DEF HeatRow
  <2>3. heatRows' \in Seq(HeatRow \cup {None})
    BY <1>2, <1>T, <2>2 DEF EndScan
  <2>4. answered' \in [Candidate -> HeatResult \cup {None}]
    BY <1>2 DEF EndScan
  <2> QED BY <2>1, <2>3, <2>4 DEF HeatInv
<1>3. CASE AnswerHeat
  <2>1. UNCHANGED <<scanAt, answered, heatRows>> /\ scanAt > Len(HeatPool)
    BY <1>3 DEF AnswerHeat
  <2>2. heatReport'.rows = [n \in Scanned |-> Told(heatRows[n])]
    BY <1>3 DEF AnswerHeat
  <2>3. Scanned' = Scanned
    BY <2>1 DEF Scanned
  <2>4. [n \in Scanned |-> Told(heatRows[n])]' = [n \in Scanned |-> Told(heatRows[n])]
    BY <2>1, <2>3
  <2> QED BY <1>T, <2>1, <2>2, <2>4 DEF HeatInv
<1>4. ASSUME NEW i \in Candidate, NEW page \in Contents(i), PageAnswers(i, page) PROVE HeatInv'
  <2>1. heatReport = None /\ heatReport' = None /\ heatRows' = heatRows
    BY <1>4, <1>N DEF PageAnswers, Scanning
  <2>2. Extracted(i, page) \in HeatResult
    BY <1>4 DEF HeatResult, ResultsOf
  <2>3. answered' \in [Candidate -> HeatResult \cup {None}]
    BY <1>4, <1>T, <2>2, AnswerInPlace DEF PageAnswers
  <2> QED BY <1>T, <2>1, <2>3 DEF HeatInv
<1>5. ASSUME NEW i \in Candidate, PageFails(i) PROVE HeatInv'
  <2>1. heatReport = None /\ heatReport' = None /\ heatRows' = heatRows
    BY <1>5, <1>N DEF PageFails, Scanning
  <2>2. FailedFetch(i) \in HeatResult
    BY <1>5 DEF HeatResult, ResultsOf
  <2>3. answered' = [answered EXCEPT ![i] = FailedFetch(i)]
    BY <1>5 DEF PageFails, FailedFetch
  <2>4. answered' \in [Candidate -> HeatResult \cup {None}]
    BY <1>5, <1>T, <2>2, <2>3, AnswerInPlace
  <2> QED BY <1>T, <2>1, <2>4 DEF HeatInv
<1>6. CASE UNCHANGED heatVars
  <2>1. UNCHANGED <<scanAt, answered, heatRows, heatReport>>
    BY <1>6 DEF heatVars
  <2>2. Scanned' = Scanned
    BY <2>1 DEF Scanned
  <2>3. [n \in Scanned |-> Told(heatRows[n])]' = [n \in Scanned |-> Told(heatRows[n])]
    BY <2>1, <2>2
  <2> QED BY <2>1, <2>3 DEF HeatInv
<1> QED BY <1>1, <1>2, <1>3, <1>4, <1>5, <1>6 DEF HeatNext

LEMMA HeatInvCosts == HeatInv => FailureOnlyCosts
<1> SUFFICES ASSUME HeatInv, heatReport # None, NEW n \in DOMAIN heatReport.rows,
                    NEW i \in heatRows[n].errors, NEW page \in Contents(i)
             PROVE  LET more == Extracted(i, page)
                        better == Told([evidence |-> heatRows[n].evidence \cup more.evidence,
                                        structure |-> heatRows[n].structure \cup more.structure,
                                        valuation |-> heatRows[n].valuation \cup more.valuation])
                    IN \A part \in DOMAIN better : better[part] >= heatReport.rows[n][part]
  BY DEF FailureOnlyCosts
<1>1. n \in Scanned /\ heatReport.rows[n] = Told(heatRows[n])
  BY DEF HeatInv
<1>2. heatRows[n] \in HeatRow
  BY <1>1 DEF HeatInv, Scanned
<1>3. WellMade(heatRows[n].evidence) /\ i \in Candidate
  BY <1>2, RowWellMade
<1> DEFINE more == Extracted(i, page)
           E == heatRows[n].evidence
           more_E == E \cup more.evidence
           more_S == heatRows[n].structure \cup more.structure
           more_V == heatRows[n].valuation \cup more.valuation
<1>4. WellMade(more.evidence)
  <2>1. more \in ResultsOf(i)
    BY DEF ResultsOf
  <2> QED BY <1>3, <2>1, ResultWellMade
<1>5. WellMade(more_E)
  <2>1. IsFiniteSet(more_E)
    BY <1>3, <1>4, FS_Union DEF WellMade
  <2> QED BY <1>3, <1>4, <2>1 DEF WellMade
<1>6. Score(more_E) >= Score(E) /\ HeatQuality(more_E) >= HeatQuality(E)
  <2>1. E \subseteq more_E
    OBVIOUS
  <2> HIDE DEF E, more_E
  <2> QED BY <1>3, <1>5, <2>1, ScoreGrows DEF E
<1>7. /\ StructureStatus(more_S) >= StructureStatus(heatRows[n].structure)
      /\ ValuationStatus(more_V) >= ValuationStatus(heatRows[n].valuation)
  <2>1. heatRows[n].structure \subseteq more_S /\ heatRows[n].valuation \subseteq more_V
    OBVIOUS
  <2> HIDE DEF more_S, more_V
  <2> QED BY <2>1, StatusesGrow
<1> DEFINE better == Told([evidence |-> more_E, structure |-> more_S, valuation |-> more_V])
<1>8. /\ better = [score |-> Score(more_E), quality |-> HeatQuality(more_E),
                   structure |-> StructureStatus(more_S), valuation |-> ValuationStatus(more_V)]
      /\ heatReport.rows[n] =
           [score |-> Score(E), quality |-> HeatQuality(E),
            structure |-> StructureStatus(heatRows[n].structure),
            valuation |-> ValuationStatus(heatRows[n].valuation)]
  BY <1>1 DEF Told
<1>9. \A part \in DOMAIN better : better[part] >= heatReport.rows[n][part]
  <2> HIDE DEF better, E, more_E, more_S, more_V
  <2> QED BY <1>6, <1>7, <1>8
<1> QED BY <1>9

\* Whatever the pages say and whichever of them fail, a failed source never raised a score,
\* a quality or a status: the page it would have fetched could only have raised them.
\* (hkipo-heat-scan: _scan_one, normalize_scan_payload)
THEOREM HeatHolds == HeatSpec => []FailureOnlyCosts
<1>1. HeatInit => HeatInv
  BY HeatInitInv
<1>2. HeatInv /\ [HeatNext]_heatVars => HeatInv'
  BY HeatStepInv
<1>3. HeatInv => FailureOnlyCosts
  BY HeatInvCosts
<1> QED BY <1>1, <1>2, <1>3, PTL DEF HeatSpec
-----------------------------------------------------------------------------
(* SyncRuns. *)

BarsOf(s, h) == WindowDays(s, StartDay, h)

\* `got` are those of s up to some day, and no later than `upTo`.
Unbroken(s, got, upTo) == \E h \in Int : h <= upTo /\ got = BarsOf(s, h)

\* A symbol that a run for the target has fetched, or has no call to fetch.
Accounted(got, s, target, fetched) ==
  \/ s \in fetched
  \/ /\ got # {}
     /\ \/ target = None
        \/ \E d \in Halts[s] : Max(got) < d /\ d <= target
        \/ BarsOf(s, target - Grace) \subseteq got

SyncDays == Nat \cup {None}
Passed(target) == target = None \/ target <= syncDay

SyncTyped == /\ syncDay \in Nat /\ held \in [SyncSymbols -> SUBSET Nat] /\ synced \subseteq SyncSymbols
             /\ \A s \in SyncSymbols : Unbroken(s, held[s], syncDay)

\* What a run in progress owes no more.
SettledBy(run) ==
  IF run.path = "daily" THEN SyncSymbols \ (run.left \cup run.failed) ELSE SyncSymbols

\* What a run of the path may take for fetched: a daily_basic run fetches no bars.
FetchedBy(path, before, done) ==
  IF path = "skip" THEN before ELSE IF path = "daily" THEN done ELSE {}

RunInv ==
  syncing # None =>
    /\ syncing \in [path : {"skip", "daily", "daily_basic"}, target : SyncDays, left : SUBSET SyncSymbols,
                    done : SUBSET SyncSymbols, failed : SUBSET SyncSymbols]
    /\ Passed(syncing.target)
    /\ \E processed : latest = [status |-> "running", processed |-> processed, state |-> None]
    /\ \A s \in SettledBy(syncing) :
         Accounted(held[s], s, syncing.target, FetchedBy(syncing.path, synced, syncing.done))

LatestInv ==
  latest # None /\ latest.status \in {"completed", "skipped"} =>
    /\ latest.state.target \in SyncDays /\ Passed(latest.state.target)
    /\ \A s \in SyncSymbols : Accounted(held[s], s, latest.state.target, synced)

SyncInv == SyncTyped /\ RunInv /\ LatestInv

LEMMA SyncTypes == /\ StartDay \in Nat /\ Grace \in Nat /\ Grace >= 1 /\ Backtrack \in Nat
                   /\ \A s \in SyncSymbols : Trades[s] \subseteq Nat /\ Halts[s] \subseteq Nat
BY SyncAssumption

LEMMA LastOfBars ==
  ASSUME NEW s \in SyncSymbols, NEW h \in Int, BarsOf(s, h) # {}
  PROVE  Max(BarsOf(s, h)) \in BarsOf(s, h) /\ \A d \in BarsOf(s, h) : d <= Max(BarsOf(s, h))
<1>1. BarsOf(s, h) \subseteq StartDay..h
  BY SyncTypes DEF BarsOf, WindowDays
<1>2. IsFiniteSet(StartDay..h)
  BY SyncTypes, FS_Interval
<1>3. IsFiniteSet(BarsOf(s, h))
  BY <1>1, <1>2, FS_Subset
<1>4. BarsOf(s, h) \subseteq Int
  BY <1>1
<1> QED BY <1>3, <1>4, GreatestOfFinite

Later(a, b) == IF a <= b THEN b ELSE a

\* What a fetch from the start, or from some day before the last bar, adds to unbroken bars.
LEMMA BarsGrow ==
  ASSUME NEW s \in SyncSymbols, NEW h \in Int, NEW from \in Int, NEW upTo \in Int,
         from >= StartDay, from = StartDay \/ from <= h
  PROVE  BarsOf(s, h) \cup WindowDays(s, from, upTo) = BarsOf(s, Later(h, upTo))
<1>1. \A d \in Trades[s] : d >= from \/ d <= h \/ d < StartDay
  BY SyncTypes
<1>2. CASE h <= upTo
  BY <1>1, <1>2, SyncTypes DEF BarsOf, WindowDays, Later
<1>3. CASE ~(h <= upTo)
  BY <1>1, <1>3, SyncTypes DEF BarsOf, WindowDays, Later
<1> QED BY <1>2, <1>3

\* A symbol with bars that is not behind the target misses none beyond the grace.
LEMMA NotBehind ==
  ASSUME SyncTyped, NEW s \in SyncSymbols, NEW target \in Nat, held[s] # {}, ~Behind(s, target)
  PROVE  target = None \/ BarsOf(s, target - Grace) \subseteq held[s]
<1> SUFFICES ASSUME target # None, NEW d \in BarsOf(s, target - Grace), d \notin held[s] PROVE FALSE
  OBVIOUS
<1>1. PICK h \in Int : held[s] = BarsOf(s, h)
  BY DEF SyncTyped, Unbroken
<1>2. Max(held[s]) <= h /\ Max(held[s]) \in Int
  <2>1. Max(BarsOf(s, h)) \in BarsOf(s, h)
    BY <1>1, LastOfBars
  <2> QED BY <1>1, <2>1, SyncTypes DEF BarsOf, WindowDays
<1>3. d > h /\ d <= target - Grace /\ d \in Nat
  BY <1>1, SyncTypes DEF BarsOf, WindowDays
<1>4. Max(held[s]) < target - Grace
  BY <1>2, <1>3, SyncTypes
<1> QED BY <1>4 DEF Behind, LastBar

\* A symbol that is no candidate and not stale is accounted for.
LEMMA NoCandidate ==
  ASSUME SyncTyped, NEW s \in SyncSymbols, NEW target \in SyncDays, NEW replied, NEW fetched,
         held[s] # {}, Behind(s, target) => Exempt(s, target, replied)
  PROVE  Accounted(held[s], s, target, fetched)
<1>1. CASE target = None
  BY <1>1 DEF Accounted
<1>2. CASE target # None /\ Behind(s, target)
  BY <1>2 DEF Accounted, Exempt, LastBar
<1>3. CASE target # None /\ ~Behind(s, target)
  <2>1. BarsOf(s, target - Grace) \subseteq held[s]
    BY <1>3, NotBehind DEF SyncDays
  <2> QED BY <2>1 DEF Accounted
<1> QED BY <1>1, <1>2, <1>3

LEMMA MoreFetched ==
  ASSUME NEW got, NEW s, NEW target, NEW fetched, NEW more, fetched \subseteq more,
         Accounted(got, s, target, fetched)
  PROVE  Accounted(got, s, target, more)
BY DEF Accounted

\* A fetch that lands the bars up to yesterday or today leaves all accounts in order.
LEMMA LandKeeps ==
  ASSUME SyncTyped, NEW s \in SyncSymbols, NEW from \in Int, NEW upTo \in Int,
         from >= StartDay, from = StartDay \/ \E d \in held[s] : from <= d,
         syncDay - 1 <= upTo, upTo <= syncDay,
         syncDay' = syncDay, synced' = synced,
         held' = [held EXCEPT ![s] = held[s] \cup WindowDays(s, from, upTo)]
  PROVE  /\ SyncTyped'
         /\ \A t \in SyncSymbols, target \in SyncDays, fetched \in SUBSET SyncSymbols :
              Passed(target) /\ Accounted(held[t], t, target, fetched)
                => Accounted(held'[t], t, target, fetched)
<1>1. PICK h \in Int : h <= syncDay /\ held[s] = BarsOf(s, h)
  BY DEF SyncTyped, Unbroken
<1> DEFINE k == Later(h, upTo)
<1>2. k \in Int /\ h <= k /\ upTo <= k /\ k <= syncDay
  BY <1>1 DEF Later, SyncTyped
<1>b. BarsOf(s, h) \cup WindowDays(s, from, upTo) = BarsOf(s, k)
  <2>1. from = StartDay \/ from <= h
    <3>1. \A d \in held[s] : d \in Nat /\ d <= h
      BY <1>1, SyncTypes DEF BarsOf, WindowDays
    <3> QED BY <3>1
  <2> QED BY <1>1, <2>1, BarsGrow
<1> HIDE DEF k
<1>3. k \in Int /\ k <= syncDay /\ held'[s] = BarsOf(s, k)
  BY <1>1, <1>2, <1>b DEF SyncTyped
<1>4. \A t \in SyncSymbols : t # s => held'[t] = held[t]
  BY DEF SyncTyped
<1>5. SyncTyped'
  <2>1. held' \in [SyncSymbols -> SUBSET Nat]
    BY <1>2, SyncTypes DEF SyncTyped, WindowDays
  <2>2. ASSUME NEW t \in SyncSymbols PROVE Unbroken(t, held'[t], syncDay)
    BY <1>3, <1>4 DEF SyncTyped, Unbroken
  <2> QED BY <2>1, <2>2 DEF SyncTyped
<1>6. ASSUME NEW target \in SyncDays, NEW fetched \in SUBSET SyncSymbols, Passed(target), Accounted(held[s], s, target, fetched)
      PROVE  Accounted(held'[s], s, target, fetched)
  <2>1. CASE s \in fetched
    BY <2>1 DEF Accounted
  <2>2. CASE held[s] # {}
    <3>1. held'[s] # {}
      BY <1>1, <1>b, <1>3, <2>2
    <3>2. target # None => BarsOf(s, target - Grace) \subseteq held'[s]
      <4> SUFFICES ASSUME target # None PROVE BarsOf(s, target - Grace) \subseteq BarsOf(s, k)
        BY <1>3
      <4>1. target \in Nat /\ target <= syncDay /\ syncDay \in Nat
        BY <1>6 DEF SyncDays, Passed, SyncTyped
      <4>2. target - Grace <= k
        BY <1>2, <1>3, <4>1, SyncTypes
      <4> QED BY <1>3, <4>1, <4>2, SyncTypes DEF BarsOf, WindowDays
    <3> QED BY <3>1, <3>2 DEF Accounted
  <2> QED BY <1>6, <2>1, <2>2 DEF Accounted
<1>7. ASSUME NEW t \in SyncSymbols, NEW target \in SyncDays, NEW fetched \in SUBSET SyncSymbols,
             Passed(target), Accounted(held[t], t, target, fetched)
      PROVE  Accounted(held'[t], t, target, fetched)
  <2>1. CASE t = s
    BY <1>6, <1>7, <2>1
  <2>2. CASE t # s
    BY <1>4, <1>7, <2>2
  <2> QED BY <2>1, <2>2
<1> QED BY <1>5, <1>7

\* The accounts of the run and of the row stay in order while only bars are landed.
LEMMA AccountsKept ==
  ASSUME SyncInv, UNCHANGED <<syncDay, syncing, latest, synced>>,
         \A t \in SyncSymbols, target \in SyncDays, fetched \in SUBSET SyncSymbols :
           Passed(target) /\ Accounted(held[t], t, target, fetched)
             => Accounted(held'[t], t, target, fetched)
  PROVE  RunInv' /\ LatestInv'
<1>1. \A target : Passed(target)' <=> Passed(target)
  BY DEF Passed
<1>2. RunInv'
  <2> SUFFICES ASSUME syncing # None
               PROVE  /\ syncing \in [path : {"skip", "daily", "daily_basic"}, target : SyncDays,
                                      left : SUBSET SyncSymbols, done : SUBSET SyncSymbols,
                                      failed : SUBSET SyncSymbols]
                      /\ Passed(syncing.target)
                      /\ \E processed : latest = [status |-> "running", processed |-> processed,
                                                  state |-> None]
                      /\ \A s \in SettledBy(syncing) :
                           Accounted(held'[s], s, syncing.target,
                                     FetchedBy(syncing.path, synced, syncing.done))
    BY <1>1 DEF RunInv
  <2>1. /\ SettledBy(syncing) \subseteq SyncSymbols /\ synced \subseteq SyncSymbols
        /\ FetchedBy(syncing.path, synced, syncing.done) \subseteq SyncSymbols
    BY DEF SettledBy, SyncInv, SyncTyped, RunInv, FetchedBy
  <2>2. syncing.target \in SyncDays /\ Passed(syncing.target)
    BY DEF SyncInv, RunInv
  <2>3. \A s \in SettledBy(syncing) :
          Accounted(held'[s], s, syncing.target,
                    FetchedBy(syncing.path, synced, syncing.done))
    BY <2>1, <2>2 DEF SyncInv, RunInv
  <2> QED BY <2>3 DEF SyncInv, RunInv
<1>3. LatestInv'
  <2> SUFFICES ASSUME latest # None, latest.status \in {"completed", "skipped"}
               PROVE  /\ latest.state.target \in SyncDays /\ Passed(latest.state.target)
                      /\ \A s \in SyncSymbols : Accounted(held'[s], s, latest.state.target, synced)
    BY <1>1 DEF LatestInv
  <2>1. /\ latest.state.target \in SyncDays /\ Passed(latest.state.target)
        /\ \A s \in SyncSymbols : Accounted(held[s], s, latest.state.target, synced)
    BY DEF SyncInv, LatestInv
  <2>2. synced \in SUBSET SyncSymbols
    BY DEF SyncInv, SyncTyped
  <2> QED BY <2>1, <2>2
<1> QED BY <1>2, <1>3

LEMMA ReadThroughInv ==
  ASSUME SyncInv, NEW s \in SyncSymbols, NEW upTo \in {syncDay - 1, syncDay}, NEW tushare,
         ReadThrough(s, upTo, tushare)
  PROVE  SyncInv'
<1> DEFINE from == ReadFrom(s)
<1>1. PICK h \in Int : held[s] = BarsOf(s, h)
  BY DEF SyncInv, SyncTyped, Unbroken
<1>2. /\ from \in Int /\ from >= StartDay
      /\ from = StartDay \/ \E d \in held[s] : from <= d
  <2>1. CASE held[s] = {}
    BY <2>1, SyncTypes DEF ReadFrom
  <2>2. CASE held[s] # {}
    <3>1. LastBar(s) \in held[s]
      BY <1>1, <2>2, LastOfBars DEF LastBar
    <3>2. held[s] \subseteq Nat
      BY DEF SyncInv, SyncTyped
    <3>3. LastBar(s) \in Int /\ LastBar(s) - Backtrack <= LastBar(s)
      BY <3>1, <3>2, SyncTypes
    <3>4. CASE LastBar(s) < StartDay + Backtrack
      BY <3>4, SyncTypes DEF ReadFrom
    <3>5. CASE ~(LastBar(s) < StartDay + Backtrack)
      BY <2>2, <3>1, <3>3, <3>5, SyncTypes DEF ReadFrom
    <3> QED BY <3>4, <3>5
  <2> QED BY <2>1, <2>2
<1>3. /\ upTo \in Int /\ syncDay - 1 <= upTo /\ upTo <= syncDay
  BY DEF SyncInv, SyncTyped
<1>4. /\ held' = [held EXCEPT ![s] = held[s] \cup WindowDays(s, from, upTo)]
      /\ UNCHANGED <<syncDay, syncing, latest, synced>>
  BY DEF ReadThrough, Landed
<1> HIDE DEF from
<1>5. SyncTyped' /\ \A t \in SyncSymbols, target \in SyncDays, fetched \in SUBSET SyncSymbols :
              Passed(target) /\ Accounted(held[t], t, target, fetched)
                => Accounted(held'[t], t, target, fetched)
  BY <1>2, <1>3, <1>4, LandKeeps DEF SyncInv
<1> QED BY <1>4, <1>5, AccountsKept DEF SyncInv

LEMMA SyncSymbolInv ==
  ASSUME SyncInv, NEW s \in SyncSymbols, NEW upTo \in {StartDay - 1, syncDay - 1, syncDay},
         NEW tushare, SyncSymbol(s, upTo, tushare)
  PROVE  SyncInv'
<1> DEFINE days == WindowDays(s, StartDay, upTo)
<1>1. /\ syncing # None /\ syncing.path = "daily" /\ s \in syncing.left
      /\ syncing' = [syncing EXCEPT !.left = @ \ {s},
                                    !.done = IF days = {} THEN @ ELSE @ \cup {s},
                                    !.failed = IF days = {} THEN @ \cup {s} ELSE @]
      /\ held' = [held EXCEPT ![s] = held[s] \cup days]
      /\ latest' = [latest EXCEPT !.processed = latest.processed + 1]
      /\ UNCHANGED <<syncDay, synced>>
  BY DEF SyncSymbol, Landed, Progress
<1>2. /\ syncing \in [path : {"skip", "daily", "daily_basic"}, target : SyncDays, left : SUBSET SyncSymbols,
                      done : SUBSET SyncSymbols, failed : SUBSET SyncSymbols]
      /\ Passed(syncing.target)
      /\ \E processed : latest = [status |-> "running", processed |-> processed, state |-> None]
      /\ \A t \in SettledBy(syncing) : Accounted(held[t], t, syncing.target, syncing.done)
  BY <1>1 DEF SyncInv, RunInv, FetchedBy
<1>3. /\ SyncTyped'
      /\ \A t \in SyncSymbols, target \in SyncDays, fetched \in SUBSET SyncSymbols :
              Passed(target) /\ Accounted(held[t], t, target, fetched)
                => Accounted(held'[t], t, target, fetched)
  <2>1. CASE days = {}
    <3>1. held' = held
      BY <1>1, <2>1 DEF SyncInv, SyncTyped
    <3>2. SyncTyped'
      BY <1>1, <3>1 DEF SyncInv, SyncTyped
    <3> QED BY <3>1, <3>2
  <2>2. CASE days # {}
    <3>1. upTo \in Int /\ syncDay - 1 <= upTo /\ upTo <= syncDay
      <4>1. upTo # StartDay - 1
        BY <2>2, SyncTypes DEF WindowDays
      <4> QED BY <4>1 DEF SyncInv, SyncTyped
    <3>2. StartDay \in Int /\ StartDay >= StartDay
      BY SyncTypes
    <3> QED BY <1>1, <3>1, <3>2, LandKeeps DEF SyncInv
  <2> QED BY <2>1, <2>2
<1>4. /\ syncing' \in [path : {"skip", "daily", "daily_basic"}, target : SyncDays, left : SUBSET SyncSymbols,
                       done : SUBSET SyncSymbols, failed : SUBSET SyncSymbols]
      /\ syncing'.path = "daily" /\ syncing'.target = syncing.target
      /\ syncing'.left = syncing.left \ {s}
      /\ syncing'.done = IF days = {} THEN syncing.done ELSE syncing.done \cup {s}
      /\ syncing'.failed = IF days = {} THEN syncing.failed \cup {s} ELSE syncing.failed
  <2> HIDE DEF days
  <2> QED BY <1>1, <1>2
<1>5. \A t \in SettledBy(syncing') : Accounted(held'[t], t, syncing.target, syncing'.done)
  <2> SUFFICES ASSUME NEW t \in SettledBy(syncing')
               PROVE  Accounted(held'[t], t, syncing.target, syncing'.done)
    OBVIOUS
  <2>1. t \in SyncSymbols /\ t \notin syncing'.left /\ t \notin syncing'.failed
    BY <1>4 DEF SettledBy
  <2>2. CASE t = s
    <3>1. t \in syncing'.done
      BY <1>4, <2>1, <2>2
    <3> QED BY <3>1 DEF Accounted
  <2>3. CASE t # s
    <3>1. t \in SettledBy(syncing)
      BY <1>1, <1>4, <2>1, <2>3 DEF SettledBy
    <3>2. Accounted(held[t], t, syncing.target, syncing.done)
      BY <1>2, <3>1
    <3>3. Accounted(held'[t], t, syncing.target, syncing.done)
      BY <1>2, <1>3, <2>1, <3>2
    <3>4. syncing.done \subseteq syncing'.done
      BY <1>4
    <3> QED BY <3>3, <3>4, MoreFetched
  <2> QED BY <2>2, <2>3
<1>6. \E processed : latest' = [status |-> "running", processed |-> processed, state |-> None]
  <2>1. PICK processed : latest = [status |-> "running", processed |-> processed, state |-> None]
    BY <1>2
  <2>2. latest' = [status |-> "running", processed |-> latest.processed + 1, state |-> None]
    BY <1>1, <2>1
  <2> QED BY <2>2
<1>7. RunInv'
  <2>1. Passed(syncing.target)'
    BY <1>1, <1>2, <1>4 DEF Passed
  <2> QED BY <1>4, <1>5, <1>6, <2>1 DEF RunInv, SettledBy, FetchedBy
<1>8. LatestInv'
  <2>1. latest'.status = "running"
    BY <1>6
  <2> QED BY <2>1 DEF LatestInv
<1> QED BY <1>3, <1>7, <1>8 DEF SyncInv

\* A run starts: its row says so, and what it finds in order is accounted for.
LEMMA StartRunInv ==
  ASSUME SyncInv, NEW path \in {"skip", "daily", "daily_basic"}, NEW target \in SyncDays,
         NEW rest \in SUBSET SyncSymbols, StartRun(path, target, rest), Passed(target),
         \A s \in SyncSymbols : (path = "daily" => s \notin rest) =>
           Accounted(held[s], s, target, IF path = "skip" THEN synced ELSE {})
  PROVE  SyncInv'
<1>1. /\ syncing' = [path |-> path, target |-> target, left |-> rest, done |-> {}, failed |-> {}]
      /\ latest' = [status |-> "running", processed |-> 0, state |-> None]
      /\ UNCHANGED <<syncDay, held, synced>>
  BY DEF StartRun
<1>2. SyncTyped'
  BY <1>1 DEF SyncInv, SyncTyped
<1>3. /\ syncing' \in [path : {"skip", "daily", "daily_basic"}, target : SyncDays, left : SUBSET SyncSymbols,
                       done : SUBSET SyncSymbols, failed : SUBSET SyncSymbols]
      /\ syncing'.path = path /\ syncing'.target = target /\ syncing'.left = rest
      /\ syncing'.done = {} /\ syncing'.failed = {}
  BY <1>1
<1>4. RunInv'
  <2>1. Passed(syncing.target)'
    BY <1>1, <1>3 DEF Passed
  <2>2. \A s \in SettledBy(syncing') :
          Accounted(held[s], s, target, IF path = "skip" THEN synced ELSE {})
    BY <1>3 DEF SettledBy
  <2>3. \E processed : latest' = [status |-> "running", processed |-> processed, state |-> None]
    BY <1>1
  <2>4. \A s \in SettledBy(syncing') :
          Accounted(held'[s], s, syncing'.target, FetchedBy(syncing'.path, synced', syncing'.done))
    BY <1>1, <1>3, <2>2 DEF FetchedBy
  <2> QED BY <1>3, <2>1, <2>3, <2>4 DEF RunInv, SettledBy, Passed
<1>5. LatestInv'
  BY <1>1 DEF LatestInv
<1> QED BY <1>2, <1>4, <1>5 DEF SyncInv

LEMMA BeginSyncInv ==
  ASSUME SyncInv, NEW calendar \in BOOLEAN, NEW replied \in SUBSET SyncSymbols,
         NEW answeredAgain \in SUBSET SyncSymbols, BeginSync(calendar, replied, answeredAgain)
  PROVE  SyncInv'
<1> DEFINE target == SyncTarget(calendar)
           state == SyncState(target, replied)
           candidates == Candidates(target, answeredAgain)
<1>1. target \in SyncDays /\ Passed(target)
  BY DEF SyncInv, SyncTyped, SyncTarget, SyncDays, Passed
<1>2. Unvalued \subseteq SyncSymbols /\ candidates \subseteq SyncSymbols
  BY DEF Unvalued, Candidates
<1>3. \A s \in SyncSymbols \ candidates : held[s] # {} /\ (Behind(s, target) => Exempt(s, target, answeredAgain))
  BY DEF Candidates
<1>4. state.target = target /\ DOMAIN state = {"target", "first", "last", "missing", "stale", "rows", "current"}
  BY DEF SyncState
<1>5. ASSUME state.current
      PROVE  \A s \in SyncSymbols : held[s] # {} /\ (Behind(s, target) => Exempt(s, target, replied))
  <2>1. /\ {s \in SyncSymbols : \A d \in held[s] : d < StartDay} = {}
        /\ {s \in SyncSymbols : Behind(s, target) /\ ~Exempt(s, target, replied)} = {}
    BY <1>5 DEF SyncState
  <2> QED BY <2>1
<1>6. /\ syncing = None
      /\ IF Unvalued # {} /\ state.current THEN StartRun("daily_basic", target, Unvalued)
         ELSE IF ShouldSkip(state, candidates) THEN StartRun("skip", target, {})
         ELSE StartRun("daily", target, candidates)
  BY DEF BeginSync
<1> HIDE DEF target, state, candidates
<1>T. SyncTyped
  BY DEF SyncInv
<1>7. CASE Unvalued # {} /\ state.current
  <2>1. \A s \in SyncSymbols : Accounted(held[s], s, target, {})
    BY <1>1, <1>5, <1>7, <1>T, NoCandidate
  <2>2. StartRun("daily_basic", target, Unvalued)
    BY <1>6, <1>7
  <2> QED BY <1>1, <1>2, <2>1, <2>2, StartRunInv
<1>8. CASE ~(Unvalued # {} /\ state.current) /\ ShouldSkip(state, candidates)
  <2>1. StartRun("skip", target, {})
    BY <1>6, <1>8
  <2>2. \A s \in SyncSymbols : Accounted(held[s], s, target, synced)
    <3>1. CASE candidates = {}
      BY <1>1, <1>3, <1>T, <3>1, NoCandidate
    <3>2. CASE candidates # {}
      <4>1. /\ latest # None /\ latest.status = "completed"
            /\ [latest.state EXCEPT !.current = state.current] = state
        BY <1>8, <3>2 DEF ShouldSkip
      <4>2. latest.state.target = target
        BY <1>4, <4>1
      <4> QED BY <4>1, <4>2 DEF SyncInv, LatestInv
    <3> QED BY <3>1, <3>2
  <2> QED BY <1>1, <2>1, <2>2, StartRunInv
<1>9. CASE ~(Unvalued # {} /\ state.current) /\ ~ShouldSkip(state, candidates)
  <2>1. StartRun("daily", target, candidates)
    BY <1>6, <1>9
  <2>2. \A s \in SyncSymbols : s \notin candidates => Accounted(held[s], s, target, {})
    BY <1>1, <1>3, <1>T, NoCandidate
  <2> QED BY <1>1, <1>2, <2>1, <2>2, StartRunInv
<1> QED BY <1>7, <1>8, <1>9

LEMMA BackfillBasicInv ==
  ASSUME SyncInv, NEW touched \in SUBSET SyncSymbols, NEW filled \in SUBSET SyncSymbols,
         BackfillBasic(touched, filled)
  PROVE  SyncInv'
<1>1. /\ syncing # None /\ syncing.path = "daily_basic" /\ touched \subseteq syncing.left
      /\ syncing' = [syncing EXCEPT !.left = {}, !.done = touched, !.failed = syncing.left \ touched]
      /\ latest' = [latest EXCEPT !.processed = Cardinality(touched)]
      /\ UNCHANGED <<syncDay, held, synced>>
  BY DEF BackfillBasic, Progress
<1>2. /\ syncing \in [path : {"skip", "daily", "daily_basic"}, target : SyncDays, left : SUBSET SyncSymbols,
                      done : SUBSET SyncSymbols, failed : SUBSET SyncSymbols]
      /\ Passed(syncing.target)
      /\ \E processed : latest = [status |-> "running", processed |-> processed, state |-> None]
      /\ \A t \in SyncSymbols : Accounted(held[t], t, syncing.target, {})
  BY <1>1 DEF SyncInv, RunInv, SettledBy, FetchedBy
<1>3. SyncTyped'
  BY <1>1 DEF SyncInv, SyncTyped
<1>4. /\ syncing' \in [path : {"skip", "daily", "daily_basic"}, target : SyncDays, left : SUBSET SyncSymbols,
                       done : SUBSET SyncSymbols, failed : SUBSET SyncSymbols]
      /\ syncing'.path = "daily_basic" /\ syncing'.target = syncing.target /\ syncing'.done = touched
  BY <1>1, <1>2
<1>5. \E processed : latest' = [status |-> "running", processed |-> processed, state |-> None]
  <2>1. PICK processed : latest = [status |-> "running", processed |-> processed, state |-> None]
    BY <1>2
  <2>2. latest' = [status |-> "running", processed |-> Cardinality(touched), state |-> None]
    BY <1>1, <2>1
  <2> QED BY <2>2
<1>6. RunInv'
  <2>1. Passed(syncing.target)'
    BY <1>1, <1>2, <1>4 DEF Passed
  <2>2. \A t \in SyncSymbols : Accounted(held'[t], t, syncing'.target, {})
    BY <1>1, <1>2, <1>4
  <2> QED BY <1>4, <1>5, <2>1, <2>2 DEF RunInv, SettledBy, FetchedBy
<1>7. LatestInv'
  <2>1. latest'.status = "running"
    BY <1>5
  <2> QED BY <2>1 DEF LatestInv
<1> QED BY <1>3, <1>6, <1>7 DEF SyncInv

LEMMA FinishSyncInv ==
  ASSUME SyncInv, NEW replied \in SUBSET SyncSymbols, FinishSync(replied)
  PROVE  SyncInv'
<1>1. /\ syncing # None /\ syncing.left = {} /\ syncing' = None
      /\ latest' = [status |-> RunStatus,
                    processed |-> Cardinality(syncing.done \cup syncing.failed),
                    state |-> SyncState(syncing.target, replied)]
      /\ synced' = IF RunStatus = "completed" THEN syncing.done ELSE synced
      /\ UNCHANGED <<syncDay, held>>
  BY DEF FinishSync
<1>2. /\ syncing.target \in SyncDays /\ Passed(syncing.target) /\ syncing.done \subseteq SyncSymbols
      /\ syncing.path \in {"skip", "daily", "daily_basic"}
      /\ \A s \in SettledBy(syncing) :
           Accounted(held[s], s, syncing.target, FetchedBy(syncing.path, synced, syncing.done))
  BY <1>1 DEF SyncInv, RunInv
<1>3. SyncTyped'
  BY <1>1, <1>2 DEF SyncInv, SyncTyped
<1>4. RunInv'
  BY <1>1 DEF RunInv
<1>5. LatestInv'
  <2>1. latest'.status = RunStatus /\ latest'.state.target = syncing.target
    BY <1>1 DEF SyncState
  <2>3. Passed(latest.state.target)'
    BY <1>1, <1>2, <2>1 DEF Passed
  <2>4. ASSUME RunStatus \in {"completed", "skipped"}, NEW s \in SyncSymbols
        PROVE  Accounted(held[s], s, syncing.target, synced')
    <3>1. CASE syncing.path = "skip"
      <4>1. RunStatus = "skipped"
        BY <3>1 DEF RunStatus
      <4>2. synced' = synced
        BY <1>1, <4>1
      <4> QED BY <1>2, <3>1, <4>2 DEF SettledBy, FetchedBy
    <3>2. CASE syncing.path # "skip"
      <4>1. RunStatus = "completed" /\ syncing.failed = {}
        BY <2>4, <3>2 DEF RunStatus
      <4>2. Accounted(held[s], s, syncing.target, FetchedBy(syncing.path, synced, syncing.done))
        BY <1>1, <1>2, <4>1 DEF SettledBy
      <4>3. FetchedBy(syncing.path, synced, syncing.done) \subseteq syncing.done
        BY <3>2 DEF FetchedBy
      <4> QED BY <1>1, <4>1, <4>2, <4>3, MoreFetched
    <3> QED BY <3>1, <3>2
  <2> QED BY <1>1, <1>2, <2>1, <2>3, <2>4 DEF LatestInv
<1> QED BY <1>3, <1>4, <1>5 DEF SyncInv

LEMMA SyncStepInv == SyncInv /\ [SyncNext]_syncVars => SyncInv'
<1> SUFFICES ASSUME SyncInv, [SyncNext]_syncVars PROVE SyncInv'
  OBVIOUS
<1>1. CASE Midnight
  <2>1. syncDay' = syncDay + 1 /\ UNCHANGED <<held, syncing, latest, synced>>
    BY <1>1 DEF Midnight
  <2>2. SyncTyped'
    <3>1. ASSUME NEW s \in SyncSymbols PROVE Unbroken(s, held[s], syncDay + 1)
      <4>1. PICK h \in Int : h <= syncDay /\ held[s] = BarsOf(s, h)
        BY DEF SyncInv, SyncTyped, Unbroken
      <4>2. h <= syncDay + 1
        BY <4>1 DEF SyncInv, SyncTyped
      <4> QED BY <4>1, <4>2 DEF Unbroken
    <3> QED BY <2>1, <3>1 DEF SyncInv, SyncTyped
  <2>3. \A target \in SyncDays : Passed(target) => Passed(target)'
    BY <2>1 DEF Passed, SyncDays, SyncInv, SyncTyped
  <2>4. RunInv'
    <3> SUFFICES ASSUME syncing # None
                 PROVE  RunInv'
      BY <2>1 DEF RunInv
    <3>1. Passed(syncing.target)'
      BY <2>1, <2>3 DEF SyncInv, RunInv, Passed
    <3> QED BY <2>1, <3>1 DEF SyncInv, RunInv, SettledBy
  <2>5. LatestInv'
    <3> SUFFICES ASSUME latest # None, latest.status \in {"completed", "skipped"}
                 PROVE  LatestInv'
      BY <2>1 DEF LatestInv
    <3>1. Passed(latest.state.target)'
      BY <2>1, <2>3 DEF SyncInv, LatestInv, Passed
    <3> QED BY <2>1, <3>1 DEF SyncInv, LatestInv
  <2> QED BY <2>2, <2>4, <2>5 DEF SyncInv
<1>2. CASE SyncDies
  <2>1. syncing' = None /\ UNCHANGED <<syncDay, held, latest, synced>>
    BY <1>2 DEF SyncDies
  <2>2. SyncTyped' /\ RunInv'
    BY <2>1 DEF SyncInv, SyncTyped, RunInv
  <2>3. LatestInv'
    BY <2>1 DEF SyncInv, LatestInv, Passed
  <2> QED BY <2>2, <2>3 DEF SyncInv
<1>3. CASE UNCHANGED syncVars
  <2>1. UNCHANGED <<syncDay, held, syncing, latest, synced>>
    BY <1>3 DEF syncVars
  <2>2. SyncTyped'
    BY <2>1 DEF SyncInv, SyncTyped
  <2>3. RunInv' /\ LatestInv'
    BY <2>1, AccountsKept
  <2> QED BY <2>2, <2>3 DEF SyncInv
<1> QED
  BY <1>1, <1>2, <1>3, BeginSyncInv, SyncSymbolInv, ReadThroughInv, BackfillBasicInv, FinishSyncInv
     DEF SyncNext

LEMMA SyncInitInv == SyncInit => SyncInv
<1> SUFFICES ASSUME SyncInit PROVE SyncInv
  OBVIOUS
<1>1. syncDay \in Nat /\ held \in [SyncSymbols -> SUBSET Nat] /\ synced = {}
  BY SyncTypes DEF SyncInit
<1>2. ASSUME NEW s \in SyncSymbols PROVE Unbroken(s, held[s], syncDay)
  <2>1. BarsOf(s, StartDay - 1) = {}
    BY SyncTypes DEF BarsOf, WindowDays
  <2>2. held[s] = {} /\ StartDay - 1 \in Int /\ StartDay - 1 <= syncDay
    BY SyncTypes DEF SyncInit
  <2> QED BY <2>1, <2>2 DEF Unbroken
<1>3. syncing = None /\ latest = None
  BY DEF SyncInit
<1> QED BY <1>1, <1>2, <1>3 DEF SyncInv, SyncTyped, RunInv, LatestInv

LEMMA SyncInvHides == SyncInv => SkipHidesNoBars
<1> SUFFICES ASSUME SyncInv, latest # None, latest.status = "skipped", NEW s \in SyncSymbols, s \notin synced
             PROVE  LET target == latest.state.target
                        staleBefore == (IF target = None THEN syncDay ELSE target) - Grace
                    IN \/ MissingBars(s, staleBefore) = {}
                       \/ held[s] # {} /\ (target = None \/ Exempt(s, target, SyncSymbols))
  BY DEF SkipHidesNoBars, SeedPlan
<1> DEFINE target == latest.state.target
<1>1. Accounted(held[s], s, target, synced)
  BY DEF SyncInv, LatestInv
<1>2. /\ held[s] # {}
      /\ target = None \/ Exempt(s, target, SyncSymbols) \/ BarsOf(s, target - Grace) \subseteq held[s]
  BY <1>1 DEF Accounted, Exempt, LastBar
<1>3. BarsOf(s, target - Grace) \subseteq held[s] => MissingBars(s, target - Grace) = {}
  BY DEF MissingBars, BarsOf
<1> QED BY <1>2, <1>3

\* Whatever fails, halts, dies or lands in between, a skipped sync hides no bar that a symbol
\* has missed for longer than the grace, but of the symbols that the run before has just
\* fetched, that were suspended since their last bar, or whose market has no target day.
\* (sync_market_data, _should_skip_run, get_stock_daily)
THEOREM SkipHolds == SyncSpec => []SkipHidesNoBars
<1>1. SyncInit => SyncInv
  BY SyncInitInv
<1>2. SyncInv /\ [SyncNext]_syncVars => SyncInv'
  BY SyncStepInv
<1>3. SyncInv => SkipHidesNoBars
  BY SyncInvHides
<1> QED BY <1>1, <1>2, <1>3, PTL DEF SyncSpec
-----------------------------------------------------------------------------
(* QuotePolling. *)

Spelling == DOMAIN CodeOf

\* A later member of a set of positions counts more of its members.
LEMMA RankGrows ==
  ASSUME NEW n \in Nat, NEW first, first \subseteq 1 .. n, NEW i \in first, NEW j \in first, i < j
  PROVE  Cardinality(first \cap 1 .. i) < Cardinality(first \cap 1 .. j)
<1> DEFINE A == first \cap 1 .. i
           B == first \cap 1 .. j
<1>1. IsFiniteSet(1 .. n)
  BY FS_Interval
<1>2. IsFiniteSet(first)
  BY <1>1, FS_Subset
<1>3. i \in Nat /\ j \in Nat
  OBVIOUS
<1>4. IsFiniteSet(A) /\ IsFiniteSet(B)
  BY <1>2, FS_Subset
<1>5. A \subseteq B \ {j} /\ j \in B
  BY <1>3
<1> HIDE DEF A, B
<1>6. IsFiniteSet(B \ {j}) /\ Cardinality(B \ {j}) = Cardinality(B) - 1
  BY <1>4, <1>5, FS_RemoveElement
<1>7. Cardinality(A) <= Cardinality(B \ {j})
  BY <1>5, <1>6, FS_Subset
<1>8. Cardinality(A) \in Nat /\ Cardinality(B) \in Nat
  BY <1>4, FS_CardinalityType
<1>9. Cardinality(A) < Cardinality(B)
  BY <1>6, <1>7, <1>8
<1> QED BY <1>9 DEF A, B

\* The securities of a list, each once, none left out, in the order of the list.
Covers(list, asks) == \A m \in DOMAIN list : \E k \in DOMAIN asks : SameSecurity(list[m], asks[k])
InOrder(list, asks) ==
  \A k, l \in DOMAIN asks : k < l =>
    /\ ~SameSecurity(asks[k], asks[l])
    /\ \E m, n \in DOMAIN list : m < n /\ asks[k] = list[m] /\ asks[l] = list[n]

\* parse_symbols does that.
LEMMA AskedOnce ==
  ASSUME NEW list \in Seq(Spelling)
  PROVE  /\ AskedSecurities(list) \in Seq(Spelling)
         /\ Covers(list, AskedSecurities(list)) /\ InOrder(list, AskedSecurities(list))
<1> DEFINE first == FirstSpellings(list)
           asks == AskedSecurities(list)
<1>1. /\ first \subseteq 1 .. Len(list) /\ Len(list) \in Nat /\ DOMAIN list = 1 .. Len(list)
      /\ first = {i \in DOMAIN list : \A j \in 1 .. (i - 1) : ~SameSecurity(list[i], list[j])}
  BY DEF FirstSpellings
<1>0. first \subseteq 1 .. Len(list) /\ Len(list) \in Nat
  BY <1>1
<1> HIDE DEF first, asks
<1>2. /\ IsFiniteSet(first) /\ Cardinality(first) \in Nat
      /\ \A k \in 1 .. Cardinality(first) : \E i \in first : Cardinality(first \cap 1 .. i) = k
  BY <1>0, CountsAll
<1> DEFINE rank(i) == Cardinality(first \cap 1 .. i)
           place(k) == CHOOSE i \in first : rank(i) = k
<1>3. \A k \in 1 .. Cardinality(first) : place(k) \in first /\ rank(place(k)) = k
  <2> TAKE k \in 1 .. Cardinality(first)
  <2>1. \E i \in first : rank(i) = k
    BY <1>2
  <2> HIDE DEF rank
  <2> QED BY <2>1
<1>4. asks = [k \in 1 .. Cardinality(first) |-> list[place(k)]]
  BY DEF AskedSecurities, asks, first
<1>5. \A i, j \in first : i < j => rank(i) < rank(j)
  BY <1>1, RankGrows
<1>6. \A i \in first : rank(i) \in 1 .. Cardinality(first)
  <2> TAKE i \in first
  <2>1. IsFiniteSet(first \cap 1 .. i) /\ rank(i) <= Cardinality(first)
    BY <1>2, FS_Subset
  <2>2. i \in first \cap 1 .. i
    BY <1>1
  <2>3. rank(i) \in Nat /\ rank(i) # 0
    BY <2>1, <2>2, FS_CardinalityType, FS_EmptySet
  <2> HIDE DEF rank
  <2> QED BY <1>2, <2>1, <2>3
<1> HIDE DEF rank, place
<1>7. PICK n \in Nat : n = Cardinality(first)
  BY <1>2
<1>8. asks = [k \in 1 .. n |-> list[place(k)]]
  BY <1>4, <1>7
<1>9. \A k \in 1 .. n : list[place(k)] \in Spelling
  BY <1>1, <1>3, <1>7
<1>10. asks \in [1 .. n -> Spelling]
  BY <1>8, <1>9
<1>11. asks \in Seq(Spelling) /\ DOMAIN asks = 1 .. n
  BY <1>10
<1>12. \A k, l \in 1 .. n : k < l => place(k) < place(l)
  <2> SUFFICES ASSUME NEW k \in 1 .. n, NEW l \in 1 .. n, k < l PROVE place(k) < place(l)
    OBVIOUS
  <2>1. place(k) \in first /\ place(l) \in first /\ rank(place(k)) = k /\ rank(place(l)) = l
    BY <1>3, <1>7
  <2>2. place(k) \in Nat /\ place(l) \in Nat
    BY <1>1, <2>1
  <2>3. place(l) < place(k) => l < k
    BY <1>5, <2>1
  <2>4. place(l) = place(k) => l = k
    BY <2>1
  <2> QED BY <2>2, <2>3, <2>4
<1>13. InOrder(list, asks)
  <2> SUFFICES ASSUME NEW k \in 1 .. n, NEW l \in 1 .. n, k < l
               PROVE  /\ ~SameSecurity(asks[k], asks[l])
                      /\ \E i, j \in DOMAIN list : i < j /\ asks[k] = list[i] /\ asks[l] = list[j]
    BY <1>11 DEF InOrder
  <2>1. PICK i \in first, j \in first : i = place(k) /\ j = place(l) /\ i < j
    BY <1>3, <1>7, <1>12
  <2>2. asks[k] = list[i] /\ asks[l] = list[j]
    BY <1>8, <2>1
  <2>3. i \in DOMAIN list /\ j \in DOMAIN list /\ i \in 1 .. (j - 1)
    BY <1>1, <2>1
  <2>4. ~SameSecurity(list[j], list[i])
    BY <1>1, <2>3
  <2> QED BY <2>1, <2>2, <2>3, <2>4 DEF SameSecurity
<1>14. Covers(list, asks)
  <2> SUFFICES ASSUME NEW m \in DOMAIN list
               PROVE  \E k \in 1 .. n : SameSecurity(list[m], asks[k])
    BY <1>11 DEF Covers
  <2> DEFINE same == {j \in DOMAIN list : SameSecurity(list[m], list[j])}
  <2>1. same \subseteq Nat /\ m \in same
    BY <1>1 DEF SameSecurity
  <2>2. PICK i \in same : \A j \in same : i <= j
    BY <2>1, LeastNat
  <2>3. i \in first
    <3>1. ASSUME NEW j \in 1 .. (i - 1), SameSecurity(list[i], list[j]) PROVE FALSE
      <4>1. j \in DOMAIN list /\ j < i /\ i \in Nat /\ j \in Nat
        BY <1>1, <2>1
      <4>2. SameSecurity(list[m], list[j])
        BY <3>1, <4>1 DEF SameSecurity
      <4> QED BY <2>2, <4>1, <4>2
    <3> QED BY <1>1, <3>1
  <2>4. PICK k \in 1 .. n : k = rank(i)
    BY <1>6, <1>7, <2>3
  <2>5. place(k) \in first /\ rank(place(k)) = rank(i)
    BY <1>3, <1>7, <2>4
  <2>6. place(k) = i
    <3>1. place(k) \in Nat /\ i \in Nat
      BY <1>1, <2>3, <2>5
    <3>2. rank(i) \in Nat
      BY <1>7, <2>4
    <3>3. ~(place(k) < i) /\ ~(i < place(k))
      BY <1>5, <2>3, <2>5, <3>2
    <3> QED BY <3>1, <3>3
  <2>7. asks[k] = list[i]
    BY <1>8, <2>6
  <2> QED BY <2>2, <2>7
<1> QED BY <1>11, <1>13, <1>14 DEF asks

HeardCalls == UNION {[S -> CallOutcome] : S \in SUBSET QuoteCall}
QuoteItem == [symbol : Spelling, mode : {"realtime", "legacy_realtime", None},
              errors : SUBSET (QuoteCall \cup {"symbol"}), status : {"ok", "failed"},
              info : {None, "own", "base"}, heard : HeardCalls]

PollTyped ==
  /\ quoteStep \in {"idle", "look", "info", "quotation", "legacy", "ended"}
  /\ quotes \in Seq(QuoteItem)
  /\ heardOf \in HeardCalls
  /\ quoteStep # "idle" => poll \in [fast : BOOLEAN, symbols : Seq(Spelling)]
  /\ quoteExit = 0 => quoteStep = "ended" /\ queue = <<>>

\* The items, followed by the symbols without one, are the securities asked for.
PollInOrder ==
  LET asks == AskedSecurities(poll.symbols) IN
    /\ queue \in Seq(Spelling)
    /\ Len(quotes) + Len(queue) = Len(asks)
    /\ \A i \in 1 .. Len(quotes) : quotes[i].symbol = asks[i]
    /\ \A i \in 1 .. Len(queue) : queue[i] = asks[Len(quotes) + i]

\* A poll that is refused has no item.
ItemsInOrder ==
  IF quoteStep = "idle" \/ (quoteStep = "ended" /\ quoteExit # 0) THEN quotes = <<>> ELSE PollInOrder

\* The calls that the current symbol has behind it.
CallsHeard ==
  /\ quoteStep \in {"info", "quotation", "legacy"} => queue # <<>> /\ Legal(Head(queue))
  /\ quoteStep = "info" => ~poll.fast /\ DOMAIN heardOf = {}
  /\ quoteStep = "quotation" => ~poll.fast /\ DOMAIN heardOf = {"info"}
  /\ quoteStep = "legacy" =>
       IF poll.fast THEN DOMAIN heardOf = {}
       ELSE DOMAIN heardOf = {"info", "quotation"} /\ heardOf["quotation"] # "row"

\* An item tells the calls that failed for it, and hides no better quote.
ItemTold(q, fast) ==
  /\ q.status = "ok" => Legal(q.symbol)
  /\ q.status = "failed" /\ Legal(q.symbol) =>
       /\ q.errors = FailedCalls(q.heard)
       /\ (IF fast THEN {"legacy"} ELSE QuoteCall) \subseteq q.errors \cup {"info"}
  /\ q.mode = QuoteMode["legacy"] => fast \/ "quotation" \in FailedCalls(q.heard)

QuoteInv ==
  /\ PollTyped /\ ItemsInOrder /\ CallsHeard
  /\ \A i \in DOMAIN quotes : ItemTold(quotes[i], poll.fast)

LEMMA QuoteInvTold == QuoteInv => QuotesTold
<1> SUFFICES ASSUME QuoteInv PROVE QuotesTold
  OBVIOUS
<1>1. quotes \in Seq(QuoteItem) /\ DOMAIN quotes = 1 .. Len(quotes) /\ Len(quotes) \in Nat
  BY DEF QuoteInv, PollTyped
<1>2. ASSUME quotes # <<>> \/ quoteExit = 0
      PROVE  /\ poll.symbols \in Seq(Spelling) /\ PollInOrder
             /\ quoteExit = 0 => queue = <<>>
  BY <1>2 DEF QuoteInv, PollTyped, ItemsInOrder
<1>3. ASSUME NEW list \in Seq(Spelling), list = poll.symbols, PollInOrder
      PROVE  /\ \A i \in DOMAIN quotes : i \in DOMAIN AskedSecurities(list) /\ quotes[i].symbol = AskedSecurities(list)[i]
             /\ queue = <<>> => DOMAIN AskedSecurities(list) = DOMAIN quotes
             /\ Covers(list, AskedSecurities(list)) /\ InOrder(list, AskedSecurities(list))
  <2> DEFINE asks == AskedSecurities(list)
  <2>1. asks \in Seq(Spelling) /\ Covers(list, asks) /\ InOrder(list, asks)
    BY AskedOnce
  <2>2. /\ queue \in Seq(Spelling) /\ Len(quotes) + Len(queue) = Len(asks)
        /\ \A i \in 1 .. Len(quotes) : quotes[i].symbol = asks[i]
    BY <1>3 DEF PollInOrder
  <2> HIDE DEF asks
  <2>3. Len(asks) \in Nat /\ Len(queue) \in Nat /\ DOMAIN asks = 1 .. Len(asks)
    BY <2>1, <2>2
  <2>4. DOMAIN quotes \subseteq DOMAIN asks /\ (queue = <<>> => DOMAIN asks = DOMAIN quotes)
    <3>1. queue = <<>> => Len(queue) = 0
      OBVIOUS
    <3>2. PICK a \in Nat, b \in Nat, c \in Nat : a = Len(quotes) /\ b = Len(queue) /\ c = Len(asks)
      BY <1>1, <2>3
    <3>3. a + b = c /\ (queue = <<>> => b = 0)
      BY <2>2, <3>1, <3>2
    <3>4. DOMAIN quotes = 1 .. a /\ DOMAIN asks = 1 .. c
      BY <1>1, <2>3, <3>2
    <3>5. 1 .. a \subseteq 1 .. c /\ (queue = <<>> => a = c)
      BY <3>3
    <3> QED BY <3>4, <3>5
  <2>5. /\ \A i \in DOMAIN quotes : i \in DOMAIN asks /\ quotes[i].symbol = asks[i]
        /\ queue = <<>> => DOMAIN asks = DOMAIN quotes
    BY <1>1, <2>2, <2>4
  <2> QED BY <2>1, <2>5 DEF asks
<1>4. ASSUME quoteExit = 0
      PROVE  \A s \in {poll.symbols[i] : i \in DOMAIN poll.symbols} :
               \E i \in DOMAIN quotes : SameSecurity(s, quotes[i].symbol)
  <2>1. PICK list \in Seq(Spelling) : list = poll.symbols
    BY <1>2, <1>4
  <2>2. /\ \A i \in DOMAIN quotes : quotes[i].symbol = AskedSecurities(list)[i]
        /\ DOMAIN AskedSecurities(list) = DOMAIN quotes
        /\ Covers(list, AskedSecurities(list))
    BY <1>2, <1>3, <1>4, <2>1
  <2> QED BY <2>1, <2>2 DEF Covers
<1>5. quoteExit = 0 /\ PollStatus = "ok" => \A i \in DOMAIN quotes : Legal(quotes[i].symbol)
  BY DEF PollStatus, QuoteInv, ItemTold
<1>6. ASSUME NEW i \in DOMAIN quotes, NEW j \in DOMAIN quotes, i < j
      PROVE  /\ ~SameSecurity(quotes[i].symbol, quotes[j].symbol)
             /\ \E m, n \in DOMAIN poll.symbols :
                  m < n /\ quotes[i].symbol = poll.symbols[m] /\ quotes[j].symbol = poll.symbols[n]
  <2>1. quotes # <<>>
    BY <1>1
  <2>2. PICK list \in Seq(Spelling) : list = poll.symbols
    BY <1>2, <2>1
  <2>3. /\ \A k \in DOMAIN quotes : k \in DOMAIN AskedSecurities(list) /\ quotes[k].symbol = AskedSecurities(list)[k]
        /\ InOrder(list, AskedSecurities(list))
    BY <1>2, <1>3, <2>1, <2>2
  <2> QED BY <1>6, <2>2, <2>3 DEF InOrder
<1>7. \A i \in DOMAIN quotes :
        LET q == quotes[i] IN
          /\ q.status = "failed" /\ Legal(q.symbol) =>
               /\ q.errors = FailedCalls(q.heard)
               /\ (IF poll.fast THEN {"legacy"} ELSE QuoteCall) \subseteq q.errors \cup {"info"}
          /\ q.mode = QuoteMode["legacy"] => poll.fast \/ "quotation" \in FailedCalls(q.heard)
  BY DEF QuoteInv, ItemTold
<1> QED BY <1>4, <1>5, <1>6, <1>7 DEF QuotesTold

LEMMA QuoteInitInv == QuoteInit => QuoteInv
<1> SUFFICES ASSUME QuoteInit PROVE QuoteInv
  OBVIOUS
<1>1. heardOf \in [{} -> CallOutcome]
  BY DEF QuoteInit, NoCalls
<1>2. heardOf \in HeardCalls
  BY <1>1 DEF HeardCalls
<1> QED BY <1>2, QuoteAssumption DEF QuoteInit, QuoteInv, PollTyped, ItemsInOrder, CallsHeard

\* What a call adds to the calls that are known.
LEMMA CallIsHeard ==
  ASSUME QuoteInv, NEW call \in QuoteCall, NEW outcome \in CallOutcome, HearCall(call, outcome)
  PROVE  /\ heardOf' \in HeardCalls /\ DOMAIN heardOf' = DOMAIN heardOf \cup {call}
         /\ heardOf'[call] = outcome /\ \A c \in DOMAIN heardOf \ {call} : heardOf'[c] = heardOf[c]
<1>1. PICK S \in SUBSET QuoteCall : heardOf \in [S -> CallOutcome]
  BY DEF QuoteInv, PollTyped, HeardCalls
<1>2. heardOf' \in [S \cup {call} -> CallOutcome] /\ S \cup {call} \in SUBSET QuoteCall
  BY <1>1 DEF HearCall
<1>3. heardOf' \in HeardCalls
  BY <1>2 DEF HeardCalls
<1> QED BY <1>1, <1>3 DEF HearCall

\* The current symbol gets its item.
LEMMA EmitInv ==
  ASSUME QuoteInv, quoteStep \notin {"idle", "ended"}, queue # <<>>,
         NEW mode \in {"realtime", "legacy_realtime", None},
         NEW errors \in SUBSET (QuoteCall \cup {"symbol"}), Emit(mode, errors),
         heardOf' \in HeardCalls,
         mode # None => Legal(Head(queue)),
         mode = None /\ Legal(Head(queue)) =>
           /\ errors = FailedCalls(heardOf')
           /\ (IF poll.fast THEN {"legacy"} ELSE QuoteCall) \subseteq errors \cup {"info"},
         mode = "legacy_realtime" => poll.fast \/ "quotation" \in FailedCalls(heardOf')
  PROVE  QuoteInv'
<1> DEFINE q == [symbol |-> Head(queue), mode |-> mode, errors |-> errors,
                 status |-> IF mode = None THEN "failed" ELSE "ok",
                 info |-> InfoOf(Head(queue), heardOf'), heard |-> heardOf']
<1>1. /\ quotes' = Append(quotes, q) /\ queue' = Tail(queue) /\ quoteStep' = "look"
      /\ UNCHANGED <<poll, quoteExit>>
  BY DEF Emit
<1>2. /\ quotes \in Seq(QuoteItem) /\ PollInOrder /\ quoteExit # 0
      /\ poll \in [fast : BOOLEAN, symbols : Seq(Spelling)]
      /\ \A i \in DOMAIN quotes : ItemTold(quotes[i], poll.fast)
  BY DEF QuoteInv, PollTyped, ItemsInOrder
<1>3. queue \in Seq(Spelling) /\ Head(queue) \in Spelling /\ Tail(queue) \in Seq(Spelling)
  BY <1>2 DEF PollInOrder
<1>4. q \in QuoteItem
  <2>1. InfoOf(Head(queue), heardOf') \in {None, "own", "base"}
    BY DEF InfoOf
  <2> QED BY <1>3, <2>1 DEF QuoteItem
<1>5. q.symbol = Head(queue) /\ q.mode = mode /\ q.errors = errors /\ q.heard = heardOf'
      /\ q.status = IF mode = None THEN "failed" ELSE "ok"
  OBVIOUS
<1>6. ItemTold(q, poll.fast)
  BY <1>5 DEF ItemTold, QuoteMode
<1> HIDE DEF q
<1>7. /\ quotes' \in Seq(QuoteItem) /\ Len(quotes') = Len(quotes) + 1
      /\ \A i \in 1 .. Len(quotes) : quotes'[i] = quotes[i]
      /\ quotes'[Len(quotes) + 1] = q
  BY <1>1, <1>2, <1>4
<1>8. PollTyped'
  BY <1>1, <1>2, <1>7 DEF PollTyped
<1>9. PollInOrder'
  <2> DEFINE asks == AskedSecurities(poll.symbols)
  <2>1. /\ Len(quotes) + Len(queue) = Len(asks)
        /\ \A i \in 1 .. Len(quotes) : quotes[i].symbol = asks[i]
        /\ \A i \in 1 .. Len(queue) : queue[i] = asks[Len(quotes) + i]
    BY <1>2 DEF PollInOrder
  <2>2. asks' = asks
    BY <1>1
  <2> HIDE DEF asks
  <2>3. Len(quotes) \in Nat /\ Len(queue) \in Nat /\ Len(queue) >= 1
    BY <1>2, <1>3
  <2>4. /\ Len(queue') = Len(queue) - 1 /\ queue' \in Seq(Spelling)
        /\ \A i \in 1 .. Len(queue') : queue'[i] = queue[i + 1]
        /\ Head(queue) = queue[1]
    BY <1>1, <1>3
  <2>5. q.symbol = asks[Len(quotes) + 1]
    BY <1>5, <2>1, <2>3, <2>4
  <2>6. Len(quotes') + Len(queue') = Len(asks)
    <3>1. PICK a \in Nat, b \in Nat : a = Len(quotes) /\ b = Len(queue)
      BY <2>3
    <3>2. Len(quotes') = a + 1 /\ Len(queue') = b - 1 /\ Len(asks) = a + b
      BY <1>7, <2>1, <2>4, <3>1
    <3> QED BY <3>2
  <2>7. \A i \in 1 .. Len(quotes') : quotes'[i].symbol = asks[i]
    <3> TAKE i \in 1 .. Len(quotes')
    <3>1. i \in 1 .. Len(quotes) \/ i = Len(quotes) + 1
      BY <1>7, <2>3
    <3> QED BY <1>7, <2>1, <2>5, <3>1
  <2>8. \A i \in 1 .. Len(queue') : queue'[i] = asks[Len(quotes') + i]
    <3> TAKE i \in 1 .. Len(queue')
    <3>1. i + 1 \in 1 .. Len(queue) /\ Len(quotes') + i = Len(quotes) + (i + 1)
      BY <1>7, <2>3, <2>4
    <3> QED BY <2>1, <2>4, <3>1
  <2> QED BY <2>2, <2>4, <2>6, <2>7, <2>8 DEF PollInOrder, asks
<1>10. \A i \in DOMAIN quotes' : ItemTold(quotes'[i], poll.fast)
  <2> TAKE i \in DOMAIN quotes'
  <2>1. i \in DOMAIN quotes \/ i = Len(quotes) + 1
    BY <1>2, <1>7
  <2> QED BY <1>2, <1>6, <1>7, <2>1
<1> QED BY <1>1, <1>8, <1>9, <1>10 DEF QuoteInv, ItemsInOrder, CallsHeard, ItemTold, Legal

\* The calls of a symbol.
LEMMA LookInv ==
  ASSUME QuoteInv, LookAtSymbol PROVE QuoteInv'
<1>1. quoteStep = "look" /\ queue # <<>> /\ heardOf' = NoCalls
  BY DEF LookAtSymbol
<1>2. heardOf' \in HeardCalls /\ DOMAIN heardOf' = {}
  <2>1. heardOf' \in [{} -> CallOutcome]
    BY <1>1 DEF NoCalls
  <2> QED BY <2>1 DEF HeardCalls
<1>3. CASE Legal(Head(queue))
  <2>1. /\ quoteStep' = IF poll.fast THEN "legacy" ELSE "info"
        /\ UNCHANGED <<poll, queue, quotes, quoteExit>>
    BY <1>3 DEF LookAtSymbol
  <2> QED BY <1>1, <1>2, <1>3, <2>1
          DEF QuoteInv, PollTyped, ItemsInOrder, PollInOrder, CallsHeard, ItemTold, Legal
<1>4. CASE ~Legal(Head(queue))
  <2>1. Emit(None, {"symbol"})
    BY <1>4 DEF LookAtSymbol
  <2> QED BY <1>1, <1>2, <1>4, <2>1, EmitInv, QuoteAssumption
<1> QED BY <1>3, <1>4

LEMMA InfoInv ==
  ASSUME QuoteInv, NEW outcome \in CallOutcome, AskInfo(outcome) PROVE QuoteInv'
<1>1. /\ quoteStep = "info" /\ quoteStep' = "quotation" /\ HearCall("info", outcome)
      /\ UNCHANGED <<poll, queue, quotes, quoteExit>>
  BY DEF AskInfo
<1>2. heardOf' \in HeardCalls /\ DOMAIN heardOf' = DOMAIN heardOf \cup {"info"}
  BY <1>1, CallIsHeard DEF QuoteCall
<1> QED BY <1>1, <1>2
        DEF QuoteInv, PollTyped, ItemsInOrder, PollInOrder, CallsHeard, ItemTold, Legal

LEMMA QuotationInv ==
  ASSUME QuoteInv, NEW outcome \in CallOutcome, AskQuotation(outcome) PROVE QuoteInv'
<1>1. /\ quoteStep = "quotation" /\ HearCall("quotation", outcome)
      /\ ~poll.fast /\ DOMAIN heardOf = {"info"} /\ queue # <<>> /\ Legal(Head(queue))
  BY DEF AskQuotation, QuoteInv, CallsHeard
<1>2. /\ heardOf' \in HeardCalls /\ DOMAIN heardOf' = {"info", "quotation"}
      /\ heardOf'["quotation"] = outcome
  BY <1>1, CallIsHeard DEF QuoteCall
<1>3. CASE outcome = "row"
  <2>1. Emit("realtime", {})
    BY <1>3 DEF AskQuotation, QuoteMode
  <2> QED BY <1>1, <1>2, <2>1, EmitInv, QuoteAssumption
<1>4. CASE outcome # "row"
  <2>1. quoteStep' = "legacy" /\ UNCHANGED <<poll, queue, quotes, quoteExit>>
    BY <1>4 DEF AskQuotation
  <2> QED BY <1>1, <1>2, <1>4, <2>1
          DEF QuoteInv, PollTyped, ItemsInOrder, PollInOrder, CallsHeard, ItemTold, Legal
<1> QED BY <1>3, <1>4

LEMMA LegacyInv ==
  ASSUME QuoteInv, NEW outcome \in CallOutcome, AskLegacy(outcome) PROVE QuoteInv'
<1>1. /\ quoteStep = "legacy" /\ HearCall("legacy", outcome) /\ queue # <<>> /\ Legal(Head(queue))
      /\ IF poll.fast THEN DOMAIN heardOf = {}
         ELSE DOMAIN heardOf = {"info", "quotation"} /\ heardOf["quotation"] # "row"
  BY DEF AskLegacy, QuoteInv, CallsHeard
<1>2. /\ heardOf' \in HeardCalls /\ DOMAIN heardOf' = DOMAIN heardOf \cup {"legacy"}
      /\ heardOf'["legacy"] = outcome /\ (~poll.fast => heardOf'["quotation"] # "row")
  BY <1>1, CallIsHeard DEF QuoteCall
<1>3. ~poll.fast => "quotation" \in FailedCalls(heardOf')
  BY <1>1, <1>2 DEF FailedCalls
<1>4. CASE outcome = "row"
  <2>1. Emit("legacy_realtime", {})
    BY <1>4 DEF AskLegacy, QuoteMode
  <2> QED BY <1>1, <1>2, <1>3, <2>1, EmitInv, QuoteAssumption
<1>5. CASE outcome # "row"
  <2>1. Emit(None, FailedCalls(heardOf'))
    BY <1>5 DEF AskLegacy
  <2>2. FailedCalls(heardOf') \in SUBSET (QuoteCall \cup {"symbol"})
    BY <1>1, <1>2 DEF FailedCalls, QuoteCall
  <2>3. (IF poll.fast THEN {"legacy"} ELSE QuoteCall) \subseteq FailedCalls(heardOf') \cup {"info"}
    BY <1>2, <1>3, <1>5 DEF FailedCalls, QuoteCall
  <2> QED BY <1>1, <1>2, <2>1, <2>2, <2>3, EmitInv, QuoteAssumption
<1> QED BY <1>4, <1>5

LEMMA QuoteStepInv == QuoteInv /\ [QuoteNext]_quoteVars => QuoteInv'
<1> SUFFICES ASSUME QuoteInv, [QuoteNext]_quoteVars PROVE QuoteInv'
  OBVIOUS
<1>1. ASSUME NEW list \in QuoteLists, NEW fast \in BOOLEAN, NEW pro \in {"ready", "missing", "broken"},
             StartPoll(list, fast, pro)
      PROVE  QuoteInv'
  <2>1. /\ quoteStep = "idle" /\ poll' = [fast |-> fast, symbols |-> list] /\ UNCHANGED <<heardOf, quotes>>
        /\ quotes = <<>> /\ list \in Seq(Spelling)
    BY <1>1, QuoteAssumption DEF StartPoll, QuoteInv, ItemsInOrder, Spelling
  <2>2. CASE quoteExit' = None
    <3>1. queue' = AskedSecurities(list) /\ quoteStep' = "look" /\ quoteExit' # 0
      BY <1>1, <2>2, QuoteAssumption DEF StartPoll
    <3>2. AskedSecurities(list) \in Seq(Spelling)
      BY <2>1, AskedOnce
    <3>3. PollInOrder'
      <4>1. poll'.symbols = list /\ quotes' = <<>> /\ Len(quotes') = 0
        BY <2>1
      <4>2. Len(AskedSecurities(list)) \in Nat
        BY <3>2
      <4> HIDE DEF AskedSecurities
      <4> QED BY <3>1, <3>2, <4>1, <4>2 DEF PollInOrder
    <3> QED BY <2>1, <3>1, <3>3 DEF QuoteInv, PollTyped, ItemsInOrder, CallsHeard
  <2>3. CASE quoteExit' # None
    <3>1. quoteStep' = "ended" /\ quoteExit' \in {1, 2, 3}
      BY <1>1, <2>3 DEF StartPoll
    <3> QED BY <2>1, <3>1 DEF QuoteInv, PollTyped, ItemsInOrder, CallsHeard
  <2> QED BY <2>2, <2>3
<1>2. ASSUME EndPoll PROVE QuoteInv'
  <2>1. /\ quoteStep = "look" /\ queue = <<>> /\ quoteStep' = "ended" /\ quoteExit' = 0
        /\ UNCHANGED <<poll, queue, heardOf, quotes>>
    BY <1>2 DEF EndPoll
  <2> QED BY <2>1 DEF QuoteInv, PollTyped, ItemsInOrder, PollInOrder, CallsHeard, ItemTold, Legal
<1>3. CASE UNCHANGED quoteVars
  BY <1>3 DEF quoteVars, QuoteInv, PollTyped, ItemsInOrder, PollInOrder, CallsHeard, ItemTold, Legal
<1> QED BY <1>1, <1>2, <1>3, LookInv, InfoInv, QuotationInv, LegacyInv DEF QuoteNext

\* The quotes of a poll are those of the securities asked for, each once and in their order,
\* and what failed for a quote is told, in every poll.  (RealtimeQuotePollingService.poll)
THEOREM QuotesHold == QuoteSpec => []QuotesTold
<1>1. QuoteSpec => []QuoteInv
  BY QuoteInitInv, QuoteStepInv, PTL DEF QuoteSpec
<1> QED BY <1>1, QuoteInvTold, PTL
-----------------------------------------------------------------------------
(* StockAnalyze. *)

ModuleStatus == {"ok", "empty", "partial", "error", "permission_denied", "not_supported"}
Block == [status : ModuleStatus, age : Ages \cup {None}]
ModuleResult ==
  [status : ModuleStatus, age : Ages \cup {None},
   says : SUBSET {"supportive", "neutral", "caution", "valuation", "reported", "consensus", "events", "metrics"}]
ModuleName ==
  RawModules \cup
  {"technical", "earnings", "earnings_preview", "dcf", "comps", "three_statement", "lbo",
   "three_statement_scenarios", "competitive", "catalysts", "screen", "model_update", "sector_overview"}
AnalyzeCall == {"look_up", "window", "history", "source", "rows", "module", "figures"}
Request == [market : {"cn", "us"}, mode : {"base", "full"}, symbols : Nat]

Item ==
  [blocks : [RawModules -> Block],
   window : {None, "requested_window", "latest_stock_specific_report_date", "requested_window_no_specific_history"},
   askedNews : Nat, foundNews : Ages \cup {None}, failedNews : Unavailable \cup {None},
   nextEarnings : {"future", "none", "naive"}, results : Seq(ModuleResult),
   heard : SUBSET (ModuleName \X AnalyzeCall)]

CnSteps == {"look_up_native", "report_rc", "history", "research_report", "anns_d", "news", "major_news"}

AnalyzeTyped ==
  /\ step \in {"idle", "look_up", "execute", "respond", "answered"} \cup CnSteps
  /\ step # "idle" => asked \in Request
  /\ item \in Item

\* The modules of which nothing is heard yet.
NotAsked ==
  CASE step \in {"history", "research_report"} -> ModuleName \ {"report_rc"}
    [] step = "anns_d" -> ModuleName \ {"report_rc", "research_report"}
    [] step = "news" -> ModuleName \ {"report_rc", "research_report", "anns_d", "news"}
    [] step \in {"major_news", "execute", "answered"} -> {}
    [] OTHER -> ModuleName

\* A call that failed shows in its block or in its module's result, or in what replaces it.
CallTold(f) ==
  \/ f[2] = "rows"
  \/ /\ f[1] = "report_rc" /\ f[2] = "history"
     /\ item.window = "requested_window_no_specific_history"
  \/ /\ f[2] = "look_up" /\ step \in {"execute", "answered"} /\ f[1] \in RawModules
     /\ item.blocks[f[1]].status \in {"error", "not_supported"}
  \/ /\ f[2] = "window" /\ f[1] \in {"report_rc", "research_report", "anns_d"}
     /\ \/ item.blocks[f[1]].status \in Unavailable
        \/ item.window = "latest_stock_specific_report_date"
  \/ /\ f[2] = "source" /\ f[1] \in {"news", "major_news"}
     /\ IF step = f[1] THEN item.failedNews \in Unavailable
        ELSE <<f[1], "rows">> \in item.heard \/ item.blocks[f[1]].status \in Unavailable
  \/ /\ f[2] = "module"
     /\ \E i \in DOMAIN item.results :
          Modules[i] = f[1] /\ item.results[i].status \in Unavailable
  \/ /\ f[2] = "figures"
     /\ \E i \in DOMAIN item.results : Modules[i] = f[1] /\ WithoutFigures(f[1], item.results[i])

CallsTold ==
  /\ \A f \in item.heard : f[1] \notin NotAsked /\ CallTold(f)
  /\ step \in CnSteps \/ (\E f \in item.heard : f[2] # "module") => asked.market = "cn"
  /\ step = "history" => item.window = "requested_window"

\* The catalysts draw on these blocks.
NewsFailed ==
  \E b \in {"anns_d", "news", "major_news"} :
    item.blocks[b].status \in Unavailable \cup {"not_supported"}

ResultsOfBlocks ==
  /\ step \notin {"execute", "answered"} => item.results = <<>>
  /\ \A i \in DOMAIN item.results :
       /\ Modules[i] \in RawModules => item.results[i].status = item.blocks[Modules[i]].status
       /\ Modules[i] = "catalysts" /\ asked.market = "cn" /\ NewsFailed =>
            item.results[i].status = "partial"

AnalyzeInv == AnalyzeTyped /\ CallsTold /\ ResultsOfBlocks /\ FailuresTold

LEMMA AnswersAreBlocks == Answers \subseteq Block /\ \A s \in ModuleStatus : NoRows(s) \in Block
BY DEF Answers, NoRows, Block, Unavailable, ModuleStatus

\* A new item has nothing to tell.
LEMMA NewItemInv ==
  ASSUME item' = NewItem, FailuresTold', (step' # "idle") => asked' \in Request,
         step' \in {"idle", "look_up", "respond"}
  PROVE  AnalyzeInv'
<1>1. NewItem \in Item
  <2>1. NoRows("empty") \in Block
    BY AnswersAreBlocks DEF ModuleStatus
  <2>2. <<>> \in Seq(ModuleResult)
    OBVIOUS
  <2> QED BY <2>1, <2>2 DEF NewItem, Item
<1>2. NewItem.heard = {} /\ NewItem.results = <<>>
  BY DEF NewItem
<1>3. AnalyzeTyped'
  BY <1>1 DEF AnalyzeTyped
<1>4. CallsTold' /\ ResultsOfBlocks'
  BY <1>2 DEF CallsTold, ResultsOfBlocks, CnSteps
<1> QED BY <1>3, <1>4 DEF AnalyzeInv

LEMMA AnalyzeInitInv == AnalyzeInit => AnalyzeInv
<1> SUFFICES ASSUME AnalyzeInit PROVE AnalyzeInv
  OBVIOUS
<1>1. NewItem \in Item
  <2>1. NoRows("empty") \in Block
    BY AnswersAreBlocks DEF ModuleStatus
  <2>2. <<>> \in Seq(ModuleResult)
    OBVIOUS
  <2> QED BY <2>1, <2>2 DEF NewItem, Item
<1>2. NewItem.heard = {} /\ NewItem.results = <<>>
  BY DEF NewItem
<1> QED BY <1>1, <1>2
        DEF AnalyzeInit, AnalyzeInv, AnalyzeTyped, CallsTold, CnSteps, ResultsOfBlocks, FailuresTold

\* What a published item tells.
TellsFailures(p) ==
  \A f \in {c \in p.heard : c[2] # "rows"} :
    \/ f[1] \in p.reasons /\ p.status \in {"partial", "failed"}
    \/ f[1] \in {"anns_d", "news", "major_news"} /\ "catalysts" \in p.reasons
    \/ f[2] = "source" /\ <<f[1], "rows">> \in p.heard
    \/ f[2] = "window" /\ p.window = "latest_stock_specific_report_date"
    \/ f = <<"report_rc", "history">> /\ p.window = "requested_window_no_specific_history"
    \/ f = <<"screen", "figures">> /\ ~p.metrics

LEMMA DeliverInv ==
  ASSUME AnalyzeInv, step # "idle", NEW public, Deliver(public), TellsFailures(public)
  PROVE  AnalyzeInv'
<1>1. /\ published' = public /\ item' = NewItem /\ step' \in {"respond", "look_up"} /\ asked' = asked
  BY DEF Deliver
<1>2. FailuresTold'
  BY <1>1 DEF FailuresTold, TellsFailures
<1> QED BY <1>1, <1>2, NewItemInv DEF AnalyzeInv, AnalyzeTyped

\* Before anything is asked nothing is heard.
LEMMA NothingHeard ==
  ASSUME AnalyzeInv, step \in {"idle", "look_up", "look_up_native", "report_rc", "respond"}
  PROVE  item.heard = {} /\ item.results = <<>>
<1>1. NotAsked = ModuleName
  BY DEF NotAsked
<1>2. \A f \in item.heard : f[1] \in ModuleName
  BY DEF AnalyzeInv, AnalyzeTyped, Item
<1> QED BY <1>1, <1>2 DEF AnalyzeInv, CallsTold, ResultsOfBlocks

\* A step that leaves the empty item as it is.
LEMMA StillNothing ==
  ASSUME AnalyzeInv, item.heard = {}, item.results = <<>>, item'.heard = {}, item'.results = <<>>,
         item' \in Item, step' \in {"look_up", "look_up_native", "report_rc", "execute", "answered"},
         asked' \in Request, step' \in CnSteps => asked'.market = "cn", published' = published
  PROVE  AnalyzeInv'
<1>1. AnalyzeTyped'
  BY DEF AnalyzeTyped, CnSteps
<1>2. CallsTold'
  BY DEF CallsTold, CnSteps
<1>3. ResultsOfBlocks'
  BY DEF ResultsOfBlocks
<1>4. FailuresTold'
  BY DEF AnalyzeInv, FailuresTold
<1> QED BY <1>1, <1>2, <1>3, <1>4 DEF AnalyzeInv

LEMMA AskInv ==
  ASSUME AnalyzeInv, NEW r \in AnalyzeRequests, NEW valid \in BOOLEAN, Ask(r, valid)
  PROVE  AnalyzeInv'
<1>1. /\ step = "idle" /\ asked' = r /\ step' \in {"look_up", "answered"}
      /\ UNCHANGED <<item, published>>
  BY DEF Ask
<1>2. r \in Request
  BY AnalyzeAssumption DEF Request
<1>3. item.heard = {} /\ item.results = <<>> /\ item \in Item
  BY <1>1, NothingHeard DEF AnalyzeInv, AnalyzeTyped
<1> QED BY <1>1, <1>2, <1>3, StillNothing DEF CnSteps

LEMMA LookUpCnInv ==
  ASSUME AnalyzeInv, LookUpCn PROVE AnalyzeInv'
<1>1. PICK record \in CnRecords \cup {"malformed"} :
        IF record = "stock" THEN GoOn("look_up_native", item)
        ELSE Deliver(EarlyItem(EarlyStatus(record)))
  BY DEF LookUpCn
<1>2. step = "look_up" /\ asked.market = "cn" /\ asked \in Request /\ item \in Item
  BY DEF LookUpCn, AnalyzeInv, AnalyzeTyped
<1>3. CASE record = "stock"
  <2>1. step' = "look_up_native" /\ item' = item /\ asked' = asked /\ published' = published
    BY <1>1, <1>3 DEF GoOn
  <2> QED BY <1>2, <2>1, NothingHeard, StillNothing
<1>4. CASE record # "stock"
  <2>1. TellsFailures(EarlyItem(EarlyStatus(record)))
    BY DEF TellsFailures, EarlyItem
  <2> QED BY <1>1, <1>2, <1>4, <2>1, DeliverInv
<1> QED BY <1>3, <1>4

LEMMA LookUpUsInv ==
  ASSUME AnalyzeInv, NEW next \in {"future", "none", "naive"}, LookUpUs(next) PROVE AnalyzeInv'
<1>1. PICK record \in UsRecords :
        IF record = "stock" THEN GoOn("execute", [item EXCEPT !.nextEarnings = next])
        ELSE Deliver(EarlyItem(EarlyStatus(record)))
  BY DEF LookUpUs
<1>2. step = "look_up" /\ asked \in Request /\ item \in Item
  BY DEF LookUpUs, AnalyzeInv, AnalyzeTyped
<1>3. CASE record = "stock"
  <2>1. /\ step' = "execute" /\ item' = [item EXCEPT !.nextEarnings = next]
        /\ asked' = asked /\ published' = published
    BY <1>1, <1>3 DEF GoOn
  <2>2. item' \in Item /\ item'.heard = item.heard /\ item'.results = item.results
    BY <1>2, <2>1 DEF Item
  <2> QED BY <1>2, <2>1, <2>2, NothingHeard, StillNothing DEF CnSteps
<1>4. CASE record # "stock"
  <2>1. TellsFailures(EarlyItem(EarlyStatus(record)))
    BY DEF TellsFailures, EarlyItem
  <2> QED BY <1>1, <1>2, <1>4, <2>1, DeliverInv
<1> QED BY <1>3, <1>4

LEMMA LookUpNativeInv ==
  ASSUME AnalyzeInv, LookUpNative PROVE AnalyzeInv'
<1>1. /\ step = "look_up_native" /\ asked.market = "cn" /\ asked \in Request /\ item \in Item
      /\ item.heard = {} /\ item.results = <<>>
  BY NothingHeard DEF LookUpNative, AnalyzeInv, AnalyzeTyped, CallsTold, CnSteps
<1>2. ASSUME GoOn("report_rc", item) PROVE AnalyzeInv'
  <2>1. step' = "report_rc" /\ item' = item /\ asked' = asked /\ published' = published
    BY <1>2 DEF GoOn
  <2> QED BY <1>1, <2>1, StillNothing
<1>3. ASSUME NEW status \in {"error", "not_supported"}, GoOn("execute", Blocked(status))
      PROVE  AnalyzeInv'
  <2>1. step' = "execute" /\ item' = Blocked(status) /\ asked' = asked /\ published' = published
    BY <1>3 DEF GoOn
  <2>2. /\ item' \in Item /\ item'.results = <<>>
        /\ item'.heard = {<<b, "look_up">> : b \in RawModules}
        /\ \A b \in RawModules : item'.blocks[b].status = status
    <3>1. NoRows(status) \in Block /\ NoRows(status).status = status
      BY AnswersAreBlocks DEF ModuleStatus, NoRows
    <3>2. {<<b, "look_up">> : b \in RawModules} \subseteq ModuleName \X AnalyzeCall
      BY DEF ModuleName, AnalyzeCall
    <3> QED BY <1>1, <2>1, <3>1, <3>2 DEF Blocked, Item
  <2>3. \A f \in item'.heard : f[1] \in RawModules /\ f[2] = "look_up"
    BY <2>2
  <2>4. AnalyzeTyped'
    BY <1>1, <2>1, <2>2 DEF AnalyzeTyped
  <2>5. CallsTold'
    BY <1>1, <2>1, <2>2, <2>3 DEF CallsTold, CallTold, NotAsked
  <2>6. ResultsOfBlocks' /\ FailuresTold'
    BY <2>1, <2>2 DEF ResultsOfBlocks, FailuresTold, AnalyzeInv
  <2> QED BY <2>4, <2>5, <2>6 DEF AnalyzeInv
<1> QED BY <1>2, <1>3 DEF LookUpNative, FailedItem, NotSupportedItem

\* A call for rows of the window whose answer becomes the module's block.
LEMMA WindowInv ==
  ASSUME AnalyzeInv, step \in {"report_rc", "research_report", "anns_d"},
         NEW m \in {"report_rc", "research_report", "anns_d"}, m \in NotAsked,
         NEW block \in Answers, item' \in Item, item'.results = <<>>,
         item'.blocks = [item.blocks EXCEPT ![m] = block],
         item'.heard = item.heard \cup Heard(m, "window", block),
         item'.window = item.window \/ item.heard = {},
         step' \in {"history", "research_report", "anns_d", "news"},
         step' = "history" => item'.window = "requested_window",
         NotAsked' \subseteq NotAsked \ {m}, asked' = asked, published' = published
  PROVE  AnalyzeInv'
<1>1. /\ asked \in Request /\ item \in Item /\ asked.market = "cn"
      /\ \A f \in item.heard : f[1] \notin NotAsked /\ CallTold(f)
  BY DEF AnalyzeInv, AnalyzeTyped, CallsTold, CnSteps
<1>2. AnalyzeTyped'
  BY <1>1 DEF AnalyzeTyped, CnSteps
<1>3. ASSUME NEW f \in item'.heard PROVE (f[1] \notin NotAsked /\ CallTold(f))'
  <2>1. CASE f \in item.heard
    <3>1. f[1] \notin NotAsked /\ f[1] # m /\ CallTold(f)
      BY <1>1, <2>1
    <3>2. f[1] \notin {"news", "major_news"} /\ f[2] \notin {"look_up", "module", "figures"}
      <4>1. {"news", "major_news"} \subseteq NotAsked
        BY DEF NotAsked, ModuleName, RawModules
      <4>2. item.results = <<>>
        BY DEF AnalyzeInv, ResultsOfBlocks
      <4> QED BY <3>1, <4>1, <4>2 DEF CallTold
    <3>3. f[1] \in RawModules => item'.blocks[f[1]] = item.blocks[f[1]]
      BY <1>1, <3>1 DEF Item
    <3>4. item'.window = item.window
      BY <2>1
    <3> QED BY <3>1, <3>2, <3>3, <3>4 DEF CallTold, RawModules
  <2>2. CASE f \notin item.heard
    <3>1. f = <<m, "window">> /\ block.status \in Unavailable
      BY <2>2 DEF Heard
    <3>2. item'.blocks[m] = block
      BY <1>1 DEF Item, RawModules
    <3> QED BY <3>1, <3>2 DEF CallTold
  <2> QED BY <2>1, <2>2
<1>4. CallsTold'
  BY <1>1, <1>3 DEF CallsTold
<1>5. ResultsOfBlocks' /\ FailuresTold'
  BY DEF ResultsOfBlocks, FailuresTold, AnalyzeInv
<1> QED BY <1>2, <1>4, <1>5 DEF AnalyzeInv

\* What a call for a block changes of an item.
LEMMA BlockInPlace ==
  ASSUME item \in Item, NEW m \in RawModules, NEW block \in Answers, NEW call \in AnalyzeCall,
         NEW window \in {None, "requested_window", "latest_stock_specific_report_date",
                         "requested_window_no_specific_history"},
         item' = [item EXCEPT !.blocks[m] = block, !.window = window,
                              !.heard = @ \cup Heard(m, call, block)]
  PROVE  /\ item' \in Item /\ item'.results = item.results /\ item'.window = window
         /\ item'.blocks = [item.blocks EXCEPT ![m] = block]
         /\ item'.heard = item.heard \cup Heard(m, call, block)
<1>1. block \in Block
  BY AnswersAreBlocks
<1>2. Heard(m, call, block) \subseteq ModuleName \X AnalyzeCall
  BY DEF Heard, ModuleName
<1>3. [item.blocks EXCEPT ![m] = block] \in [RawModules -> Block]
  BY <1>1 DEF Item
<1> HIDE DEF Heard
<1> QED BY <1>2, <1>3 DEF Item

LEMMA ReportRcInv ==
  ASSUME AnalyzeInv, NEW block \in Answers, NEW specific \in BOOLEAN, AskReportRc(block, specific)
  PROVE  AnalyzeInv'
<1>1. /\ step = "report_rc" /\ step' \in {"research_report", "history"}
      /\ item' = [item EXCEPT !.blocks["report_rc"] = block, !.window = "requested_window",
                              !.heard = @ \cup Heard("report_rc", "window", block)]
      /\ asked' = asked /\ published' = published
  BY DEF AskReportRc, GoOn
<1>2. /\ item' \in Item /\ item'.results = item.results /\ item'.window = "requested_window"
      /\ item'.blocks = [item.blocks EXCEPT !["report_rc"] = block]
      /\ item'.heard = item.heard \cup Heard("report_rc", "window", block)
  BY <1>1, BlockInPlace DEF AnalyzeInv, AnalyzeTyped, RawModules, AnalyzeCall
<1>3. item.heard = {} /\ item.results = <<>>
  BY <1>1, NothingHeard
<1>4. "report_rc" \in NotAsked /\ NotAsked' \subseteq NotAsked \ {"report_rc"}
  BY <1>1 DEF NotAsked, ModuleName, RawModules
<1> QED BY <1>1, <1>2, <1>3, <1>4, WindowInv

LEMMA ResearchInv ==
  ASSUME AnalyzeInv, NEW block \in Answers, AskResearch(block) PROVE AnalyzeInv'
<1>1. /\ step = "research_report" /\ step' = "anns_d"
      /\ item' = [item EXCEPT !.blocks["research_report"] = block,
                              !.heard = @ \cup Heard("research_report", "window", block)]
      /\ asked' = asked /\ published' = published /\ item \in Item
  BY DEF AskResearch, GoOn, AnalyzeInv, AnalyzeTyped
<1>2. item' = [item EXCEPT !.blocks["research_report"] = block, !.window = item.window,
                           !.heard = @ \cup Heard("research_report", "window", block)]
  BY <1>1 DEF Item
<1>3. /\ item' \in Item /\ item'.results = item.results /\ item'.window = item.window
      /\ item'.blocks = [item.blocks EXCEPT !["research_report"] = block]
      /\ item'.heard = item.heard \cup Heard("research_report", "window", block)
  <2>1. item.window \in {None, "requested_window", "latest_stock_specific_report_date",
                         "requested_window_no_specific_history"}
    BY <1>1 DEF Item
  <2>2. item \in Item
    BY <1>1
  <2>3. "research_report" \in RawModules /\ "window" \in AnalyzeCall
    BY DEF RawModules, AnalyzeCall
  <2> QED BY <1>2, <2>1, <2>2, <2>3, BlockInPlace
<1>4. item.results = <<>>
  BY <1>1 DEF AnalyzeInv, ResultsOfBlocks
<1>5. "research_report" \in NotAsked /\ NotAsked' \subseteq NotAsked \ {"research_report"}
  BY <1>1 DEF NotAsked, ModuleName, RawModules
<1> QED BY <1>1, <1>3, <1>4, <1>5, WindowInv

LEMMA AnnouncementsInv ==
  ASSUME AnalyzeInv, NEW block \in Answers, AskAnnouncements(block) PROVE AnalyzeInv'
<1>1. /\ step = "anns_d" /\ step' = "news"
      /\ item' = [item EXCEPT !.blocks["anns_d"] = block,
                              !.heard = @ \cup Heard("anns_d", "window", block)]
      /\ asked' = asked /\ published' = published /\ item \in Item
  BY DEF AskAnnouncements, GoOn, AnalyzeInv, AnalyzeTyped
<1>2. item' = [item EXCEPT !.blocks["anns_d"] = block, !.window = item.window,
                           !.heard = @ \cup Heard("anns_d", "window", block)]
  BY <1>1 DEF Item
<1>3. /\ item' \in Item /\ item'.results = item.results /\ item'.window = item.window
      /\ item'.blocks = [item.blocks EXCEPT !["anns_d"] = block]
      /\ item'.heard = item.heard \cup Heard("anns_d", "window", block)
  <2>1. item.window \in {None, "requested_window", "latest_stock_specific_report_date",
                         "requested_window_no_specific_history"}
    BY <1>1 DEF Item
  <2>2. item \in Item
    BY <1>1
  <2>3. "anns_d" \in RawModules /\ "window" \in AnalyzeCall
    BY DEF RawModules, AnalyzeCall
  <2> QED BY <1>2, <2>1, <2>2, <2>3, BlockInPlace
<1>4. item.results = <<>>
  BY <1>1 DEF AnalyzeInv, ResultsOfBlocks
<1>5. "anns_d" \in NotAsked /\ NotAsked' \subseteq NotAsked \ {"anns_d"}
  BY <1>1 DEF NotAsked, ModuleName, RawModules
<1> QED BY <1>1, <1>3, <1>4, <1>5, WindowInv

LEMMA HistoryInv ==
  ASSUME AnalyzeInv, NEW block \in Answers, NEW specific \in BOOLEAN, AskHistory(block, specific)
  PROVE  AnalyzeInv'
<1>1. /\ step = "history" /\ step' = "anns_d" /\ asked' = asked /\ published' = published
      /\ item' = [item EXCEPT !.blocks["report_rc"] = IF specific THEN block ELSE @,
                              !.window = IF specific THEN "latest_stock_specific_report_date"
                                         ELSE "requested_window_no_specific_history",
                              !.heard = @ \cup Heard("report_rc", "history", block)]
  BY DEF AskHistory, GoOn
<1>2. /\ asked \in Request /\ item \in Item /\ asked.market = "cn" /\ item.results = <<>>
      /\ item.window = "requested_window"
      /\ \A f \in item.heard : f[1] \notin NotAsked /\ CallTold(f)
  BY <1>1 DEF AnalyzeInv, AnalyzeTyped, CallsTold, CnSteps, ResultsOfBlocks
<1>3. /\ item' \in Item /\ item'.results = <<>>
      /\ item'.heard = item.heard \cup Heard("report_rc", "history", block)
      /\ IF specific THEN item'.window = "latest_stock_specific_report_date"
         ELSE /\ item'.blocks = item.blocks
              /\ item'.window = "requested_window_no_specific_history"
  <2>1. block \in Block
    BY AnswersAreBlocks
  <2>2. Heard("report_rc", "history", block) \subseteq ModuleName \X AnalyzeCall
    BY DEF Heard, ModuleName, RawModules, AnalyzeCall
  <2>3. [item.blocks EXCEPT !["report_rc"] = IF specific THEN block ELSE @] \in [RawModules -> Block]
    BY <1>2, <2>1 DEF Item
  <2>4. ~specific => [item.blocks EXCEPT !["report_rc"] = IF specific THEN block ELSE @] = item.blocks
    BY <1>2 DEF Item
  <2> QED BY <1>1, <1>2, <2>2, <2>3, <2>4 DEF Item
<1>4. ASSUME NEW f \in item'.heard PROVE (f[1] \notin NotAsked /\ CallTold(f))'
  <2>1. CASE f \in item.heard
    <3>1. f[1] = "report_rc" /\ CallTold(f)
      <4>1. f[1] \in ModuleName
        BY <1>2, <2>1 DEF Item
      <4>2. NotAsked = ModuleName \ {"report_rc"}
        BY <1>1 DEF NotAsked
      <4> QED BY <1>2, <2>1, <4>1, <4>2
    <3>2. f[2] \in {"rows", "window"}
      BY <1>1, <1>2, <3>1 DEF CallTold
    <3>3. "report_rc" \notin NotAsked'
      BY <1>1 DEF NotAsked
    <3> QED BY <1>2, <1>3, <3>1, <3>2, <3>3 DEF CallTold
  <2>2. CASE f \notin item.heard
    <3>1. f = <<"report_rc", "history">> /\ block.status \in Unavailable
      BY <1>3, <2>2 DEF Heard
    <3>2. item'.window = "requested_window_no_specific_history"
      BY <1>3, <3>1 DEF AskHistory, Unavailable
    <3> QED BY <1>1, <3>1, <3>2 DEF CallTold, NotAsked
  <2> QED BY <2>1, <2>2
<1>5. AnalyzeTyped' /\ CallsTold'
  BY <1>1, <1>2, <1>3, <1>4 DEF AnalyzeTyped, CallsTold, CnSteps
<1>6. ResultsOfBlocks' /\ FailuresTold'
  BY <1>1, <1>3 DEF ResultsOfBlocks, FailuresTold, AnalyzeInv
<1> QED BY <1>5, <1>6 DEF AnalyzeInv

\* A source of news: another is asked, or the block is made of what all of them gave.
LEMMA NewsInv ==
  ASSUME AnalyzeInv, NEW block \in Answers, AskNews(block) PROVE AnalyzeInv'
<1> DEFINE found == Younger(item.foundNews, block.age)
           failed == IF item.failedNews = None /\ block.status \in Unavailable THEN block.status
                     ELSE item.failedNews
           heard == item.heard \cup Heard(step, "source", block)
                               \cup {<<step, "rows">> : x \in {found} \ {None}}
           asking == [item EXCEPT !.askedNews = @ + 1, !.foundNews = found, !.failedNews = failed,
                                  !.heard = @ \cup Heard(step, "source", block)
                                              \cup {<<step, "rows">> : x \in {found} \ {None}}]
<1>1. /\ step \in {"news", "major_news"} /\ asked' = asked /\ published' = published
      /\ \/ step' = step /\ item' = asking
         \/ /\ step' = IF step = "news" THEN "major_news" ELSE "execute"
            /\ item' = [asking EXCEPT !.blocks[step] = NewsBlock(found, failed),
                                      !.askedNews = 0, !.foundNews = None, !.failedNews = None]
  BY DEF AskNews, GoOn
<1>2. /\ asked \in Request /\ item \in Item /\ asked.market = "cn" /\ item.results = <<>>
      /\ \A f \in item.heard : f[1] \notin NotAsked /\ CallTold(f)
  BY <1>1 DEF AnalyzeInv, AnalyzeTyped, CallsTold, CnSteps, ResultsOfBlocks
<1>3. block \in Block
  BY AnswersAreBlocks
<1>4. found \in Ages \cup {None} /\ failed \in Unavailable \cup {None}
  BY <1>2, <1>3 DEF Younger, Item, Block
<1>5. heard \subseteq ModuleName \X AnalyzeCall
  BY <1>1, <1>2 DEF Heard, ModuleName, RawModules, AnalyzeCall, Item
<1>6. /\ asking \in Item /\ asking.blocks = item.blocks /\ asking.results = <<>>
      /\ asking.window = item.window /\ asking.heard = heard /\ asking.failedNews = failed
  <2>1. item.askedNews + 1 \in Nat
    BY <1>2 DEF Item
  <2> HIDE DEF found, failed
  <2> QED BY <1>2, <1>4, <1>5, <2>1 DEF Item
\* What is heard of the source asked now is told by failedNews.
<1>7. ASSUME NEW f \in heard
      PROVE  /\ f[2] = "source" /\ f[1] = step => failed \in Unavailable
             /\ f[1] \notin NotAsked
             /\ f \in item.heard \/ (f[1] = step /\ f[2] \in {"source", "rows"})
  <2>1. f \in item.heard \/ (f = <<step, "source">> /\ block.status \in Unavailable) \/ f = <<step, "rows">>
    BY DEF Heard
  <2>2. step \notin NotAsked
    BY <1>1 DEF NotAsked
  <2>3. f \in item.heard /\ f[2] = "source" /\ f[1] = step => item.failedNews \in Unavailable
    BY <1>2 DEF CallTold
  <2>4. item.failedNews \in Unavailable => failed \in Unavailable
    BY AnalyzeAssumption DEF Unavailable
  <2>5. block.status \in Unavailable => failed \in Unavailable
    BY <1>2 DEF Item
  <2> QED BY <1>2, <2>1, <2>2, <2>3, <2>4, <2>5
<1>8. item.heard \subseteq heard /\ (found # None => <<step, "rows">> \in heard)
  OBVIOUS
<1> HIDE DEF found, failed, heard, asking
<1>9. CASE step' = step /\ item' = asking
  <2>1. ASSUME NEW f \in heard PROVE (f[1] \notin NotAsked /\ CallTold(f))'
    <3>1. f[1] \notin NotAsked'
      BY <1>7, <1>9, <2>1 DEF NotAsked
    <3>2. CASE f \in item.heard
      BY <1>1, <1>2, <1>6, <1>7, <1>8, <1>9, <3>1, <3>2 DEF CallTold
    <3>3. CASE f \notin item.heard
      BY <1>1, <1>6, <1>7, <1>9, <3>1, <3>3 DEF CallTold
    <3> QED BY <3>2, <3>3
  <2>2. AnalyzeTyped' /\ CallsTold'
    BY <1>1, <1>2, <1>6, <1>9, <2>1 DEF AnalyzeTyped, CallsTold, CnSteps
  <2>3. ResultsOfBlocks' /\ FailuresTold'
    BY <1>1, <1>6, <1>9 DEF ResultsOfBlocks, FailuresTold, AnalyzeInv
  <2> QED BY <2>2, <2>3 DEF AnalyzeInv
<1>10. CASE /\ step' = IF step = "news" THEN "major_news" ELSE "execute"
            /\ item' = [asking EXCEPT !.blocks[step] = NewsBlock(found, failed),
                                      !.askedNews = 0, !.foundNews = None, !.failedNews = None]
  <2>1. /\ NewsBlock(found, failed) \in Block
        /\ found = None /\ failed \in Unavailable => NewsBlock(found, failed).status \in Unavailable
    BY <1>4, AnalyzeAssumption DEF NewsBlock, NoRows, Block, ModuleStatus, Unavailable
  <2>2. [asking.blocks EXCEPT ![step] = NewsBlock(found, failed)] \in [RawModules -> Block]
    BY <1>6, <2>1 DEF Item
  <2>3. /\ item' \in Item /\ item'.heard = heard /\ item'.results = <<>> /\ item'.window = item.window
        /\ item'.blocks = [item.blocks EXCEPT ![step] = NewsBlock(found, failed)]
    BY <1>6, <1>10, <2>2 DEF Item
  <2>4. /\ item'.blocks[step] = NewsBlock(found, failed)
        /\ \A b \in RawModules \ {step} : item'.blocks[b] = item.blocks[b]
    BY <1>1, <1>2, <2>3 DEF Item, RawModules
  <2>5. ASSUME NEW f \in heard PROVE (f[1] \notin NotAsked /\ CallTold(f))'
    <3>1. f[1] \notin NotAsked'
      <4>1. f[1] \in ModuleName
        BY <1>5, <2>5
      <4>2. step = "news" => f[1] # "major_news"
        BY <1>7, <2>5 DEF NotAsked, ModuleName, RawModules
      <4> QED BY <1>1, <1>7, <1>10, <2>5 DEF NotAsked
    <3>2. step = "news" => f[1] # "major_news"
      BY <1>7, <2>5 DEF NotAsked, ModuleName, RawModules
    <3>3. CASE f[1] = step /\ f[2] = "source"
      BY <1>1, <1>7, <1>8, <1>10, <2>1, <2>3, <2>4, <2>5, <3>1, <3>3 DEF CallTold
    <3>4. CASE f[1] = step /\ f[2] # "source"
      <4>1. f[2] = "rows" \/ (f \in item.heard /\ CallTold(f))
        BY <1>2, <1>7, <2>5, <3>4
      <4>2. f[2] = "rows"
        BY <1>1, <1>2, <3>4, <4>1 DEF CallTold
      <4> QED BY <3>1, <4>2 DEF CallTold
    <3>5. CASE f[1] # step
      <4>1. f \in item.heard /\ CallTold(f) /\ f[2] \notin {"look_up", "module", "figures"}
        BY <1>1, <1>2, <1>7, <2>5, <3>5 DEF CallTold
      <4>2. f[1] \in RawModules => item'.blocks[f[1]] = item.blocks[f[1]]
        BY <2>4, <3>5
      <4> QED BY <1>1, <1>8, <1>10, <2>3, <3>1, <3>2, <3>5, <4>1, <4>2 DEF CallTold, RawModules
    <3> QED BY <3>3, <3>4, <3>5
  <2>6. AnalyzeTyped' /\ CallsTold'
    BY <1>1, <1>2, <1>10, <2>3, <2>5 DEF AnalyzeTyped, CallsTold, CnSteps
  <2>7. ResultsOfBlocks' /\ FailuresTold'
    BY <1>1, <1>10, <2>3 DEF ResultsOfBlocks, FailuresTold, AnalyzeInv
  <2> QED BY <2>6, <2>7 DEF AnalyzeInv
<1> QED BY <1>1, <1>9, <1>10

\* The modules of a request are known by name.
LEMMA ModulesNamed ==
  ASSUME asked \in Request
  PROVE  /\ Modules \in Seq(ModuleName)
         /\ asked.market = "cn" =>
              \A m \in {"report_rc", "research_report", "catalysts"} :
                \E i \in DOMAIN Modules : Modules[i] = m
         /\ asked.market = "cn" =>
              \A i, j \in DOMAIN Modules : Modules[i] = "screen" /\ Modules[j] = "screen" => i = j
<1>1. asked.market \in {"cn", "us"} /\ asked.mode \in {"base", "full"}
  BY DEF Request
<1>2. CASE asked.market = "cn" /\ asked.mode = "base"
  <2>1. Modules = <<"technical", "research_report", "report_rc", "earnings", "catalysts", "screen">>
    BY <1>2 DEF Modules, ModulesOf
  <2>2. /\ DOMAIN Modules = 1 .. 6 /\ Modules[2] = "research_report"
        /\ Modules[3] = "report_rc" /\ Modules[5] = "catalysts"
        /\ \A i \in DOMAIN Modules : Modules[i] = "screen" => i = 6
    BY <2>1
  <2>3. Modules \in Seq(ModuleName)
    BY <2>1 DEF ModuleName, RawModules
  <2> QED BY <2>2, <2>3
<1>3. CASE asked.market = "cn" /\ asked.mode = "full"
  <2>1. Modules = <<"technical", "research_report", "report_rc", "anns_d", "news", "major_news",
                    "earnings", "catalysts", "screen", "model_update">>
    BY <1>3 DEF Modules, ModulesOf
  <2>2. /\ DOMAIN Modules = 1 .. 10 /\ Modules[2] = "research_report"
        /\ Modules[3] = "report_rc" /\ Modules[8] = "catalysts"
        /\ \A i \in DOMAIN Modules : Modules[i] = "screen" => i = 9
    BY <2>1
  <2>3. Modules \in Seq(ModuleName)
    BY <2>1 DEF ModuleName, RawModules
  <2> QED BY <2>2, <2>3
<1>4. CASE asked.market = "us" /\ asked.mode = "base"
  <2>1. Modules = <<"technical", "earnings", "dcf", "comps", "three_statement", "screen">>
    BY <1>4 DEF Modules, ModulesOf
  <2> QED BY <1>4, <2>1 DEF ModuleName
<1>5. CASE asked.market = "us" /\ asked.mode = "full"
  <2>1. Modules = <<"technical", "earnings", "earnings_preview", "dcf", "comps", "three_statement", "lbo",
                    "three_statement_scenarios", "competitive", "catalysts", "screen", "model_update",
                    "sector_overview">>
    BY <1>5 DEF Modules, ModulesOf
  <2> QED BY <1>5, <2>1 DEF ModuleName
<1> QED BY <1>1, <1>2, <1>3, <1>4, <1>5

LEMMA CnEarningsTyped == CnEarnings \subseteq ModuleResult
<1>1. \A c : ContextStatus(c) \in ModuleStatus
  BY DEF ContextStatus, ModuleStatus
<1>2. Result(ContextStatus(NoContext)) \in ModuleResult
  BY <1>1 DEF Result, ModuleResult
<1>3. ASSUME NEW parts \in SUBSET FinancialParts, NEW a \in Ages
      PROVE  [status |-> ContextStatus(Coverage(parts)),
              age |-> IF "dated" \in parts THEN a ELSE None,
              says |-> ({"valuation"} \cap parts)
                       \cup (IF parts \cap {"figures", "dated"} # {} THEN {"reported"} ELSE {})]
             \in ModuleResult
  BY <1>1 DEF ModuleResult
<1> QED BY <1>2, <1>3 DEF CnEarnings

\* What a module may return.
LEMMA ResultsTyped ==
  ASSUME asked \in Request, item \in Item, NEW m \in ModuleName, NEW result \in Results(m)
  PROVE  /\ result \in ModuleResult
         /\ m \in RawModules => result.status = item.blocks[m].status
         /\ m = "catalysts" /\ asked.market = "cn" /\ NewsFailed => result.status = "partial"
<1>1. \A s \in {"ok", "error", "partial"} : Result(s) \in ModuleResult
  BY DEF Result, ModuleResult, ModuleStatus
<1>2. CASE m \in RawModules
  <2>1. result = [status |-> item.blocks[m].status, age |-> item.blocks[m].age, says |-> {}]
    BY <1>2 DEF Results, RawModules
  <2>2. item.blocks[m] \in Block
    BY <1>2 DEF Item
  <2> QED BY <1>2, <2>1, <2>2 DEF ModuleResult, Block, RawModules
<1>3. CASE m = "technical"
  <2>1. result \in TechnicalResults
    BY <1>3 DEF Results, RawModules
  <2>2. \A signal \in DOMAIN Stance :
          [Result("ok") EXCEPT !.says = {Stance[signal]}] \in ModuleResult
    BY DEF Stance, Result, ModuleResult, ModuleStatus
  <2> QED BY <1>1, <1>3, <2>1, <2>2 DEF TechnicalResults, RawModules
<1>4. CASE m = "earnings"
  <2>1. result \in IF asked.market = "cn" THEN CnEarnings ELSE UsEarnings
    BY <1>4 DEF Results, RawModules
  <2>2. UsEarnings \subseteq ModuleResult
    BY <1>1 DEF UsEarnings, ModuleResult, ModuleStatus
  <2> QED BY <1>4, <2>1, <2>2, CnEarningsTyped DEF RawModules
<1>5. CASE m \in {"dcf", "comps", "lbo", "three_statement", "three_statement_scenarios",
                  "competitive", "sector_overview"}
  <2>1. result \in ModelResults
    BY <1>5 DEF Results, RawModules, CompetitiveResults, SectorOverview, ModelResults
  <2> QED BY <1>1, <1>5, <2>1 DEF ModelResults, RawModules
<1>6. CASE m \in {"earnings_preview", "model_update", "screen"}
  <2>1. result \in {EarningsPreview, ModelUpdate} \cup Screen
    BY <1>6 DEF Results, RawModules
  <2>2. Screen \subseteq ModuleResult
    BY <1>1 DEF Screen, Result, ModuleResult, ModuleStatus
  <2>3. {EarningsPreview, ModelUpdate} \subseteq ModuleResult
    BY <1>1 DEF EarningsPreview, ModelUpdate
  <2> QED BY <1>6, <2>1, <2>2, <2>3 DEF RawModules
<1>7. CASE m = "catalysts"
  <2>1. result = Catalysts
    BY <1>7 DEF Results, RawModules
  <2>2. /\ Catalysts \in ModuleResult
        /\ asked.market = "cn" /\ NewsFailed => Catalysts.status = "partial"
    <3>1. NewsFailed <=> \E b \in NewsBlocks : b.status \in Unavailable \cup {"not_supported"}
      BY DEF NewsFailed, NewsBlocks
    <3> QED BY <3>1 DEF Catalysts, Result, ModuleResult, ModuleStatus
  <2> QED BY <1>7, <2>1, <2>2 DEF RawModules
<1> QED BY <1>2, <1>3, <1>4, <1>5, <1>6, <1>7 DEF ModuleName

LEMMA ExecuteInv ==
  ASSUME AnalyzeInv, Execute PROVE AnalyzeInv'
<1> DEFINE n == Len(item.results)
           m == Modules[n + 1]
<1>1. /\ step = "execute" /\ n < Len(Modules) /\ asked \in Request /\ item \in Item
      /\ item.results \in Seq(ModuleResult) /\ n \in Nat
  BY DEF Execute, AnalyzeInv, AnalyzeTyped, Item
<1>2. m \in ModuleName
  <2>1. Modules \in Seq(ModuleName)
    BY <1>1, ModulesNamed
  <2>2. n + 1 \in 1 .. Len(Modules) /\ DOMAIN Modules = 1 .. Len(Modules)
    BY <1>1, <2>1
  <2> QED BY <2>1, <2>2
<1>3. PICK result \in Results(m), figuresFail \in BOOLEAN :
        /\ figuresFail => WithoutFigures(m, result)
        /\ GoOn("execute",
                [item EXCEPT !.results = Append(@, result),
                             !.heard = IF m \in RawModules THEN @
                                       ELSE @ \cup Heard(m, "module", result)
                                              \cup IF figuresFail THEN {<<m, "figures">>} ELSE {}])
  BY DEF Execute
<1> DEFINE news == IF m \in RawModules THEN {}
                   ELSE Heard(m, "module", result) \cup IF figuresFail THEN {<<m, "figures">>} ELSE {}
<1>4. /\ result \in ModuleResult
      /\ m \in RawModules => result.status = item.blocks[m].status
      /\ m = "catalysts" /\ asked.market = "cn" /\ NewsFailed => result.status = "partial"
  BY <1>1, <1>2, ResultsTyped
<1>5. /\ step' = "execute" /\ UNCHANGED <<asked, published>>
      /\ item' = [item EXCEPT !.results = Append(@, result), !.heard = @ \cup news]
  BY <1>1, <1>3 DEF GoOn, Item
<1>6. /\ news \subseteq ModuleName \X AnalyzeCall
      /\ \A f \in news : \/ f = <<m, "module">> /\ result.status \in Unavailable
                         \/ f = <<m, "figures">> /\ WithoutFigures(m, result)
  BY <1>2, <1>3 DEF Heard, AnalyzeCall
<1> HIDE DEF news
<1>7. Append(item.results, result) \in Seq(ModuleResult)
  BY <1>1, <1>4
<1>8. /\ item' \in Item /\ item'.blocks = item.blocks /\ item'.window = item.window
      /\ item'.heard = item.heard \cup news /\ item'.results = Append(item.results, result)
      /\ item'.failedNews = item.failedNews
  BY <1>1, <1>5, <1>6, <1>7 DEF Item
<1>9. /\ DOMAIN item'.results = DOMAIN item.results \cup {n + 1}
      /\ \A i \in DOMAIN item.results : item'.results[i] = item.results[i]
      /\ item'.results[n + 1] = result
  BY <1>1, <1>4, <1>8
<1>10. Modules' = Modules /\ \A k, x : WithoutFigures(k, x)' <=> WithoutFigures(k, x)
  BY <1>5 DEF Modules, WithoutFigures
<1>11. ASSUME NEW f \in item'.heard PROVE (f[1] \notin NotAsked /\ CallTold(f))'
  <2>1. NotAsked' = {}
    BY <1>5 DEF NotAsked
  <2>2. CASE f \in item.heard
    <3>1. CallTold(f)
      BY <2>2 DEF AnalyzeInv, CallsTold
    <3>2. f[2] = "module" => \E i \in DOMAIN item'.results :
                                 Modules[i] = f[1] /\ item'.results[i].status \in Unavailable
      BY <1>9, <3>1 DEF CallTold
    <3>4. f[2] = "figures" => \E i \in DOMAIN item'.results :
                                 Modules[i] = f[1] /\ WithoutFigures(f[1], item'.results[i])
      BY <1>9, <3>1 DEF CallTold
    <3>3. f[2] = "source" => f[1] \in {"news", "major_news"}
                               /\ (<<f[1], "rows">> \in item'.heard \/ item'.blocks[f[1]].status \in Unavailable)
      BY <1>1, <1>8, <3>1 DEF CallTold
    <3> QED BY <1>5, <1>8, <1>10, <2>1, <3>1, <3>2, <3>3, <3>4 DEF CallTold
  <2>3. CASE f \in news
    <3>1. n + 1 \in DOMAIN item'.results /\ item'.results[n + 1] = result
      BY <1>9
    <3>2. \/ f[1] = m /\ f[2] = "module" /\ result.status \in Unavailable
          \/ f[1] = m /\ f[2] = "figures" /\ WithoutFigures(m, result)
      BY <1>6, <2>3
    <3> QED BY <1>10, <2>1, <3>1, <3>2 DEF CallTold
  <2> QED BY <1>8, <2>2, <2>3
<1>12. CallsTold'
  <2>1. (\E f \in item'.heard : f[2] # "module") => asked.market = "cn"
    BY <1>6, <1>8 DEF AnalyzeInv, CallsTold, WithoutFigures
  <2> QED BY <1>5, <1>11, <2>1 DEF CallsTold, CnSteps
<1>13. ResultsOfBlocks'
  <2>1. NewsFailed' <=> NewsFailed
    BY <1>8 DEF NewsFailed
  <2>2. ASSUME NEW i \in DOMAIN item'.results
        PROVE  /\ Modules[i] \in RawModules => item'.results[i].status = item.blocks[Modules[i]].status
               /\ Modules[i] = "catalysts" /\ asked.market = "cn" /\ NewsFailed =>
                    item'.results[i].status = "partial"
    <3>1. CASE i \in DOMAIN item.results
      BY <1>9, <3>1 DEF AnalyzeInv, ResultsOfBlocks
    <3>2. CASE i = n + 1
      BY <1>4, <1>9, <3>2
    <3> QED BY <1>9, <3>1, <3>2
  <2> QED BY <1>5, <1>8, <1>10, <2>1, <2>2 DEF ResultsOfBlocks
<1>14. AnalyzeTyped' /\ FailuresTold'
  BY <1>1, <1>5, <1>8 DEF AnalyzeInv, AnalyzeTyped, FailuresTold
<1> QED BY <1>12, <1>13, <1>14 DEF AnalyzeInv

\* Without financial data the earnings of a cn symbol are not supported.
LEMMA NoContextStatus == ContextStatus(NoContext) = "not_supported"
<1>1. "boards" \in DOMAIN NoContext /\ \A b \in DOMAIN NoContext : NoContext[b] = "not_supported"
  BY DEF NoContext, Coverage
<1>2. {NoContext[b] : b \in DOMAIN NoContext} = {"not_supported"}
  BY <1>1
<1> QED BY <1>2 DEF ContextStatus

\* Whatever failed is told when all modules have run.
LEMMA FinishInv ==
  ASSUME AnalyzeInv, FinishItem PROVE AnalyzeInv'
<1>1. /\ step = "execute" /\ Len(item.results) = Len(Modules) /\ asked \in Request /\ item \in Item
      /\ Deliver(PublicItem) /\ item.results \in Seq(ModuleResult)
  BY DEF FinishItem, AnalyzeInv, AnalyzeTyped, Item
<1>2. /\ PublicItem.heard = item.heard /\ PublicItem.reasons = Reasons
      /\ PublicItem.window = item.window /\ PublicItem.status = ItemStatus
      /\ PublicItem.metrics = ("metrics" \in Says("screen"))
  BY DEF PublicItem
<1>3. Reasons # {} => ItemStatus \in {"partial", "failed"}
  BY DEF ItemStatus
<1>4. DOMAIN item.results = DOMAIN Modules
  <2>1. Modules \in Seq(ModuleName)
    BY <1>1, ModulesNamed
  <2> QED BY <1>1, <2>1
<1>5. ASSUME NEW i \in DOMAIN Modules, item.results[i].status \notin {"ok", "empty"}
      PROVE  Modules[i] \in Reasons
  BY <1>5 DEF Reasons
<1>6. ASSUME NEW f \in item.heard, f[2] # "rows"
      PROVE  \/ f[1] \in Reasons
             \/ f[1] \in {"anns_d", "news", "major_news"} /\ "catalysts" \in Reasons
             \/ f[2] = "source" /\ <<f[1], "rows">> \in item.heard
             \/ f[2] = "window" /\ item.window = "latest_stock_specific_report_date"
             \/ f = <<"report_rc", "history">> /\ item.window = "requested_window_no_specific_history"
             \/ f = <<"screen", "figures">> /\ "metrics" \notin Says("screen")
  <2>1. CallTold(f)
    BY DEF AnalyzeInv, CallsTold
  <2>2. CASE /\ f[1] \in RawModules /\ f[2] # "module"
             /\ item.blocks[f[1]].status \in Unavailable \cup {"not_supported"}
    <3>1. asked.market = "cn"
      BY <2>2 DEF AnalyzeInv, CallsTold
    <3>2. CASE \E i \in DOMAIN Modules : Modules[i] = f[1]
      <4>1. PICK i \in DOMAIN Modules : Modules[i] = f[1]
        BY <3>2
      <4>2. item.results[i].status = item.blocks[f[1]].status
        BY <1>4, <2>2, <4>1 DEF AnalyzeInv, ResultsOfBlocks
      <4>3. item.results[i].status \notin {"ok", "empty"}
        BY <2>2, <4>2 DEF Unavailable
      <4> QED BY <1>5, <4>1, <4>3
    <3>3. CASE ~\E i \in DOMAIN Modules : Modules[i] = f[1]
      <4>1. f[1] \in {"anns_d", "news", "major_news"}
        BY <1>1, <2>2, <3>1, <3>3, ModulesNamed DEF RawModules
      <4>2. PICK i \in DOMAIN Modules : Modules[i] = "catalysts"
        BY <1>1, <3>1, ModulesNamed
      <4>3. NewsFailed
        BY <2>2, <4>1 DEF NewsFailed
      <4>4. item.results[i].status = "partial"
        BY <1>4, <3>1, <4>2, <4>3 DEF AnalyzeInv, ResultsOfBlocks
      <4> QED BY <1>5, <4>1, <4>2, <4>4
    <3> QED BY <3>2, <3>3
  <2>3. CASE f[2] = "module"
    <3>1. PICK i \in DOMAIN item.results : Modules[i] = f[1] /\ item.results[i].status \in Unavailable
      BY <2>1, <2>3 DEF CallTold
    <3>2. item.results[i].status \notin {"ok", "empty"}
      BY <3>1 DEF Unavailable
    <3> QED BY <1>4, <1>5, <3>1, <3>2
  <2>4. CASE f[2] = "source"
    BY <1>1, <2>1, <2>2, <2>4 DEF CallTold, RawModules
  <2>5. CASE f[2] = "window"
    BY <2>1, <2>2, <2>5 DEF CallTold, RawModules
  <2>6. CASE f[2] = "look_up"
    BY <2>1, <2>2, <2>6 DEF CallTold, Unavailable
  <2>7. CASE f[2] = "history"
    <3>1. f[1] = "report_rc" /\ item.window = "requested_window_no_specific_history"
      BY <2>1, <2>7 DEF CallTold
    <3>2. f = <<"report_rc", "history">>
      BY <1>1, <2>7, <3>1 DEF Item
    <3> QED BY <3>1, <3>2
  <2>9. CASE f[2] = "figures"
    <3>1. PICK i \in DOMAIN item.results : Modules[i] = f[1] /\ WithoutFigures(f[1], item.results[i])
      BY <2>1, <2>9 DEF CallTold
    <3>2. CASE f[1] = "earnings"
      <4>1. item.results[i].status = "not_supported"
        BY <3>1, <3>2, NoContextStatus DEF WithoutFigures, Result
      <4> QED BY <1>4, <1>5, <3>1, <4>1
    <3>3. CASE f[1] # "earnings"
      <4>1. f[1] = "screen" /\ asked.market = "cn" /\ item.results[i] = Result("ok")
        BY <3>1, <3>3 DEF WithoutFigures
      <4>2. i \in DOMAIN Modules /\ \A j \in DOMAIN Modules : Modules[j] = "screen" => j = i
        BY <1>1, <1>4, <3>1, <4>1, ModulesNamed
      <4>3. (CHOOSE j \in DOMAIN Modules : Modules[j] = "screen") = i
        BY <3>1, <4>1, <4>2
      <4>6. Of("screen") = Result("ok")
        BY <4>1, <4>3 DEF Of
      <4>4. Says("screen") = {}
        BY <4>6 DEF Says, Result
      <4>5. f = <<"screen", "figures">>
        BY <1>1, <2>9, <4>1 DEF Item
      <4> QED BY <4>4, <4>5
    <3> QED BY <3>2, <3>3
  <2>8. f[2] \in AnalyzeCall
    BY <1>1 DEF Item
  <2> QED BY <1>6, <2>3, <2>4, <2>5, <2>6, <2>7, <2>8, <2>9 DEF AnalyzeCall
<1>7. TellsFailures(PublicItem)
  <2>1. \A f \in item.heard : f[1] \in Reasons => ItemStatus \in {"partial", "failed"}
    BY <1>3
  <2> QED BY <1>2, <1>6, <2>1 DEF TellsFailures
<1> QED BY <1>1, <1>7, DeliverInv

LEMMA AnalyzeStepInv == AnalyzeInv /\ [AnalyzeNext]_analyzeVars => AnalyzeInv'
<1> SUFFICES ASSUME AnalyzeInv, [AnalyzeNext]_analyzeVars PROVE AnalyzeInv'
  OBVIOUS
<1>1. CASE Raise
  <2>1. step = "execute" /\ step' = "answered" /\ UNCHANGED <<asked, item, published>>
    BY <1>1 DEF Raise
  <2>2. AnalyzeTyped' /\ ResultsOfBlocks' /\ FailuresTold'
    BY <2>1 DEF AnalyzeInv, AnalyzeTyped, ResultsOfBlocks, NewsFailed, Modules, FailuresTold
  <2>3. NotAsked' = {}
    BY <2>1 DEF NotAsked
  <2>4. \A f \in item.heard : CallTold(f) => CallTold(f)'
    BY <2>1 DEF CallTold, WithoutFigures, Modules, CallsTold
  <2>5. CallsTold'
    BY <2>1, <2>3, <2>4 DEF AnalyzeInv, CallsTold, CnSteps
  <2> QED BY <2>2, <2>5 DEF AnalyzeInv
<1>2. CASE Respond
  <2>1. step = "respond" /\ step' = "answered" /\ UNCHANGED <<asked, item, published>>
    BY <1>2 DEF Respond
  <2> QED BY <2>1, NothingHeard, StillNothing DEF AnalyzeInv, AnalyzeTyped, CnSteps
<1>3. CASE UNCHANGED analyzeVars
  <2>1. UNCHANGED <<asked, step, item, published>>
    BY <1>3 DEF analyzeVars
  <2> QED BY <2>1 DEF AnalyzeInv, AnalyzeTyped, CallsTold, CallTold, WithoutFigures, NotAsked,
                      ResultsOfBlocks, NewsFailed, Modules, FailuresTold
<1> QED BY <1>1, <1>2, <1>3, AskInv, LookUpCnInv, LookUpUsInv, LookUpNativeInv, ReportRcInv,
           HistoryInv, ResearchInv, AnnouncementsInv, NewsInv, ExecuteInv, FinishInv DEF AnalyzeNext

\* An analysis tells every call that failed for its item, unless the code replaces what the
\* call would have given, whatever the request.  (StockAnalyzeService.analyze)
THEOREM AnalysesHold == AnalyzeSpec => []FailuresTold
<1>1. AnalyzeSpec => []AnalyzeInv
  BY AnalyzeInitInv, AnalyzeStepInv, PTL DEF AnalyzeSpec
<1>2. AnalyzeInv => FailuresTold
  BY DEF AnalyzeInv
<1> QED BY <1>1, <1>2, PTL
-----------------------------------------------------------------------------
(* AlphaMarket. *)

History == [closes : Seq(MarketCloses), first : Nat, etf : BOOLEAN, adjust : Int]

MarketInv == bars \in [ToSet(MarketSymbols) -> History] /\ today \in Nat

LEMMA LongestWindow ==
  Most(Windows) \in Nat \ {0} /\ \A w \in Windows : w \in Nat \ {0} /\ w <= Most(Windows)
<1>1. Windows \subseteq Nat \ {0} /\ Windows \subseteq Int /\ IsFiniteSet(Windows) /\ Windows # {}
  BY MarketAssumption
<1>2. Max(Windows) \in Windows /\ \A w \in Windows : w <= Max(Windows)
  BY <1>1, GreatestOfFinite
<1>3. Most(Windows) \in Windows /\ \A w \in Windows : w <= Most(Windows)
  BY <1>1, <1>2 DEF Most
<1> QED BY <1>1, <1>3

\* The observation of one row.
Observation(d, s, f, i) ==
  [day |-> Day(d, i), symbol |-> s, factor |-> FactorAt(d, f, i),
   forward |-> [w \in Windows |-> ForwardAt(d, w, i)]]

SettledRows(d, f) == {i \in 1 .. (Len(d.closes) - Most(Windows)) : FactorAt(d, f, i) # None}

\* Every row whose longest forward return is known is observed, and no other.
LEMMA RowsObserved ==
  ASSUME NEW d \in History, NEW f \in Featured, Len(d.closes) > Most(Windows)
  PROVE  Observed(d, f, Windows, None, None) = SettledRows(d, f)
<1>1. Len(d.closes) \in Nat /\ DOMAIN d.closes = 1 .. Len(d.closes) /\ d.first \in Nat
  BY DEF History
<1>2. PICK n \in Nat, w \in Nat : n = Len(d.closes) /\ w = Most(Windows) /\ n > w
  BY <1>1, LongestWindow
<1>3. EffectiveEnd(d, Windows, None) = d.first + (n - w) - 1
  BY <1>2 DEF EffectiveEnd, Day
<1>4. Selected(d, Windows, None, None) = {i \in 1 .. n : Day(d, i) <= d.first + (n - w) - 1}
  <2>1. d.first + (n - w) - 1 # None
    BY <1>1, <1>2, MarketAssumption
  <2> QED BY <1>1, <1>2, <1>3, <2>1 DEF Selected
<1>5. Selected(d, Windows, None, None) = 1 .. (n - w)
  <2>1. \A i \in 1 .. n : Day(d, i) <= d.first + (n - w) - 1 <=> i <= n - w
    BY <1>1, <1>2 DEF Day
  <2> QED BY <1>2, <1>4, <2>1
<1> QED BY <1>2, <1>5 DEF Observed, SettledRows

SettledSymbols(data) == {s \in ToSet(MarketSymbols) : Len(data[s].closes) > Most(Windows)}

LEMMA SettledObservations ==
  ASSUME NEW data \in [ToSet(MarketSymbols) -> History], NEW f \in Featured
  PROVE  Settled(data, f) =
           UNION {{Observation(data[s], s, f, i) : i \in SettledRows(data[s], f)} : s \in SettledSymbols(data)}
<1>1. DOMAIN data = ToSet(MarketSymbols)
  OBVIOUS
<1>2. Settled(data, f) =
        UNION {{Observation(data[s], s, f, i) : i \in Observed(data[s], f, Windows, None, None)} :
                 s \in SettledSymbols(data)}
  BY <1>1 DEF Settled, Frame, Observation, SettledSymbols
<1>3. \A s \in SettledSymbols(data) :
        {Observation(data[s], s, f, i) : i \in Observed(data[s], f, Windows, None, None)}
          = {Observation(data[s], s, f, i) : i \in SettledRows(data[s], f)}
  <2> TAKE s \in SettledSymbols(data)
  <2>1. data[s] \in History /\ Len(data[s].closes) > Most(Windows)
    BY DEF SettledSymbols
  <2>2. Observed(data[s], f, Windows, None, None) = SettledRows(data[s], f)
    BY <2>1, RowsObserved
  <2> QED BY <2>2
<1> DEFINE S == SettledSymbols(data)
           F(s) == {Observation(data[s], s, f, i) : i \in Observed(data[s], f, Windows, None, None)}
           G(s) == {Observation(data[s], s, f, i) : i \in SettledRows(data[s], f)}
<1>4. Settled(data, f) = UNION {F(s) : s \in S} /\ \A s \in S : F(s) = G(s)
  BY <1>2, <1>3
<1> HIDE DEF S, F, G
<1>5. {F(s) : s \in S} = {G(s) : s \in S}
  BY <1>4
<1>6. Settled(data, f) = UNION {G(s) : s \in S}
  BY <1>4, <1>5
<1> QED BY <1>6 DEF S, G

\* A close more changes no row whose longest forward return was known.
LEMMA RowsStay ==
  ASSUME NEW d \in History, NEW e \in History, NEW c \in MarketCloses, NEW f \in Featured, NEW s,
         Len(d.closes) > Most(Windows), e.closes = Append(d.closes, c), e.first = d.first,
         NEW i \in 1 .. (Len(d.closes) - Most(Windows))
  PROVE  Observation(e, s, f, i) = Observation(d, s, f, i)
<1>1. PICK n \in Nat, w \in Nat : n = Len(d.closes) /\ w = Most(Windows) /\ n > w
  BY LongestWindow DEF History
<1>2. /\ Len(e.closes) = n + 1 /\ \A k \in 1 .. n : e.closes[k] = d.closes[k]
  BY <1>1 DEF History
<1>3. i \in 1 .. (n - w) /\ i \in Nat
  BY <1>1
<1>4. FactorAt(e, f, i) = FactorAt(d, f, i)
  <2>1. Lookback[f] \in Nat \ {0}
    BY PipelineAssumption DEF Featured
  <2>2. CASE i <= Lookback[f]
    BY <2>2 DEF FactorAt
  <2>3. CASE ~(i <= Lookback[f])
    <3>1. i - Lookback[f] \in 1 .. n /\ i \in 1 .. n
      BY <1>1, <1>3, <2>1, <2>3
    <3> QED BY <1>2, <2>3, <3>1 DEF FactorAt
  <2> QED BY <2>2, <2>3
<1>5. ASSUME NEW v \in Windows PROVE ForwardAt(e, v, i) = ForwardAt(d, v, i)
  <2>1. v \in Nat /\ v <= w
    BY <1>1, LongestWindow
  <2>2. i + v \in 1 .. n /\ i \in 1 .. n
    BY <1>1, <1>3, <2>1
  <2>3. ~(i + v > n) /\ ~(i + v > n + 1)
    BY <1>1, <2>2
  <2> QED BY <1>1, <1>2, <2>2, <2>3 DEF ForwardAt
<1>6. Day(e, i) = Day(d, i)
  BY DEF Day
<1> QED BY <1>4, <1>5, <1>6 DEF Observation

LEMMA MarketStepInv == MarketInv /\ [MarketNext]_marketVars => MarketInv'
<1> SUFFICES ASSUME MarketInv, [MarketNext]_marketVars PROVE MarketInv'
  OBVIOUS
<1>1. CASE UNCHANGED marketVars
  BY <1>1 DEF MarketInv, marketVars
<1>2. ASSUME NEW listed \in SUBSET DOMAIN bars, NEW closes \in [listed -> MarketCloses], NextDay(closes)
      PROVE  MarketInv'
  <2>1. /\ today' = today + 1
        /\ bars' = [s \in DOMAIN bars |->
                      IF s \notin DOMAIN closes THEN bars[s]
                      ELSE [bars[s] EXCEPT !.closes = Append(@, closes[s]),
                                           !.first = IF bars[s].closes = <<>> THEN today' ELSE @]]
    BY <1>2 DEF NextDay
  <2>2. today' \in Nat
    <3>1. today' = today + 1 /\ today \in Nat
      BY <1>2 DEF NextDay, MarketInv
    <3> QED BY <3>1
  <2>3. ASSUME NEW s \in ToSet(MarketSymbols) PROVE bars'[s] \in History
    <3>1. bars[s] \in History
      BY DEF MarketInv
    <3>2. CASE s \in DOMAIN closes
      <4>1. Append(bars[s].closes, closes[s]) \in Seq(MarketCloses)
        BY <3>1, <3>2 DEF History
      <4>2. bars'[s] = [bars[s] EXCEPT !.closes = Append(@, closes[s]),
                                       !.first = IF bars[s].closes = <<>> THEN today' ELSE @]
        BY <2>1, <3>2 DEF MarketInv
      <4> QED BY <2>2, <3>1, <4>1, <4>2 DEF History
    <3>3. CASE s \notin DOMAIN closes
      BY <2>1, <3>1, <3>3 DEF MarketInv
    <3> QED BY <3>2, <3>3
  <2> QED BY <2>1, <2>2, <2>3 DEF MarketInv
<1> QED BY <1>1, <1>2 DEF MarketNext

\* What a day does to the history of a symbol that is settled.
LEMMA DayAppends ==
  ASSUME MarketInv, MarketInv', MarketNext, NEW s \in ToSet(MarketSymbols), bars[s].closes # <<>>
  PROVE  \/ bars'[s] = bars[s]
         \/ \E c \in MarketCloses : bars'[s].closes = Append(bars[s].closes, c) /\ bars'[s].first = bars[s].first
<1>1. PICK listed \in SUBSET DOMAIN bars : \E closes \in [listed -> MarketCloses] : NextDay(closes)
  BY DEF MarketNext
<1>2. PICK closes \in [listed -> MarketCloses] : NextDay(closes)
  BY <1>1
<1>3. bars[s] \in History
  BY DEF MarketInv
<1>4. s \in DOMAIN closes =>
        bars'[s] = [bars[s] EXCEPT !.closes = Append(@, closes[s]), !.first = @]
  BY <1>2 DEF NextDay, MarketInv
<1>5. s \notin DOMAIN closes => bars'[s] = bars[s]
  BY <1>2 DEF NextDay, MarketInv
<1> QED BY <1>3, <1>4, <1>5 DEF History

LEMMA DayIsFinal ==
  ASSUME MarketInv, MarketInv', MarketNext, NEW f \in Featured
  PROVE  /\ Settled(bars, f) \subseteq Settled(bars', f)
         /\ \A o \in Settled(bars', f) \ Settled(bars, f), p \in Settled(bars, f) :
              o.symbol = p.symbol => o.day > p.day
<1>1. Most(Windows) \in Nat
  BY LongestWindow
<1>2. bars \in [ToSet(MarketSymbols) -> History] /\ bars' \in [ToSet(MarketSymbols) -> History]
  BY DEF MarketInv
<1>3. ASSUME NEW s \in ToSet(MarketSymbols), Len(bars[s].closes) > Most(Windows)
      PROVE  /\ Len(bars'[s].closes) >= Len(bars[s].closes) /\ bars'[s].first = bars[s].first
             /\ \A i \in 1 .. (Len(bars[s].closes) - Most(Windows)) :
                  Observation(bars'[s], s, f, i) = Observation(bars[s], s, f, i)
  <2>1. bars[s] \in History /\ bars'[s] \in History /\ Len(bars[s].closes) \in Nat
    BY <1>2 DEF History
  <2>2. bars[s].closes # <<>>
    BY <1>1, <1>3, <2>1
  <2>3. CASE bars'[s] = bars[s]
    BY <2>1, <2>3
  <2>4. ASSUME NEW c \in MarketCloses, bars'[s].closes = Append(bars[s].closes, c),
               bars'[s].first = bars[s].first
        PROVE  /\ Len(bars'[s].closes) >= Len(bars[s].closes)
               /\ \A i \in 1 .. (Len(bars[s].closes) - Most(Windows)) :
                    Observation(bars'[s], s, f, i) = Observation(bars[s], s, f, i)
    <3>1. Len(bars'[s].closes) = Len(bars[s].closes) + 1
      BY <2>1, <2>4 DEF History
    <3>2. \A i \in 1 .. (Len(bars[s].closes) - Most(Windows)) :
            Observation(bars'[s], s, f, i) = Observation(bars[s], s, f, i)
      <4>1. PICK d \in History, e \in History : d = bars[s] /\ e = bars'[s]
        BY <2>1
      <4>2. Len(d.closes) > Most(Windows) /\ e.closes = Append(d.closes, c) /\ e.first = d.first
        BY <1>3, <2>4, <4>1
      <4>3. \A i \in 1 .. (Len(d.closes) - Most(Windows)) : Observation(e, s, f, i) = Observation(d, s, f, i)
        BY <4>2, RowsStay
      <4> QED BY <4>1, <4>3
    <3> QED BY <2>1, <3>1, <3>2
  <2> QED BY <2>2, <2>3, <2>4, DayAppends
<1>4. ASSUME NEW s \in ToSet(MarketSymbols), Len(bars[s].closes) > Most(Windows)
      PROVE  /\ Len(bars'[s].closes) > Most(Windows)
             /\ \A i \in SettledRows(bars[s], f) : i \in SettledRows(bars'[s], f)
             /\ \A i \in SettledRows(bars'[s], f) :
                  i \in SettledRows(bars[s], f) \/ i > Len(bars[s].closes) - Most(Windows)
  <2>1. PICK n \in Nat, m \in Nat : n = Len(bars[s].closes) /\ m = Len(bars'[s].closes) /\ n > Most(Windows) /\ m >= n
    BY <1>2, <1>3, <1>4 DEF History
  <2>2. \A i \in 1 .. (n - Most(Windows)) : FactorAt(bars'[s], f, i) = FactorAt(bars[s], f, i)
    <3>1. \A i \in 1 .. (n - Most(Windows)) :
            Observation(bars'[s], s, f, i).factor = Observation(bars[s], s, f, i).factor
      BY <1>3, <1>4, <2>1
    <3> QED BY <3>1 DEF Observation
  <2>3. /\ 1 .. (n - Most(Windows)) \subseteq 1 .. (m - Most(Windows))
        /\ \A i \in 1 .. (m - Most(Windows)) : i \in 1 .. (n - Most(Windows)) \/ i > n - Most(Windows)
    <3>1. PICK w \in Nat : w = Most(Windows)
      BY <1>1
    <3>2. n - w \in Int /\ m - w \in Int /\ n - w <= m - w
      BY <2>1
    <3>3. \A i \in 1 .. (m - w) : i <= n - w \/ i > n - w
      BY <3>2
    <3> QED BY <3>1, <3>2, <3>3
  <2> QED BY <1>1, <2>1, <2>2, <2>3 DEF SettledRows
<1>5. Settled(bars, f) =
        UNION {{Observation(bars[s], s, f, i) : i \in SettledRows(bars[s], f)} : s \in SettledSymbols(bars)}
  BY <1>2, SettledObservations
<1>6. Settled(bars', f) =
        UNION {{Observation(bars'[s], s, f, i) : i \in SettledRows(bars'[s], f)} : s \in SettledSymbols(bars')}
  BY <1>2, SettledObservations
<1>7. ASSUME NEW o \in Settled(bars, f) PROVE o \in Settled(bars', f)
  <2>1. PICK s \in ToSet(MarketSymbols) :
          /\ Len(bars[s].closes) > Most(Windows)
          /\ \E i \in SettledRows(bars[s], f) : o = Observation(bars[s], s, f, i)
    <3>1. o \in Settled(bars, f)
      BY <1>7
    <3> QED BY <1>5, <3>1 DEF SettledSymbols
  <2>2. PICK i \in SettledRows(bars[s], f) : o = Observation(bars[s], s, f, i)
    BY <2>1
  <2>3. i \in SettledRows(bars'[s], f) /\ Len(bars'[s].closes) > Most(Windows)
    BY <1>4, <2>1, <2>2
  <2>4. o = Observation(bars'[s], s, f, i)
    <3>1. i \in 1 .. (Len(bars[s].closes) - Most(Windows))
      BY DEF SettledRows
    <3> QED BY <1>3, <2>1, <2>2, <3>1
  <2> QED BY <1>6, <2>3, <2>4 DEF SettledSymbols
<1>8. ASSUME NEW o \in Settled(bars', f), o \notin Settled(bars, f), NEW p \in Settled(bars, f),
             o.symbol = p.symbol
      PROVE  o.day > p.day
  <2>1. PICK s \in ToSet(MarketSymbols) :
          /\ Len(bars[s].closes) > Most(Windows)
          /\ \E i \in SettledRows(bars[s], f) : p = Observation(bars[s], s, f, i)
    <3>1. p \in Settled(bars, f)
      BY <1>8
    <3> QED BY <1>5, <3>1 DEF SettledSymbols
  <2>2. PICK i \in SettledRows(bars[s], f) : p = Observation(bars[s], s, f, i)
    BY <2>1
  <2>3. PICK r \in ToSet(MarketSymbols) :
          /\ Len(bars'[r].closes) > Most(Windows)
          /\ \E j \in SettledRows(bars'[r], f) : o = Observation(bars'[r], r, f, j)
    <3>1. o \in Settled(bars', f)
      BY <1>8
    <3> QED BY <1>6, <3>1 DEF SettledSymbols
  <2>4. PICK j \in SettledRows(bars'[r], f) : o = Observation(bars'[r], r, f, j)
    BY <2>3
  <2>5. r = s
    BY <1>8, <2>2, <2>4 DEF Observation
  <2>6. i \in 1 .. (Len(bars[s].closes) - Most(Windows))
    BY DEF SettledRows
  <2>7. j \notin SettledRows(bars[s], f)
    <3>1. ASSUME j \in SettledRows(bars[s], f) PROVE FALSE
      <4>1. j \in 1 .. (Len(bars[s].closes) - Most(Windows))
        BY <3>1 DEF SettledRows
      <4>2. o = Observation(bars[s], s, f, j)
        BY <1>3, <2>1, <2>4, <2>5, <4>1
      <4>3. o \in Settled(bars, f)
        BY <1>5, <2>1, <3>1, <4>2 DEF SettledSymbols
      <4> QED BY <1>8, <4>3
    <3> QED BY <3>1
  <2>8. j > Len(bars[s].closes) - Most(Windows)
    BY <1>4, <2>1, <2>4, <2>5, <2>7
  <2>9. bars[s] \in History /\ bars'[s].first = bars[s].first
    BY <1>2, <1>3, <2>1
  <2>10. o.day = bars[s].first + j - 1 /\ p.day = bars[s].first + i - 1
    BY <2>2, <2>4, <2>5, <2>9 DEF Observation, Day
  <2>11. j \in Int
    BY DEF SettledRows
  <2>12. Len(bars[s].closes) \in Nat /\ bars[s].first \in Nat
    BY <2>9 DEF History
  <2> QED BY <1>1, <2>6, <2>8, <2>10, <2>11, <2>12
<1> QED BY <1>7, <1>8

\* What an evaluation has observed stays as it is while the warehouse grows, whatever the
\* closes, the windows and the number of days.  (_effective_end, _symbol_observations)
THEOREM EvaluationHolds == MarketSpec => EvaluationIsFinal
<1>1. MarketInit => MarketInv
  <2> SUFFICES ASSUME MarketInit PROVE MarketInv
    OBVIOUS
  <2>1. <<>> \in Seq(MarketCloses)
    OBVIOUS
  <2> QED BY <2>1 DEF MarketInit, MarketInv, History
<1>2. MarketInv /\ MarketInv' /\ [MarketNext]_marketVars =>
        [bars' # bars =>
           \A f \in Featured :
             /\ Settled(bars, f) \subseteq Settled(bars', f)
             /\ \A o \in Settled(bars', f) \ Settled(bars, f), p \in Settled(bars, f) :
                  o.symbol = p.symbol => o.day > p.day]_marketVars
  BY DayIsFinal
<1> QED BY <1>1, <1>2, MarketStepInv, PTL DEF MarketSpec, EvaluationIsFinal
-----------------------------------------------------------------------------
(* TradingReview: the decisions and the orders on the ledger only grow, an  *)
(* ended run is frozen, and what a review has read is what it can vouch for. *)

QuoteSnapshot == [price : Price, asOf : Int \cup {None}]
Snapshots == [ReviewCodes -> QuoteSnapshot \cup {None}]
Decision == [run : Rounds, code : ReviewCodes, status : {"accepted", "rejected"}]
SentOrder == [run : Rounds, code : ReviewCodes, price : ReviewPrices]
RunRow == [status : {"absent", "running", "ok", "failed"}, started : Nat \cup {None},
           snapshots : Snapshots \cup {None}, decisions : SUBSET Decision, orders : SUBSET SentOrder]
RoundState == [step : {"start", "quote", "decide", "order", "over"}, quotes : Snapshots \cup {None},
               rich : BOOLEAN, todo : SUBSET ReviewCodes, sent : ReviewCodes \cup {None}]
ReviewState == [step : {"runs", "orders", "decisions"}, date : Nat \cup {None}, runs : SUBSET Rounds,
                toRead : SUBSET Rounds, rows : [Rounds -> RunRow], orders : SUBSET SentOrder,
                decisions : SUBSET Decision]
Bar == [time : Nat, close : Price]

ReviewTyped ==
  /\ reviewTime \in Nat
  /\ book \in [Rounds -> RunRow]
  /\ rounds \in [Rounds -> RoundState]
  /\ review \in ReviewState
  /\ kline \in Seq(Bar)

LetThrough(o) == [run |-> o.run, code |-> o.code, status |-> "accepted"]
Ended(written) == written.status \in {"ok", "failed"}

\* Every order was bought at the price of its snapshot.
BoughtAt(orders, snapshots) ==
  \A o \in orders : snapshots[o.code] # None /\ snapshots[o.code].price = o.price

\* A row has snapshots where its round went well, and then they tell its orders' prices.
RowWhole(written) ==
  /\ written.status = "ok" <=> written.snapshots # None
  /\ written.status = "ok" => BoughtAt(written.orders, written.snapshots)

\* The process of a round and what it has left on the ledger.
RoundTold(r) ==
  /\ RowWhole(book[r])
  /\ rounds[r].step = "start" => book[r] = NoRun
  /\ Ended(book[r]) => rounds[r].step = "over"
  /\ rounds[r].step = "quote" => book[r].orders = {}
  /\ rounds[r].step \in {"decide", "order"} =>
       /\ rounds[r].quotes # None /\ BoughtAt(book[r].orders, rounds[r].quotes)
       /\ \A c \in rounds[r].todo : rounds[r].quotes[c] # None /\ rounds[r].quotes[c].price # None
  /\ rounds[r].step = "order" =>
       /\ rounds[r].sent \in ReviewCodes /\ rounds[r].quotes[rounds[r].sent] # None
       /\ rounds[r].quotes[rounds[r].sent].price # None
       /\ [run |-> r, code |-> rounds[r].sent, status |-> "accepted"] \in book[r].decisions
  /\ \A o \in book[r].orders : o.run = r /\ LetThrough(o) \in book[r].decisions

\* A row that is read of an ended run is the row the ledger keeps.
RowTold(r) ==
  /\ RowWhole(review.rows[r])
  /\ Ended(review.rows[r]) => review.rows[r] = book[r] /\ r \in review.runs

\* The orders come after the runs and the decisions of a run after the orders.
ReadTold ==
  /\ review.step # "decisions" => review.toRead = review.runs /\ review.orders = {}
  /\ \A o \in review.orders : /\ o.run \in review.runs /\ o \in book[o.run].orders
                              /\ LetThrough(o) \in book[o.run].decisions
  /\ review.step = "decisions" =>
       \A r \in review.runs : Ended(review.rows[r]) => book[r].orders \subseteq review.orders
  /\ \A r \in review.runs \ review.toRead :
       /\ Ended(review.rows[r]) => book[r].decisions \subseteq review.decisions
       /\ \A o \in review.orders : o.run = r => LetThrough(o) \in review.decisions

BarsApart == \A i, j \in DOMAIN kline : kline[i].time = kline[j].time => i = j

ReviewInv ==
  /\ ReviewTyped
  /\ \A r \in Rounds : RoundTold(r) /\ RowTold(r)
  /\ ReadTold
  /\ BarsApart

LEMMA ReviewConstants ==
  /\ Rounds \subseteq Nat /\ ReviewPrices \subseteq Nat /\ IsFiniteSet(Rounds)
  /\ \A c \in ReviewCodes : BuyAbove[c] \in Int \cup {None}
  /\ OrderLimit \in Nat /\ DayLength \in Nat \ {0} /\ MinRuns \in Nat /\ MaxRejected \in Nat
  /\ None \notin Int /\ None \notin QuoteSnapshot /\ None \notin Snapshots
  /\ \A p \in ReviewPrices : p # None
  /\ ReviewQuotes \subseteq [price : Price, lag : Nat \cup {None}]
BY ReviewAssumption DEF QuoteSnapshot, Snapshots, Price

LEMMA ReviewInitInv == ReviewInit => ReviewInv
<1> SUFFICES ASSUME ReviewInit PROVE ReviewInv
  OBVIOUS
<1> USE ReviewConstants
<1>1. NoRun \in RunRow /\ RowWhole(NoRun) /\ ~Ended(NoRun) /\ NoRun.orders = {}
  BY DEF NoRun, RunRow, RowWhole, BoughtAt, Ended
<1>2. NoRound \in RoundState /\ NoRound.step = "start"
  BY DEF NoRound, RoundState
<1>3. review \in ReviewState
  BY <1>1 DEF ReviewInit, ReviewState
<1>4. kline \in Seq(Bar) /\ DOMAIN kline = {}
  BY DEF ReviewInit
<1>5. ReviewTyped
  BY <1>1, <1>2, <1>3, <1>4 DEF ReviewInit, ReviewTyped
<1>6. ASSUME NEW r \in Rounds PROVE RoundTold(r) /\ RowTold(r)
  BY <1>1, <1>2 DEF ReviewInit, RoundTold, RowTold
<1> QED BY <1>4, <1>5, <1>6 DEF ReviewInit, ReviewInv, ReadTold, BarsApart

\* A step of one round only adds to its row, and leaves one that has ended alone.
LEMMA RoundStepInv ==
  ASSUME ReviewInv, UNCHANGED <<review, kline>>, reviewTime' \in Nat,
         NEW r \in Rounds, NEW written \in RunRow, NEW state \in RoundState,
         book' = [book EXCEPT ![r] = written], rounds' = [rounds EXCEPT ![r] = state],
         RoundTold(r)', Ended(book[r]) => written = book[r],
         book[r].orders \subseteq written.orders, book[r].decisions \subseteq written.decisions
  PROVE  ReviewInv'
<1> USE DEF ReviewInv
<1>1. book' \in [Rounds -> RunRow] /\ rounds' \in [Rounds -> RoundState]
  BY DEF ReviewTyped
<1>2. book \in [Rounds -> RunRow] /\ rounds \in [Rounds -> RoundState]
  BY DEF ReviewTyped
<1>3. \A q \in Rounds \ {r} : book'[q] = book[q] /\ rounds'[q] = rounds[q]
  BY <1>2
<1>4. book'[r] = written /\ rounds'[r] = state
  BY <1>2
<1>5. \A q \in Rounds : /\ book[q].orders \subseteq book'[q].orders
                       /\ book[q].decisions \subseteq book'[q].decisions
                       /\ Ended(book[q]) => book'[q] = book[q]
  BY <1>3, <1>4
<1>6. ReviewTyped'
  BY <1>1 DEF ReviewTyped
<1>7. ASSUME NEW q \in Rounds PROVE RoundTold(q)' /\ RowTold(q)'
  <2>1. RowTold(q)'
    BY <1>5 DEF RowTold
  <2>2. CASE q = r
    BY <2>1, <2>2
  <2>3. CASE q # r
    BY <2>1, <2>3, <1>3 DEF RoundTold
  <2> QED BY <2>2, <2>3
<1>8. \A q \in review.runs : q \in Rounds
  BY DEF ReviewTyped, ReviewState
<1>9. \A q \in review.runs : Ended(review.rows[q]) => book'[q] = book[q]
  BY <1>5, <1>8 DEF RowTold
<1>10. ReadTold'
  <2>1. \A o \in review.orders : /\ o.run \in review.runs /\ o \in book'[o.run].orders
                                /\ LetThrough(o) \in book'[o.run].decisions
    BY <1>5, <1>8 DEF ReadTold
  <2>2. review.step = "decisions" =>
       \A q \in review.runs : Ended(review.rows[q]) => book'[q].orders \subseteq review.orders
    BY <1>9 DEF ReadTold
  <2>3. \A q \in review.runs \ review.toRead :
       /\ Ended(review.rows[q]) => book'[q].decisions \subseteq review.decisions
       /\ \A o \in review.orders : o.run = q => LetThrough(o) \in review.decisions
    BY <1>9 DEF ReadTold
  <2> QED BY <2>1, <2>2, <2>3 DEF ReadTold
<1> QED BY <1>6, <1>7, <1>10 DEF BarsApart

LEMMA RoundStartsInv ==
  ASSUME ReviewInv, NEW r \in Rounds, RoundStarts(r) PROVE ReviewInv'
<1> DEFINE written == [book[r] EXCEPT !.status = "running", !.started = reviewTime]
           state == [rounds[r] EXCEPT !.step = "quote"]
<1>1. book \in [Rounds -> RunRow] /\ rounds \in [Rounds -> RoundState] /\ reviewTime \in Nat
  BY DEF ReviewInv, ReviewTyped
<1>2. book[r] = NoRun /\ RoundTold(r) /\ rounds[r].step = "start"
  BY DEF RoundStarts, ReviewInv, RoundTold
<1>3. book[r] \in RunRow /\ rounds[r] \in RoundState
  BY <1>1
<1>4. written \in RunRow /\ state \in RoundState
  BY <1>1, <1>3 DEF RunRow, RoundState
<1>5. /\ written.status = "running" /\ written.snapshots = None /\ written.orders = {} /\ written.decisions = {}
      /\ state.step = "quote"
  BY <1>2, <1>3 DEF RunRow, RoundState, NoRun
<1>6. book' = [book EXCEPT ![r] = written] /\ rounds' = [rounds EXCEPT ![r] = state]
  BY <1>1 DEF RoundStarts
<1>7. book'[r] = written /\ rounds'[r] = state
  BY <1>1, <1>6
<1>8. RoundTold(r)'
  BY <1>5, <1>7 DEF RoundTold, RowWhole, Ended
<1>9. ~Ended(book[r]) /\ book[r].orders = {} /\ book[r].decisions = {}
  BY <1>2 DEF Ended, NoRun
<1> HIDE DEF written, state
<1> QED BY <1>1, <1>4, <1>6, <1>8, <1>9, RoundStepInv DEF RoundStarts

LEMMA RoundQuotesInv ==
  ASSUME ReviewInv, NEW r \in Rounds, NEW shot \in [ReviewCodes -> ReviewQuotes \cup {None}],
         NEW rich \in BOOLEAN, NEW positions, RoundQuotes(r, shot, rich, positions)
  PROVE  ReviewInv'
<1> DEFINE told == [c \in ReviewCodes |-> IF shot[c] = None THEN None ELSE Snapshot(shot[c])]
           state == [step |-> "decide", quotes |-> told, rich |-> rich,
                     todo |-> SignalsOf(told, positions), sent |-> None]
<1>1. book \in [Rounds -> RunRow] /\ rounds \in [Rounds -> RoundState] /\ reviewTime \in Nat
  BY DEF ReviewInv, ReviewTyped
<1>2. RoundTold(r) /\ rounds[r].step = "quote"
  BY DEF RoundQuotes, ReviewInv
<1>3. told \in Snapshots /\ told # None
  <2>1. \A q \in ReviewQuotes : Snapshot(q) \in QuoteSnapshot
    BY <1>1, ReviewConstants DEF Snapshot, QuoteSnapshot
  <2>2. told \in Snapshots
    BY <2>1 DEF Snapshots
  <2> QED BY <2>2, ReviewConstants
<1>4. book' = [book EXCEPT ![r] = book[r]] /\ rounds' = [rounds EXCEPT ![r] = state]
  BY <1>1 DEF RoundQuotes
<1> HIDE DEF told
<1>5. SignalsOf(told, positions) \subseteq ReviewCodes
      /\ \A c \in SignalsOf(told, positions) : told[c] # None /\ told[c].price # None
  BY DEF SignalsOf
<1>6. state \in RoundState
  BY <1>3, <1>5 DEF RoundState
<1>7. book'[r] = book[r] /\ rounds'[r] = state
  BY <1>1, <1>4
<1>8. RoundTold(r)'
  BY <1>2, <1>3, <1>5, <1>7 DEF RoundTold, BoughtAt
<1> HIDE DEF state
<1> QED BY <1>1, <1>4, <1>6, <1>8, RoundStepInv DEF RoundQuotes

LEMMA RoundDecidesInv ==
  ASSUME ReviewInv, NEW r \in Rounds, NEW c \in ReviewCodes, RoundDecides(r, c)
  PROVE  ReviewInv'
<1> DEFINE status == RiskStatus(r, c)
           decision == [run |-> r, code |-> c, status |-> status]
           written == [book[r] EXCEPT !.decisions = @ \cup {decision}]
           state == [rounds[r] EXCEPT !.todo = @ \ {c},
                       !.step = IF status = "accepted" THEN "order" ELSE "decide", !.sent = c]
<1>1. book \in [Rounds -> RunRow] /\ rounds \in [Rounds -> RoundState] /\ reviewTime \in Nat
  BY DEF ReviewInv, ReviewTyped
<1>2. RoundTold(r) /\ rounds[r].step = "decide" /\ c \in rounds[r].todo
  BY DEF RoundDecides, ReviewInv
<1>3. book[r] \in RunRow /\ rounds[r] \in RoundState
  BY <1>1
<1>4. status \in {"accepted", "rejected"}
  BY DEF RiskStatus
<1>5. book' = [book EXCEPT ![r] = written] /\ rounds' = [rounds EXCEPT ![r] = state]
  BY <1>1 DEF RoundDecides
<1> HIDE DEF status
<1>6. decision \in Decision
  BY <1>4 DEF Decision
<1>7. written \in RunRow /\ state \in RoundState
  BY <1>3, <1>4, <1>6 DEF RunRow, RoundState
<1>8. /\ written.status = book[r].status /\ written.snapshots = book[r].snapshots
      /\ written.orders = book[r].orders /\ written.decisions = book[r].decisions \cup {decision}
  BY <1>3 DEF RunRow
<1>9. /\ state.quotes = rounds[r].quotes
      /\ state.todo = rounds[r].todo \ {c} /\ state.sent = c
      /\ state.step = IF status = "accepted" THEN "order" ELSE "decide"
  BY <1>3 DEF RoundState
<1>10. book'[r] = written /\ rounds'[r] = state
  BY <1>1, <1>5
<1>11. ~Ended(book[r])
  BY <1>2 DEF RoundTold
<1>12. \A d \in rounds[r].todo : rounds[r].quotes[d] # None /\ rounds[r].quotes[d].price # None
  BY <1>2 DEF RoundTold
<1> HIDE DEF written, state
<1>13. RoundTold(r)'
  BY <1>2, <1>8, <1>9, <1>10, <1>11, <1>12 DEF RoundTold, RowWhole, Ended
<1> HIDE DEF decision
<1>14. book[r].orders \subseteq written.orders /\ book[r].decisions \subseteq written.decisions
  BY <1>8
<1> QED BY <1>1, <1>5, <1>7, <1>11, <1>13, <1>14, RoundStepInv DEF RoundDecides

LEMMA RoundOrdersInv ==
  ASSUME ReviewInv, NEW r \in Rounds, RoundOrders(r) PROVE ReviewInv'
<1> DEFINE c == rounds[r].sent
           order == [run |-> r, code |-> c, price |-> rounds[r].quotes[c].price]
           written == [book[r] EXCEPT !.orders = @ \cup {order}]
           state == [rounds[r] EXCEPT !.step = "decide"]
<1>1. book \in [Rounds -> RunRow] /\ rounds \in [Rounds -> RoundState] /\ reviewTime \in Nat
  BY DEF ReviewInv, ReviewTyped
<1>2. RoundTold(r) /\ rounds[r].step = "order"
  BY DEF RoundOrders, ReviewInv
<1>3. book[r] \in RunRow /\ rounds[r] \in RoundState
  BY <1>1
<1>4. c \in ReviewCodes /\ rounds[r].quotes \in Snapshots
  BY <1>2, <1>3 DEF RoundTold, RoundState
<1>5. rounds[r].quotes[c] # None /\ rounds[r].quotes[c].price \in ReviewPrices
  BY <1>2, <1>4 DEF RoundTold, Snapshots, QuoteSnapshot, Price
<1>6. order \in SentOrder
  BY <1>4, <1>5 DEF SentOrder
<1>7. book' = [book EXCEPT ![r] = written] /\ rounds' = [rounds EXCEPT ![r] = state]
  BY <1>1 DEF RoundOrders
<1>8. LetThrough(order) = [run |-> r, code |-> c, status |-> "accepted"] /\ order.run = r
  BY DEF LetThrough
<1>9. written \in RunRow /\ state \in RoundState
  BY <1>3, <1>6 DEF RunRow, RoundState
<1>10. /\ written.status = book[r].status /\ written.snapshots = book[r].snapshots
       /\ written.orders = book[r].orders \cup {order} /\ written.decisions = book[r].decisions
  BY <1>3 DEF RunRow
<1>11. /\ state.quotes = rounds[r].quotes
       /\ state.todo = rounds[r].todo /\ state.step = "decide"
  BY <1>3 DEF RoundState
<1>12. book'[r] = written /\ rounds'[r] = state
  BY <1>1, <1>7
<1>13. ~Ended(book[r])
  BY <1>2 DEF RoundTold
<1>14. LetThrough(order) \in book[r].decisions
  BY <1>2, <1>8 DEF RoundTold
<1>17. BoughtAt(written.orders, rounds[r].quotes)
  BY <1>2, <1>5, <1>10 DEF RoundTold, BoughtAt
<1> HIDE DEF written, state, order, c
<1>18. RowWhole(written) /\ ~Ended(written)
  BY <1>2, <1>10, <1>13 DEF RoundTold, RowWhole, Ended
<1>19. \A o \in written.orders : o.run = r /\ LetThrough(o) \in written.decisions
  BY <1>2, <1>8, <1>10, <1>14 DEF RoundTold
<1>15. RoundTold(r)'
  BY <1>2, <1>11, <1>12, <1>17, <1>18, <1>19 DEF RoundTold
<1>16. book[r].orders \subseteq written.orders /\ book[r].decisions \subseteq written.decisions
  BY <1>10
<1> QED BY <1>1, <1>7, <1>9, <1>13, <1>15, <1>16, RoundStepInv DEF RoundOrders

LEMMA RoundEndsInv ==
  ASSUME ReviewInv, NEW r \in Rounds, NEW status \in {"ok", "failed"}, RoundEnds(r, status)
  PROVE  ReviewInv'
<1> DEFINE snapshots == IF status = "ok" THEN rounds[r].quotes ELSE None
           written == [book[r] EXCEPT !.status = status, !.snapshots = snapshots]
           state == [NoRound EXCEPT !.step = "over"]
<1>1. book \in [Rounds -> RunRow] /\ rounds \in [Rounds -> RoundState] /\ reviewTime \in Nat
  BY DEF ReviewInv, ReviewTyped
<1>2. RoundTold(r) /\ rounds[r].step # "over" /\ (status = "ok" => rounds[r].step = "decide")
  BY DEF RoundEnds, ReviewInv
<1>3. book[r] \in RunRow /\ rounds[r] \in RoundState
  BY <1>1
<1>4. book' = [book EXCEPT ![r] = written] /\ rounds' = [rounds EXCEPT ![r] = state]
  BY <1>1 DEF RoundEnds
<1>5. /\ snapshots \in Snapshots \cup {None}
      /\ status = "ok" <=> snapshots # None
      /\ status = "ok" => BoughtAt(book[r].orders, snapshots)
  BY <1>2, <1>3 DEF RoundTold, RoundState
<1>6. state \in RoundState /\ state.step = "over"
  BY DEF RoundState, NoRound
<1> HIDE DEF snapshots, state
<1>7. written \in RunRow
  BY <1>3, <1>5 DEF RunRow
<1>8. /\ written.status = status /\ written.snapshots = snapshots
      /\ written.orders = book[r].orders /\ written.decisions = book[r].decisions
  BY <1>3 DEF RunRow
<1>9. book'[r] = written /\ rounds'[r] = state
  BY <1>1, <1>4
<1>10. ~Ended(book[r])
  BY <1>2 DEF RoundTold
<1> HIDE DEF written
<1>11. RoundTold(r)'
  BY <1>2, <1>5, <1>6, <1>8, <1>9 DEF RoundTold, RowWhole
<1>12. book[r].orders \subseteq written.orders /\ book[r].decisions \subseteq written.decisions
  BY <1>8
<1> QED BY <1>1, <1>4, <1>6, <1>7, <1>10, <1>11, <1>12, RoundStepInv DEF RoundEnds

LEMMA RoundDiesInv ==
  ASSUME ReviewInv, NEW r \in Rounds, RoundDies(r) PROVE ReviewInv'
<1> DEFINE state == [NoRound EXCEPT !.step = "over"]
<1>1. book \in [Rounds -> RunRow] /\ rounds \in [Rounds -> RoundState] /\ reviewTime \in Nat
  BY DEF ReviewInv, ReviewTyped
<1>2. RoundTold(r)
  BY DEF ReviewInv
<1>3. state \in RoundState /\ state.step = "over"
  BY DEF RoundState, NoRound
<1>4. book' = [book EXCEPT ![r] = book[r]] /\ rounds' = [rounds EXCEPT ![r] = state]
  BY <1>1 DEF RoundDies
<1>5. book'[r] = book[r] /\ rounds'[r] = state
  BY <1>1, <1>4
<1> HIDE DEF state
<1>6. RoundTold(r)'
  BY <1>2, <1>3, <1>5 DEF RoundTold
<1> QED BY <1>1, <1>3, <1>4, <1>6, RoundStepInv DEF RoundDies

\* A step of the review leaves the ledger alone.
LEMMA ReviewReadsRunsInv ==
  ASSUME ReviewInv, NEW date \in Nat, ReviewReadsRuns(date) PROVE ReviewInv'
<1> DEFINE runs == {r \in Rounds : MatchesDate(book[r], date)}
           rows == [r \in Rounds |-> IF r \in runs THEN book[r] ELSE NoRun]
<1>1. /\ review' = [review EXCEPT !.step = "orders", !.date = date, !.runs = runs, !.toRead = runs, !.rows = rows]
      /\ UNCHANGED <<reviewTime, book, rounds, kline>> /\ review.step = "runs"
  BY DEF ReviewReadsRuns
<1>2. review \in ReviewState /\ book \in [Rounds -> RunRow]
  BY DEF ReviewInv, ReviewTyped
<1>3. NoRun \in RunRow /\ RowWhole(NoRun) /\ ~Ended(NoRun)
  BY DEF NoRun, RunRow, RowWhole, BoughtAt, Ended
<1>4. runs \subseteq Rounds /\ rows \in [Rounds -> RunRow]
  BY <1>2, <1>3
<1>5. \A r \in Rounds : RowWhole(rows[r]) /\ (Ended(rows[r]) => rows[r] = book[r] /\ r \in runs)
  BY <1>3 DEF ReviewInv, RoundTold
<1> HIDE DEF runs, rows
<1>6. /\ review'.step = "orders" /\ review'.runs = runs /\ review'.toRead = runs /\ review'.rows = rows
      /\ review'.orders = review.orders /\ review'.decisions = review.decisions
  BY <1>1, <1>2 DEF ReviewState
<1>7. review' \in ReviewState
  BY <1>1, <1>2, <1>4 DEF ReviewState
<1>8. ReviewTyped'
  BY <1>1, <1>7 DEF ReviewInv, ReviewTyped
<1>9. ASSUME NEW r \in Rounds PROVE RoundTold(r)' /\ RowTold(r)'
  BY <1>1, <1>5, <1>6 DEF ReviewInv, RoundTold, RowTold
<1>10. ReadTold'
  BY <1>1, <1>6 DEF ReviewInv, ReadTold
<1> QED BY <1>1, <1>8, <1>9, <1>10 DEF ReviewInv, BarsApart

LEMMA ReviewReadsOrdersInv ==
  ASSUME ReviewInv, ReviewReadsOrders PROVE ReviewInv'
<1> DEFINE orders == UNION {book[r].orders : r \in review.runs}
<1>1. /\ review' = [review EXCEPT !.step = "decisions", !.orders = orders]
      /\ UNCHANGED <<reviewTime, book, rounds, kline>> /\ review.step = "orders"
  BY DEF ReviewReadsOrders
<1>2. review \in ReviewState /\ book \in [Rounds -> RunRow] /\ review.runs \subseteq Rounds
  BY DEF ReviewInv, ReviewTyped, ReviewState
<1>3. \A r \in Rounds : book[r].orders \subseteq SentOrder
  BY <1>2 DEF RunRow
<1>4. orders \subseteq SentOrder
  BY <1>2, <1>3
<1>5. \A o \in orders : \E r \in review.runs : o \in book[r].orders
  OBVIOUS
<1>6. \A o \in orders : /\ o.run \in review.runs /\ o \in book[o.run].orders
                        /\ LetThrough(o) \in book[o.run].decisions
  <2> SUFFICES ASSUME NEW o \in orders
               PROVE  /\ o.run \in review.runs /\ o \in book[o.run].orders
                      /\ LetThrough(o) \in book[o.run].decisions
    OBVIOUS
  <2>1. PICK r \in review.runs : o \in book[r].orders
    BY <1>5
  <2>2. RoundTold(r)
    BY <1>2, <2>1 DEF ReviewInv
  <2>3. o.run = r /\ LetThrough(o) \in book[r].decisions
    BY <2>1, <2>2 DEF RoundTold
  <2> QED BY <2>1, <2>3
<1>7. \A r \in review.runs : book[r].orders \subseteq orders
  OBVIOUS
<1> HIDE DEF orders
<1>8. /\ review'.step = "decisions" /\ review'.runs = review.runs /\ review'.toRead = review.toRead
      /\ review'.rows = review.rows /\ review'.orders = orders /\ review'.decisions = review.decisions
  BY <1>1, <1>2 DEF ReviewState
<1>9. review' \in ReviewState
  BY <1>1, <1>2, <1>4 DEF ReviewState
<1>10. ReviewTyped'
  BY <1>1, <1>9 DEF ReviewInv, ReviewTyped
<1>11. ASSUME NEW r \in Rounds PROVE RoundTold(r)' /\ RowTold(r)'
  BY <1>1, <1>8 DEF ReviewInv, RoundTold, RowTold
<1>12. review.toRead = review.runs
  BY <1>1 DEF ReviewInv, ReadTold
<1>13. ReadTold'
  BY <1>1, <1>6, <1>7, <1>8, <1>12 DEF ReadTold
<1> QED BY <1>1, <1>10, <1>11, <1>13 DEF ReviewInv, BarsApart

LEMMA ReviewReadsDecisionsInv ==
  ASSUME ReviewInv, ReviewReadsDecisions PROVE ReviewInv'
<1>1. PICK r \in review.toRead :
        review' = [review EXCEPT !.toRead = @ \ {r}, !.decisions = @ \cup book[r].decisions]
  BY DEF ReviewReadsDecisions
<1>2. UNCHANGED <<reviewTime, book, rounds, kline>> /\ review.step = "decisions"
  BY DEF ReviewReadsDecisions
<1>3. /\ review \in ReviewState /\ book \in [Rounds -> RunRow] /\ review.runs \subseteq Rounds
      /\ review.toRead \subseteq Rounds
  BY DEF ReviewInv, ReviewTyped, ReviewState
<1>4. book[r].decisions \subseteq Decision
  BY <1>3 DEF RunRow
<1>5. /\ review'.step = "decisions" /\ review'.runs = review.runs /\ review'.toRead = review.toRead \ {r}
      /\ review'.rows = review.rows /\ review'.orders = review.orders
      /\ review'.decisions = review.decisions \cup book[r].decisions
  BY <1>1, <1>2, <1>3 DEF ReviewState
<1>6. review' \in ReviewState
  BY <1>1, <1>3, <1>4 DEF ReviewState
<1>7. ReviewTyped'
  BY <1>2, <1>6 DEF ReviewInv, ReviewTyped
<1>8. ASSUME NEW q \in Rounds PROVE RoundTold(q)' /\ RowTold(q)'
  BY <1>2, <1>5 DEF ReviewInv, RoundTold, RowTold
<1>9. ASSUME NEW q \in review.runs \ (review.toRead \ {r})
      PROVE  /\ Ended(review.rows[q]) => book[q].decisions \subseteq review'.decisions
             /\ \A o \in review.orders : o.run = q => LetThrough(o) \in review'.decisions
  <2>1. CASE q = r
    BY <2>1, <1>5 DEF ReviewInv, ReadTold
  <2>2. CASE q # r
    BY <2>2, <1>5, <1>9 DEF ReviewInv, ReadTold
  <2> QED BY <2>1, <2>2
<1>10. ReadTold'
  BY <1>2, <1>5, <1>9 DEF ReviewInv, ReadTold
<1> QED BY <1>2, <1>7, <1>8, <1>10 DEF ReviewInv, BarsApart

LEMMA BarArrivesInv ==
  ASSUME ReviewInv, NEW time \in Nat, NEW close \in Price, BarArrives(time, close)
  PROVE  ReviewInv'
<1> DEFINE bar == [time |-> time, close |-> close]
<1>1. /\ kline' = Append(kline, bar) /\ \A k \in DOMAIN kline : kline[k].time # time
      /\ UNCHANGED <<reviewTime, book, rounds, review>>
  BY DEF BarArrives
<1>2. bar \in Bar /\ bar.time = time
  BY DEF Bar
<1> HIDE DEF bar
<1>3. kline \in Seq(Bar)
  BY DEF ReviewInv, ReviewTyped
<1>4. kline' \in Seq(Bar)
  BY <1>1, <1>2, <1>3
<1>5. PICK n \in Nat : n = Len(kline)
  BY <1>3
<1>6. DOMAIN kline = 1 .. n /\ DOMAIN kline' = 1 .. (n + 1)
  BY <1>1, <1>2, <1>3, <1>5
<1>7. (\A k \in 1 .. n : kline'[k] = kline[k]) /\ kline'[n + 1] = bar
  BY <1>1, <1>2, <1>3, <1>5
<1>8. BarsApart'
  <2> SUFFICES ASSUME NEW i \in 1 .. (n + 1), NEW j \in 1 .. (n + 1), kline'[i].time = kline'[j].time
               PROVE  i = j
    BY <1>6 DEF BarsApart
  <2>1. CASE i \in 1 .. n /\ j \in 1 .. n
    BY <2>1, <1>6, <1>7 DEF ReviewInv, BarsApart
  <2>2. CASE i = n + 1 /\ j \in 1 .. n
    BY <2>2, <1>1, <1>2, <1>6, <1>7
  <2>3. CASE i \in 1 .. n /\ j = n + 1
    BY <2>3, <1>1, <1>2, <1>6, <1>7
  <2>4. CASE i = n + 1 /\ j = n + 1
    BY <2>4
  <2> QED BY <2>1, <2>2, <2>3, <2>4
<1>9. ReviewTyped'
  BY <1>1, <1>4 DEF ReviewInv, ReviewTyped
<1> QED BY <1>1, <1>8, <1>9 DEF ReviewInv, RoundTold, RowTold, ReadTold

LEMMA ReviewRests ==
  ASSUME ReviewInv, UNCHANGED <<book, rounds, review, kline>>, reviewTime' \in Nat
  PROVE  ReviewInv'
BY DEF ReviewInv, ReviewTyped, RoundTold, RowTold, ReadTold, BarsApart

LEMMA ReviewStepInv == ReviewInv /\ [ReviewNext \/ BacktestNext]_reviewVars => ReviewInv'
<1> SUFFICES ASSUME ReviewInv, [ReviewNext \/ BacktestNext]_reviewVars PROVE ReviewInv'
  OBVIOUS
<1>1. reviewTime \in Nat
  BY DEF ReviewInv, ReviewTyped
<1>2. LedgerDay(reviewTime) \in Int /\ \A date \in 0 .. LedgerDay(reviewTime) : date \in Nat
  BY <1>1, ReviewConstants DEF LedgerDay
<1>3. CASE UNCHANGED reviewVars
  BY <1>1, <1>3, ReviewRests DEF reviewVars
<1>4. CASE BacktestNext
  <2>1. PICK time \in 0 .. ReviewEnd, close \in Price : BarArrives(time, close)
    BY <1>4 DEF BacktestNext
  <2> QED BY <2>1, BarArrivesInv
<1>5. CASE ReviewNext
  <2>1. ASSUME NEW r \in Rounds, NEW shot \in [ReviewCodes -> ReviewQuotes \cup {None}],
               NEW rich \in BOOLEAN, NEW positions \in SUBSET Decided,
               RoundQuotes(r, shot, rich, positions)
        PROVE  ReviewInv'
    BY <2>1, RoundQuotesInv
  <2>2. ASSUME ReviewTimePasses PROVE ReviewInv'
    BY <1>1, <2>2, ReviewRests DEF ReviewTimePasses
  <2>3. ASSUME NEW date \in 0 .. LedgerDay(reviewTime), ReviewReadsRuns(date) PROVE ReviewInv'
    BY <1>2, <2>3, ReviewReadsRunsInv
  <2> QED BY <1>5, <2>1, <2>2, <2>3, RoundStartsInv, RoundDecidesInv, RoundOrdersInv, RoundEndsInv,
             RoundDiesInv, ReviewReadsOrdersInv, ReviewReadsDecisionsInv DEF ReviewNext
<1> QED BY <1>3, <1>4, <1>5

\* The last snapshot of a code sorts after all others of it.
LEMMA LatestIsLast ==
  ASSUME ReviewInv, NEW c \in ReviewCodes, Priced(c) # {}
  PROVE  /\ Priced(c) \subseteq Rounds /\ LatestRun(c) \in Priced(c)
         /\ \A r \in Priced(c) : Quoted(r, c) \in QuoteSnapshot
         /\ \A r \in Priced(c) \ {LatestRun(c)} : SortsBefore(c, r, LatestRun(c))
<1> DEFINE P == Priced(c)
           At(r) == Quoted(r, c).asOf
           Timed == {r \in P : At(r) # None}
           Instants == {At(r) : r \in Timed}
<1>1. P \subseteq Rounds /\ Rounds \subseteq Nat /\ IsFiniteSet(Rounds)
  BY ReviewConstants DEF Priced, ReviewInv, ReviewTyped, ReviewState
<1>2. IsFiniteSet(P) /\ IsFiniteSet(Timed)
  BY <1>1, FS_Subset
<1>3. \A r \in P : Quoted(r, c) \in QuoteSnapshot
  <2>1. \A r \in P : review.rows[r].snapshots \in Snapshots
    BY <1>1 DEF Priced, ReviewInv, ReviewTyped, ReviewState, RunRow
  <2> QED BY <2>1 DEF Priced, Quoted, Snapshots
<1>4. (\A r \in P : At(r) \in Int \cup {None}) /\ P # {}
  BY <1>3 DEF QuoteSnapshot
<1>5. \A q, r : SortsBefore(c, q, r) =
        IF At(q) = At(r) THEN q < r ELSE IF At(r) = None THEN FALSE ELSE At(q) = None \/ At(q) < At(r)
  BY DEF SortsBefore
<1> HIDE DEF P, At
\* All are without a time: the last run's is last.
<1>6. ASSUME Timed = {} PROVE \E m \in P : \A q \in P \ {m} : SortsBefore(c, q, m)
  <2>3. P \subseteq Int
    BY <1>1
  <2>1. PICK m \in P : \A r \in P : r <= m
    BY <1>2, <1>4, <2>3, GreatestOfFinite
  <2>2. \A q \in P \ {m} : q < m /\ At(q) = At(m)
    BY <1>1, <1>6, <2>1
  <2> QED BY <1>5, <2>2
\* One has a time: the last run's of those with the latest time is last.
<1>7. ASSUME Timed # {} PROVE \E m \in P : \A q \in P \ {m} : SortsBefore(c, q, m)
  <2>1. IsFiniteSet(Instants)
    <3> DEFINE f == [r \in Timed |-> At(r)]
    <3>1. f \in Surjection(Timed, Instants)
      BY DEF Surjection
    <3> QED BY <1>2, <3>1, FS_Surjection
  <2>2. PICK t \in Instants : \A u \in Instants : u <= t
    BY <1>4, <1>7, <2>1, GreatestOfFinite
  <2> DEFINE Final == {r \in Timed : At(r) = t}
  <2>3. Final # {} /\ Final \subseteq Int /\ IsFiniteSet(Final)
    BY <1>1, <1>2, <2>2, FS_Subset
  <2>4. PICK m \in Final : \A r \in Final : r <= m
    BY <2>3, GreatestOfFinite
  <2>5. t \in Int /\ At(m) = t /\ m \in P
    BY <1>4, <2>2, <2>4
  <2>6. ASSUME NEW q \in P, q # m PROVE SortsBefore(c, q, m)
    <3>1. At(q) # None => At(q) \in Instants /\ At(q) \in Int
      BY <1>4, <2>6
    <3>2. At(q) = t => q \in Final
      BY <2>5, <2>6, ReviewConstants
    <3>3. q \in Nat /\ m \in Nat
      BY <1>1, <2>5, <2>6
    <3>7. SortsBefore(c, q, m) = IF At(q) = t THEN q < m
                                 ELSE IF t = None THEN FALSE ELSE At(q) = None \/ At(q) < t
      BY <1>5, <2>5
    <3>8. t # None
      BY <2>5, ReviewConstants
    <3> HIDE DEF Instants, Final
    <3>4. CASE At(q) = None
      BY <3>4, <3>7, <3>8
    <3>5. CASE At(q) = t
      <4>1. q <= m
        BY <2>4, <3>2, <3>5
      <4>2. q # m
        BY <2>6
      <4>3. q < m
        BY <3>3, <4>1, <4>2
      <4> QED BY <3>5, <3>7, <4>3
    <3>6. CASE At(q) # None /\ At(q) # t
      <4>1. At(q) <= t /\ At(q) \in Int
        BY <2>2, <3>1, <3>6
      <4>2. At(q) < t
        BY <2>5, <3>6, <4>1
      <4> QED BY <3>6, <3>7, <3>8, <4>2
    <3> QED BY <3>4, <3>5, <3>6
  <2> QED BY <2>5, <2>6
<1>8. LatestRun(c) \in P /\ \A q \in P \ {LatestRun(c)} : SortsBefore(c, q, LatestRun(c))
  <2> DEFINE IsLast(r) == \A q \in P \ {r} : SortsBefore(c, q, r)
  <2>1. \E r \in P : IsLast(r)
    BY <1>6, <1>7
  <2>2. LatestRun(c) = CHOOSE r \in P : IsLast(r)
    BY DEF LatestRun, P
  <2> HIDE DEF IsLast
  <2>3. LatestRun(c) \in P /\ IsLast(LatestRun(c))
    BY <2>1, <2>2
  <2> QED BY <2>3 DEF IsLast
<1> QED BY <1>1, <1>3, <1>8 DEF P

LEMMA ReviewIsTold == ReviewInv => ReviewTold
<1> SUFFICES ASSUME ReviewInv, ReviewEnded PROVE ReviewTold
  BY DEF ReviewTold
<1>1. /\ review \in ReviewState /\ review.runs \subseteq Rounds /\ review.rows \in [Rounds -> RunRow]
      /\ review.orders \subseteq SentOrder /\ review.toRead = {} /\ review.step = "decisions"
  BY DEF ReviewInv, ReviewTyped, ReviewState, ReviewEnded
<1>2. \A r \in review.runs : Ended(review.rows[r]) =>
        book[r].orders \subseteq review.orders /\ book[r].decisions \subseteq review.decisions
  BY <1>1 DEF ReviewInv, ReadTold
<1>3. \A o \in review.orders : LetThrough(o) \in review.decisions
  BY <1>1 DEF ReviewInv, ReadTold
<1>4. ASSUME NEW o \in review.orders, review.rows[o.run].status = "ok"
      PROVE  LET bought == Quoted(o.run, o.code)
                 mark == Quoted(LatestRun(o.code), o.code)
             IN /\ bought # None /\ bought.price = o.price
                /\ bought.asOf # None => mark.asOf # None /\ mark.asOf >= bought.asOf
                /\ MarkedGain(o) = None => LatestPrice(o.code) = None \/ o.price = 0
  <2> DEFINE bought == Quoted(o.run, o.code)
             last == LatestRun(o.code)
             mark == Quoted(last, o.code)
  <2>1. o.run \in review.runs /\ o.run \in Rounds /\ o.code \in ReviewCodes /\ o.price \in Nat
    BY <1>1, ReviewConstants DEF ReviewInv, ReadTold, SentOrder
  <2>2. RowWhole(review.rows[o.run]) /\ review.rows[o.run] = book[o.run] /\ o \in book[o.run].orders
    BY <1>4, <2>1 DEF ReviewInv, RowTold, ReadTold, Ended
  <2>3. bought # None /\ bought.price = o.price /\ review.rows[o.run].snapshots # None
    BY <1>4, <2>2 DEF RowWhole, BoughtAt, Quoted
  <2>4. o.run \in Priced(o.code)
    BY <2>1, <2>3 DEF Priced, Quoted
  <2>5. /\ last \in Priced(o.code) /\ bought \in QuoteSnapshot /\ mark \in QuoteSnapshot
        /\ o.run # last => SortsBefore(o.code, o.run, last)
    BY <2>1, <2>4, LatestIsLast
  <2>6. bought.asOf # None => mark.asOf # None /\ mark.asOf >= bought.asOf
    <3>1. bought.asOf \in Int \cup {None} /\ mark.asOf \in Int \cup {None}
      BY <2>5 DEF QuoteSnapshot
    <3>2. CASE o.run = last
      BY <3>1, <3>2
    <3>3. CASE o.run # last
      <4>1. IF bought.asOf = mark.asOf THEN TRUE
            ELSE mark.asOf # None /\ (bought.asOf = None \/ bought.asOf < mark.asOf)
        BY <2>5, <3>3 DEF SortsBefore
      <4> HIDE DEF bought, mark
      <4> QED BY <3>1, <4>1
    <3> QED BY <3>2, <3>3
  <2>7. ASSUME LatestPrice(o.code) # None, o.price # 0 PROVE MarkedGain(o) # None
    <3>1. LatestPrice(o.code) \in Price
      BY <2>5 DEF LatestPrice, QuoteSnapshot
    <3>2. LatestPrice(o.code) \in Nat
      BY <2>7, <3>1, ReviewConstants DEF Price
    <3>3. LatestPrice(o.code) - o.price \in Int
      BY <2>1, <3>2
    <3> QED BY <2>7, <3>3, ReviewConstants DEF MarkedGain
  <2> HIDE DEF bought, mark, last
  <2>8. MarkedGain(o) = None => LatestPrice(o.code) = None \/ o.price = 0
    BY <2>7
  <2> QED BY <2>3, <2>6, <2>8 DEF bought, mark, last
<1>5. ASSUME GateReasons = {} PROVE \E r \in review.runs : review.rows[r].status = "ok"
  <2>1. PICK c \in ReviewCodes : Priced(c) # {}
    <3> SUFFICES ASSUME \A c \in ReviewCodes : Priced(c) = {} PROVE FALSE
      OBVIOUS
    <3>1. "missing_market_replay" \in GateReasons
      BY DEF GateReasons
    <3> QED BY <1>5, <3>1
  <2>2. PICK r \in Priced(c) : TRUE
    BY <2>1
  <2>3. r \in review.runs /\ RowWhole(review.rows[r])
    BY <1>1 DEF Priced, ReviewInv, RowTold
  <2> QED BY <2>2, <2>3 DEF Priced, RowWhole
<1> QED BY <1>2, <1>3, <1>4, <1>5 DEF ReviewTold, Ended, LetThrough

\* Of bars at different times, one is the first.
LEMMA EarliestBar ==
  ASSUME NEW B \in SUBSET Bar, B # {}
  PROVE  /\ (CHOOSE b \in B : \A h \in B : b.time <= h.time) \in B
         /\ \A h \in B : (CHOOSE b \in B : \A g \in B : b.time <= g.time).time <= h.time
<1> DEFINE Times == {b.time : b \in B}
<1>1. Times \subseteq Nat /\ Times # {}
  BY DEF Bar
<1>2. PICK t \in Times : \A u \in Times : t <= u
  BY <1>1, LeastNat
<1>3. \E b \in B : \A h \in B : b.time <= h.time
  BY <1>2
<1> QED BY <1>3

LEMMA BacktestIsLikeRounds == ReviewInv => BacktestLikeRounds
<1> SUFFICES ASSUME ReviewInv, NEW c \in ReviewCodes
             PROVE
               LET bought == {b \in ToSet(kline) : /\ b.close # None
                                                   /\ BuyAbove[c] # None /\ b.close >= BuyAbove[c]
                                                   /\ b.close <= OrderLimit}
                   test == BacktestCode(kline, BuyAbove[c])
               IN /\ test.status = "accepted" => test.entry \in bought /\ \A b \in bought : test.entry.time <= b.time
                  /\ test.status = "rejected" => \A b \in bought : test.entry.time < b.time
                  /\ test.status = "skipped" => bought = {}
  BY DEF BacktestLikeRounds
<1> DEFINE bought == {b \in ToSet(kline) : /\ b.close # None
                                          /\ BuyAbove[c] # None /\ b.close >= BuyAbove[c]
                                          /\ b.close <= OrderLimit}
           test == BacktestCode(kline, BuyAbove[c])
           hits == {b \in ToSet(kline) : b.close # None /\ b.close >= BuyAbove[c]}
           entry == CHOOSE b \in hits : \A h \in hits : b.time <= h.time
           TestTold ==
             /\ test.status = "accepted" => test.entry \in bought /\ \A b \in bought : test.entry.time <= b.time
             /\ test.status = "rejected" => \A b \in bought : test.entry.time < b.time
             /\ test.status = "skipped" => bought = {}
<1>1. kline \in Seq(Bar) /\ BarsApart
  BY DEF ReviewInv, ReviewTyped
<1>2. ToSet(kline) \subseteq Bar
  BY <1>1 DEF ToSet
<1>3. \A a, b \in ToSet(kline) : a.time = b.time => a = b
  BY <1>1 DEF ToSet, BarsApart
<1>4. \A b \in ToSet(kline) : b.time \in Nat /\ (b.close # None => b.close \in Nat)
  BY <1>2, ReviewConstants DEF Bar, Price
<1>5. ASSUME BuyAbove[c] = None PROVE TestTold
  <2>1. test.status = "skipped" /\ bought = {}
    BY <1>5 DEF BacktestCode
  <2> QED BY <2>1
<1>6. ASSUME BuyAbove[c] # None, hits = {} PROVE TestTold
  <2>1. test.status = "skipped" /\ bought = {}
    BY <1>6 DEF BacktestCode
  <2> QED BY <2>1
<1>7. ASSUME BuyAbove[c] # None, hits # {} PROVE TestTold
  <2>1. hits \in SUBSET Bar /\ bought \subseteq hits
    BY <1>2, <1>7
  <2>2. entry \in hits /\ \A h \in hits : entry.time <= h.time
    BY <1>7, <2>1, EarliestBar
  <2>3. CASE entry.close > OrderLimit
    <3>1. test.status = "rejected" /\ test.entry = entry
      BY <1>7, <2>3 DEF BacktestCode
    <3>2. entry \in ToSet(kline) /\ entry.close \in Nat
      BY <1>4, <2>2
    <3>3. entry \notin bought
      BY <2>3, <3>2, ReviewConstants
    <3> HIDE DEF entry, test
    <3>4. \A b \in bought : entry.time < b.time
      <4> SUFFICES ASSUME NEW b \in bought PROVE entry.time < b.time
        OBVIOUS
      <4> HIDE DEF hits
      <4>1. entry.time <= b.time /\ b # entry
        BY <2>1, <2>2, <3>3
      <4>2. b \in ToSet(kline)
        OBVIOUS
      <4>3. entry.time # b.time
        BY <1>3, <3>2, <4>1, <4>2
      <4> HIDE DEF bought
      <4> QED BY <1>4, <3>2, <4>1, <4>2, <4>3
    <3> HIDE DEF bought, hits
    <3> QED BY <3>1, <3>4
  <2>4. CASE ~(entry.close > OrderLimit)
    <3>1. test.status = "accepted" /\ test.entry = entry
      BY <1>7, <2>4 DEF BacktestCode
    <3>2. entry \in ToSet(kline) /\ entry.close \in Nat
      BY <1>4, <2>2
    <3>3. entry \in bought
      BY <1>7, <2>2, <2>4, <3>2, ReviewConstants
    <3>4. \A b \in bought : entry.time <= b.time
      BY <2>1, <2>2
    <3> HIDE DEF entry, test, bought, hits
    <3> QED BY <3>1, <3>3, <3>4
  <2> QED BY <2>3, <2>4
<1>8. TestTold
  BY <1>5, <1>6, <1>7
<1> QED BY <1>8

\* TradingReview!LookBack.  A review beside rounds at work tells the whole of what had ended
\* when it read the runs, and a backtest buys what a round would have bought.
\* (build_daily_summary, build_ledger_backtest, _gate_reasons, _backtest_one_code)
THEOREM LookBackHolds == ReviewSpec => []LookBack
<1>1. ReviewSpec => []ReviewInv
  BY ReviewInitInv, ReviewStepInv, PTL DEF ReviewSpec
<1>2. ReviewInv => LookBack
  BY ReviewIsTold, BacktestIsLikeRounds DEF LookBack
<1> QED BY <1>1, <1>2, PTL
-----------------------------------------------------------------------------
(* Desk. *)

\* A step of the desk is one of a service or leaves its variables alone.
LEMMA DeskSteps ==
  [DeskNext]_deskVars =>
    /\ [MarketNext]_marketVars /\ [AnalyzeNext]_analyzeVars /\ [PackNext]_packVars
    /\ [TickNext]_tickVars /\ [SyncNext]_syncVars /\ [HeatNext]_heatVars /\ [DocNext]_docVars
    /\ [QuoteNext]_quoteVars /\ [ReviewNext \/ BacktestNext]_reviewVars /\ [Next]_vars
<1> SUFFICES ASSUME [DeskNext]_deskVars
             PROVE  /\ [MarketNext]_marketVars /\ [AnalyzeNext]_analyzeVars /\ [PackNext]_packVars
                    /\ [TickNext]_tickVars /\ [SyncNext]_syncVars /\ [HeatNext]_heatVars
                    /\ [DocNext]_docVars /\ [QuoteNext]_quoteVars
                    /\ [ReviewNext \/ BacktestNext]_reviewVars /\ [Next]_vars
  OBVIOUS
<1>1. CASE UNCHANGED deskVars
  BY <1>1 DEF deskVars
<1>2. CASE DeskNext
  BY <1>2 DEF DeskNext
<1> QED BY <1>1, <1>2

\* The services at one desk keep to their own specifications, whichever is at work.
LEMMA DeskImplements ==
  DeskSpec => /\ MarketSpec /\ AnalyzeSpec /\ PackSpec /\ TickSpec /\ SyncSpec /\ HeatSpec /\ DocSpec
              /\ QuoteSpec /\ ReviewSpec /\ Spec
<1>1. DeskInit => /\ MarketInit /\ AnalyzeInit /\ PackInit /\ TickInit /\ SyncInit /\ HeatInit /\ DocInit
                  /\ QuoteInit /\ ReviewInit /\ Init
  BY DEF DeskInit
<1> QED BY <1>1, DeskSteps, PTL
        DEF DeskSpec, MarketSpec, AnalyzeSpec, PackSpec, TickSpec, SyncSpec, HeatSpec, DocSpec, QuoteSpec,
            ReviewSpec, Spec

\* At the desk, an analysis's item and a poll's quote tell what failed on the way, whatever
\* the requests.  (StockAnalyzeService, RealtimeQuotePollingService)
THEOREM AnswersHold == DeskSpec => []AnswersTold
<1>1. FailuresTold /\ QuotesTold => AnswersTold
  BY DEF AnswersTold
<1> QED BY <1>1, DeskImplements, AnalysesHold, QuotesHold, PTL

\* What is proved of each service alone holds of it at the desk; the theorems about the
\* handoff queue are in AgentHandoffProofs, for the Spec that DeskImplements leads to.
THEOREM DeskHolds ==
  DeskSpec => /\ [](AnswersTold /\ PackTold /\ LookBack /\ TicksApart)
              /\ [](SkipHidesNoBars /\ FailureOnlyCosts /\ DocumentsAgree)
              /\ EvaluationIsFinal
BY DeskImplements, AnswersHold, PackHolds, LookBackHolds, TicksHold, SkipHolds, HeatHolds,
   DocumentsHold, EvaluationHolds, PTL
=============================================================================
