-------------------------- MODULE TaskChainProofs --------------------------
(***************************************************************************)
(* Theorems about TaskChain for every set of workers, tasks and runs and   *)
(* every value of the lease, the delays and the bounds.                    *)
(***************************************************************************)
EXTENDS TaskChain, SequenceTheorems, FiniteSetTheorems, TLAPS

\* A tick that holds a task holds an existing row that is no longer pending,
\* and has a run row once start_run has returned.
HoldOK ==
  \A w \in Worker : Holds(w) =>
    /\ job[w] \in TaskId
    /\ tasks[job[w]].status \in {"running", "completed", "failed"}
    /\ pc[w] # "startRun" => run[w] \in RunId

\* A running row keeps at least the lease of every tick that still holds it.
LeaseCovers ==
  \A w \in Worker :
    Holds(w) /\ tasks[job[w]].status = "running" => now[w] + Ttl <= tasks[job[w]].expires

\* No tick's "now" is ahead of the clock.
NowPast == \A w \in Worker : now[w] <= clock

LeaseInv == HoldOK /\ LeaseCovers /\ NowPast /\ LeaseExclusive /\ OwnerIsHolder
-----------------------------------------------------------------------------
(* The operators the actions are built from. *)

LEMMA Next1Type ==
  ASSUME NEW type \in Type, NEW prio \in Nat, NEW due \in Nat
  PROVE  Next1(type, prio, due) \in NextTaskSpec
BY DEF Next1, NextTaskSpec

\* The successor table yields well-formed specs for every task type.
LEMMA NextSpecsType ==
  ASSUME NEW type \in Type, NEW t \in Nat, NEW force \in BOOLEAN
  PROVE  NextSpecs(type, t, force) \in Seq(NextTaskSpec)
<1> USE TimeAssumption DEF Span
<1>1. \A s \in Span : t + After[s] \in Nat
  OBVIOUS
<1>2. ASSUME NEW x \in Type, NEW p \in Nat, NEW d \in Nat
      PROVE  <<Next1(x, p, d)>> \in Seq(NextTaskSpec)
  BY Next1Type
<1>3. ASSUME NEW x \in Type, NEW s \in Span
      PROVE  NextRecurringScan(x, t, force, After[s]) \in Seq(NextTaskSpec)
  BY <1>1, <1>2 DEF NextRecurringScan
<1>4. CASE type = "post_market_research"
  <2> DEFINE a == Next1("news_scan", 20, t + After["1m"])
             b == Next1("kol_scan", 25, t + After["1m"])
             c == Next1("sector_review", 30, t + After["3m"])
  <2>1. a \in NextTaskSpec /\ b \in NextTaskSpec /\ c \in NextTaskSpec
    BY <1>1, Next1Type DEF Type, MainType
  <2>2. NextSpecs(type, t, force) = <<a, b, c>>
    BY <1>4 DEF NextSpecs
  <2> HIDE DEF a, b, c
  <2>3. QED
    BY <2>1, <2>2
<1>5. CASE type = "news_scan"
  <2>1. NextSpecs(type, t, force) = NextRecurringScan("news_scan", t, force, After["15m"])
    BY <1>5 DEF NextSpecs
  <2>2. QED
    BY <1>3, <2>1 DEF Type
<1>6. CASE type = "kol_scan"
  <2>1. NextSpecs(type, t, force) = NextRecurringScan("kol_scan", t, force, After["30m"])
    BY <1>6 DEF NextSpecs
  <2>2. QED
    BY <1>3, <2>1 DEF Type
<1>7. CASE type = "hourly_report"
  <2>1. NextSpecs(type, t, force) \in
          {<<Next1("post_market_research", 20, t + After["1m"])>>,
           <<Next1("market_observe", 100, t + After["1h"])>>}
    BY <1>7 DEF NextSpecs
  <2>2. /\ <<Next1("post_market_research", 20, t + After["1m"])>> \in Seq(NextTaskSpec)
        /\ <<Next1("market_observe", 100, t + After["1h"])>> \in Seq(NextTaskSpec)
    BY <1>1, <1>2 DEF Type, MainType
  <2>3. QED
    BY <2>1, <2>2
<1>8. CASE type = "strategy_iteration"
  BY <1>8 DEF NextSpecs
<1>9. CASE type = "market_observe"
  <2>1. NextSpecs(type, t, force) = <<Next1("alpha_mine", 100, t + After["5m"])>>
    BY <1>9 DEF NextSpecs
  <2>2. QED
    BY <1>1, <1>2, <2>1 DEF Type, MainType
<1>10. CASE type = "alpha_mine"
  <2>1. NextSpecs(type, t, force) = <<Next1("judge_review", 100, t + After["5m"])>>
    BY <1>10 DEF NextSpecs
  <2>2. QED
    BY <1>1, <1>2, <2>1 DEF Type, MainType
<1>11. CASE type = "judge_review"
  <2>1. NextSpecs(type, t, force) = <<Next1("paper_trade", 100, t + After["5m"])>>
    BY <1>11 DEF NextSpecs
  <2>2. QED
    BY <1>1, <1>2, <2>1 DEF Type, MainType
<1>12. CASE type = "paper_trade"
  <2>1. NextSpecs(type, t, force) = <<Next1("hourly_report", 100, t + After["5m"])>>
    BY <1>12 DEF NextSpecs
  <2>2. QED
    BY <1>1, <1>2, <2>1 DEF Type, MainType
<1>13. CASE type = "sector_review"
  <2>1. NextSpecs(type, t, force) = <<Next1("strategy_analysis", 20, t + After["2m"])>>
    BY <1>13 DEF NextSpecs
  <2>2. QED
    BY <1>1, <1>2, <2>1 DEF Type, MainType
<1>14. CASE type = "strategy_analysis"
  <2>1. NextSpecs(type, t, force) = <<Next1("daily_report", 20, t + After["2m"])>>
    BY <1>14 DEF NextSpecs
  <2>2. QED
    BY <1>1, <1>2, <2>1 DEF Type, MainType
<1>15. CASE type = "daily_report"
  <2>1. NextSpecs(type, t, force) = <<Next1("market_observe", 100, t + After["1d"])>>
    BY <1>15 DEF NextSpecs
  <2>2. QED
    BY <1>1, <1>2, <2>1 DEF Type, MainType
<1>16. QED
  BY <1>4, <1>5, <1>6, <1>7, <1>8, <1>9, <1>10, <1>11, <1>12, <1>13, <1>14, <1>15
     DEF Type, MainType

\* A new row has a key that no row has.
LEMMA FreshTaskType ==
  Absent # {} => FreshTask \in TaskId /\ tasks[FreshTask].status = "absent"
BY DEF Absent, FreshTask

LEMMA FreshRunType == AbsentRun # {} => FreshRun \in RunId
BY DEF AbsentRun, FreshRun

LEMMA InsertedType ==
  ASSUME NEW spec \in NextTaskSpec, NEW force \in BOOLEAN, NEW parent \in TaskId \cup {None}
  PROVE  Inserted(spec, force, parent) \in Task
BY DEF Inserted, NextTaskSpec, Task, Status

LEMMA LeasedType ==
  ASSUME NEW row \in Task, NEW w \in Worker, NEW until \in Nat
  PROVE  Leased(row, w, until) \in Task
BY DEF Leased, Task, Status

LEMMA ClosedType ==
  ASSUME NEW row \in Task, NEW status \in Terminal
  PROVE  Closed(row, status) \in Task
BY DEF Closed, Task, Status, Terminal
-----------------------------------------------------------------------------
LEMMA InitType == Init => TypeOK
BY DEF Init, TypeOK, NoTask, NoRun, Task, Run, Status, Point, Type, MainType

LEMMA StepType ==
  ASSUME TypeOK, HoldOK, [Next]_vars
  PROVE  TypeOK'
<1> USE DEF table, local
<1>1. CASE Tick
  BY <1>1 DEF Tick, TypeOK
<1>2. ASSUME NEW type \in RootType, NEW due \in RootDue, NEW force \in RootForce,
             Bootstrap(type, due, force)
      PROVE  TypeOK'
  <2>1. Inserted(Next1(type, 100, due), force, None) \in Task
    BY Next1Type, InsertedType, RootAssumption, TimeAssumption
  <2>2. FreshTask \in TaskId
    BY <1>2, FreshTaskType DEF Bootstrap
  <2>3. QED
    BY <1>2, <2>1, <2>2 DEF Bootstrap, TypeOK
<1>3. ASSUME NEW w \in Worker, Begin(w)
      PROVE  TypeOK'
  BY <1>3 DEF Begin, Goto, TypeOK, Point
<1>4. ASSUME NEW w \in Worker, Acquire(w)
      PROVE  TypeOK'
  <2>1. PICK i \in First(Due(now[w])) :
          /\ tasks' = [tasks EXCEPT ![i] = Leased(@, w, now[w] + Ttl)]
          /\ job' = [job EXCEPT ![w] = i]
    BY <1>4 DEF Acquire
  <2>2. i \in TaskId
    BY DEF First, Due
  <2>3. tasks' \in [TaskId -> Task]
    BY <2>1, <2>2, LeasedType, TimeAssumption DEF TypeOK
  <2>4. QED
    BY <1>4, <2>1, <2>2, <2>3 DEF Acquire, Goto, TypeOK, Point, HoldPoint
<1>5. ASSUME NEW w \in Worker, Skip(w)
      PROVE  TypeOK'
  BY <1>5 DEF Skip, Forget, Goto, TypeOK, Point
<1>6. ASSUME NEW w \in Worker, StartRun(w)
      PROVE  TypeOK'
  <2>1. FreshRun \in RunId
    BY <1>6, FreshRunType DEF StartRun
  <2>2. [task |-> job[w], owner |-> w, status |-> "running"] \in Run
    BY DEF TypeOK, Run
  <2>3. QED
    BY <1>6, <2>1, <2>2 DEF StartRun, Goto, TypeOK, Point, HoldPoint, TryPoint
<1>7. ASSUME NEW w \in Worker, Execute(w)
      PROVE  TypeOK'
  <2>1. job[w] \in TaskId /\ run[w] \in RunId
    BY <1>7 DEF Execute, HoldOK, Holds, HoldPoint, TryPoint
  <2>2. todo' \in [Worker -> Seq(NextTaskSpec)]
    <3>1. NextSpecs(JobType(w), now[w], tasks[job[w]].force) \in Seq(NextTaskSpec)
      BY <2>1, NextSpecsType DEF TypeOK, Task, JobType
    <3>2. QED
      BY <1>7, <3>1 DEF Execute, TypeOK
  <2>3. summaries' \in [TaskId -> Nat]
    BY <1>7, <2>1 DEF Execute, Reported, TypeOK
  <2>4. handoffs' \subseteq RunId
    BY <1>7, <2>1 DEF Execute, AskAgent, WeighIteration, TypeOK
  <2>5. pc' \in [Worker -> Point]
    BY <1>7 DEF Execute, AskAgent, WeighIteration, Goto, TypeOK, Point, HoldPoint,
                TryPoint
  <2>6. QED
    BY <1>7, <2>2, <2>3, <2>4, <2>5 DEF Execute, TypeOK
<1>8. ASSUME NEW w \in Worker, Supersede(w)
      PROVE  TypeOK'
  <2>1. tasks' \in [TaskId -> Task]
    <3>1. ASSUME NEW i \in TaskId
          PROVE  [Closed(tasks[i], "completed") EXCEPT !.superseded = TRUE] \in Task
      <4>1. Closed(tasks[i], "completed") \in Task
        BY ClosedType DEF TypeOK, Terminal
      <4>2. QED
        BY <4>1 DEF Task
    <3>2. QED
      BY <1>8, <3>1 DEF Supersede, TypeOK
  <2>2. QED
    BY <1>8, <2>1 DEF Supersede, Goto, TypeOK, Point, HoldPoint, TryPoint
<1>9. ASSUME NEW w \in Worker, CheckPending(w)
      PROVE  TypeOK'
  BY <1>9 DEF CheckPending, Goto, TypeOK, Point, HoldPoint, TryPoint
<1>10. ASSUME NEW w \in Worker, CheckRunning(w)
       PROVE  TypeOK'
  <2>1. IterationSpec(now[w]) \in NextTaskSpec
    <3>1. now[w] + After["1m"] \in Nat
      BY TimeAssumption DEF Span, TypeOK
    <3>2. QED
      BY <3>1, Next1Type DEF IterationSpec, Type
  <2>2. Append(todo[w], IterationSpec(now[w])) \in Seq(NextTaskSpec)
    BY <2>1 DEF TypeOK
  <2>3. QED
    BY <1>10, <2>2 DEF CheckRunning, Goto, TypeOK, Point, HoldPoint, TryPoint
<1>11. ASSUME NEW w \in Worker, CreateNext(w)
       PROVE  TypeOK'
  <2>1. job[w] \in TaskId
    BY <1>11 DEF CreateNext, HoldOK, Holds, HoldPoint, TryPoint
  <2>2. Head(todo[w]) \in NextTaskSpec /\ Tail(todo[w]) \in Seq(NextTaskSpec)
    BY <1>11 DEF CreateNext, TypeOK
  <2>3. Inserted(Head(todo[w]), tasks[job[w]].force, job[w]) \in Task
    BY <2>1, <2>2, InsertedType DEF TypeOK, Task
  <2>4. FreshTask \in TaskId
    BY <1>11, FreshTaskType DEF CreateNext
  <2>5. QED
    BY <1>11, <2>2, <2>3, <2>4 DEF CreateNext, TypeOK
<1>12. ASSUME NEW w \in Worker, FinishRun(w) \/ FailRun(w)
       PROVE  TypeOK'
  <2>1. run[w] \in RunId
    BY <1>12 DEF FinishRun, FailRun, HoldOK, Holds, HoldPoint, TryPoint
  <2>2. PICK s \in {"ok", "failed"} : runs' = [runs EXCEPT ![run[w]].status = s]
    BY <1>12 DEF FinishRun, FailRun
  <2>3. [runs[run[w]] EXCEPT !.status = s] \in Run
    BY <2>1, ZenonT(30) DEF TypeOK, Run
  <2>4. runs' \in [RunId -> Run]
    BY <2>2, <2>3 DEF TypeOK
  <2>5. QED
    BY <1>12, <2>4 DEF FinishRun, FailRun, Goto, TypeOK, Point, HoldPoint, TryPoint
<1>13. ASSUME NEW w \in Worker, Complete(w) \/ FailTask(w)
       PROVE  TypeOK'
  <2>1. job[w] \in TaskId
    BY <1>13 DEF Complete, FailTask, HoldOK, Holds, HoldPoint, TryPoint
  <2>2. PICK s \in Terminal : tasks' = [tasks EXCEPT ![job[w]] = Closed(@, s)]
    BY <1>13 DEF Complete, FailTask, CloseTask, Terminal
  <2>3. tasks' \in [TaskId -> Task]
    BY <2>1, <2>2, ClosedType DEF TypeOK
  <2>4. CASE Complete(w)
    BY <2>3, <2>4 DEF Complete, Goto, TypeOK, Point, HoldPoint, TryPoint
  <2>5. CASE FailTask(w)
    BY <2>3, <2>5 DEF FailTask, Forget, Goto, TypeOK, Point
  <2>6. QED
    BY <1>13, <2>4, <2>5
<1>14. ASSUME NEW w \in Worker, Return(w) \/ Crash(w)
       PROVE  TypeOK'
  <2>1. CASE Return(w)
    BY <2>1 DEF Return, Forget, Goto, TypeOK, Point
  <2>2. CASE Crash(w)
    BY <2>2 DEF Crash, Forget, Goto, TypeOK, Point
  <2>3. QED
    BY <1>14, <2>1, <2>2
<1>15. ASSUME NEW w \in Worker, Fail(w)
       PROVE  TypeOK'
  BY <1>15 DEF Fail, Goto, TypeOK, Point, HoldPoint
<1>16. CASE UNCHANGED vars
  BY <1>16 DEF vars, TypeOK
<1>17. QED
  BY <1>1, <1>2, <1>3, <1>4, <1>5, <1>6, <1>7, <1>8, <1>9, <1>10, <1>11, <1>12,
     <1>13, <1>14, <1>15, <1>16 DEF Next, Step
-----------------------------------------------------------------------------
(* The lease. *)

HeldStatus == {"running", "completed", "failed"}

\* Every action but Acquire only lets time pass, drops holders, inserts rows and
\* closes rows: none of these can break the lease invariant.
LEMMA LeaseKept ==
  ASSUME TypeOK, TypeOK', LeaseInv,
         clock <= clock',
         \A v \in Worker : now'[v] <= clock',
         \A v \in Worker : Holds(v)' =>
            /\ Holds(v)
            /\ job'[v] = job[v]
            /\ now'[v] = now[v]
            /\ pc'[v] # "startRun" => run'[v] \in RunId,
         \A i \in TaskId : tasks[i].status \in HeldStatus =>
            /\ tasks'[i].status \in HeldStatus
            /\ tasks'[i].status = "running" =>
                 /\ tasks[i].status = "running"
                 /\ tasks'[i].expires = tasks[i].expires
                 /\ tasks'[i].owner = tasks[i].owner
  PROVE  LeaseInv'
<1>1. HoldOK'
  BY DEF HoldOK, LeaseInv, HeldStatus
<1>2. LeaseCovers'
  BY DEF LeaseCovers, HoldOK, LeaseInv, HeldStatus
<1>3. NowPast'
  BY DEF NowPast
<1>4. LeaseExclusive'
  BY DEF LeaseExclusive, LeaseInv
<1>5. OwnerIsHolder'
  <2>1. SUFFICES ASSUME NEW v \in Worker, Holds(v)', tasks'[job'[v]].status = "running",
                        now'[v] + Ttl > clock'
                 PROVE  tasks'[job'[v]].owner = v
    BY DEF OwnerIsHolder
  <2>2. now[v] + Ttl > clock
    BY <2>1, TimeAssumption DEF TypeOK
  <2>3. QED
    BY <2>1, <2>2 DEF OwnerIsHolder, HoldOK, LeaseInv, HeldStatus
<1>6. QED
  BY <1>1, <1>2, <1>3, <1>4, <1>5 DEF LeaseInv

\* Acquire is the step that could break it: the row it takes is pending, which
\* nobody holds, or its lease has run out, and so have those of all its holders.
LEMMA LeaseAcquire ==
  ASSUME TypeOK, TypeOK', LeaseInv, NEW w \in Worker, Acquire(w)
  PROVE  LeaseInv'
<1>1. PICK i \in First(Due(now[w])) :
        /\ tasks' = [tasks EXCEPT ![i] = Leased(@, w, now[w] + Ttl)]
        /\ job' = [job EXCEPT ![w] = i]
  BY DEF Acquire
<1>2. /\ i \in TaskId
      /\ \/ tasks[i].status = "pending"
         \/ tasks[i].status = "running" /\ tasks[i].expires <= now[w]
  BY DEF First, Due
<1>3. /\ pc[w] = "acquire"
      /\ pc' = [pc EXCEPT ![w] = "startRun"]
      /\ UNCHANGED <<clock, now, run>>
  BY DEF Acquire, Goto
<1>4. /\ tasks'[i].status = "running"
      /\ tasks'[i].owner = w
      /\ tasks'[i].expires = now[w] + Ttl
      /\ \A j \in TaskId \ {i} : tasks'[j] = tasks[j]
  BY <1>1, <1>2 DEF Leased, TypeOK, Task
<1>5. /\ job'[w] = i
      /\ \A v \in Worker \ {w} : job'[v] = job[v] /\ pc'[v] = pc[v] /\ (Holds(v)' <=> Holds(v))
      /\ pc'[w] = "startRun"
      /\ ~Holds(w)
  BY <1>1, <1>3 DEF TypeOK, Holds, HoldPoint, TryPoint
<1>6. ASSUME NEW v \in Worker \ {w}, Holds(v), job[v] = i
      PROVE  now[v] + Ttl <= now[w] /\ now[w] <= clock
  <2>1. tasks[i].status # "pending"
    BY <1>6 DEF LeaseInv, HoldOK
  <2>2. tasks[i].status = "running" /\ tasks[i].expires <= now[w]
    BY <1>2, <2>1
  <2>3. now[v] + Ttl <= tasks[i].expires
    BY <1>6, <2>2 DEF LeaseInv, LeaseCovers
  <2>4. now[w] <= clock
    BY DEF LeaseInv, NowPast
  <2>5. QED
    BY <1>2, <2>2, <2>3, <2>4, TimeAssumption, SMTT(30) DEF TypeOK, Task
<1>7. HoldOK'
  BY <1>2, <1>3, <1>4, <1>5 DEF HoldOK, LeaseInv
<1>8. LeaseCovers'
  <2>1. SUFFICES ASSUME NEW v \in Worker, Holds(v)', tasks'[job'[v]].status = "running"
                 PROVE  now'[v] + Ttl <= tasks'[job'[v]].expires
    BY DEF LeaseCovers
  <2>2. CASE v = w
    BY <1>3, <1>4, <1>5, <2>2, TimeAssumption DEF TypeOK
  <2>3. CASE v # w /\ job[v] = i
    <3>1. now[v] + Ttl <= now[w] + Ttl
      BY <1>5, <1>6, <2>1, <2>3, TimeAssumption DEF TypeOK
    <3>2. QED
      BY <1>3, <1>4, <1>5, <2>3, <3>1
  <2>4. CASE v # w /\ job[v] # i
    BY <1>3, <1>4, <1>5, <2>1, <2>4 DEF LeaseCovers, HoldOK, LeaseInv
  <2>5. QED
    BY <2>2, <2>3, <2>4
<1>9. NowPast'
  BY <1>3 DEF NowPast, LeaseInv
<1>10. LeaseExclusive'
  <2>1. SUFFICES ASSUME NEW u \in Worker, NEW v \in Worker, u # v, Holds(u)', Holds(v)',
                        job'[u] = job'[v]
                 PROVE  now[u] + Ttl <= now[v] \/ now[v] + Ttl <= now[u]
    BY <1>3 DEF LeaseExclusive
  <2>2. CASE u = w
    BY <1>5, <1>6, <2>1, <2>2
  <2>3. CASE v = w
    BY <1>5, <1>6, <2>1, <2>3
  <2>4. CASE u # w /\ v # w
    BY <1>5, <2>1, <2>4 DEF LeaseExclusive, LeaseInv
  <2>5. QED
    BY <2>2, <2>3, <2>4
<1>11. OwnerIsHolder'
  <2>1. SUFFICES ASSUME NEW v \in Worker, Holds(v)', tasks'[job'[v]].status = "running",
                        now[v] + Ttl > clock
                 PROVE  tasks'[job'[v]].owner = v
    BY <1>3 DEF OwnerIsHolder
  <2>2. CASE v = w
    BY <1>4, <1>5, <2>2
  <2>3. CASE v # w /\ job[v] = i
    <3>1. now[v] + Ttl <= clock
      BY <1>5, <1>6, <2>1, <2>3, TimeAssumption DEF TypeOK
    <3>2. QED
      BY <2>1, <3>1, TimeAssumption DEF TypeOK
  <2>4. CASE v # w /\ job[v] # i
    BY <1>4, <1>5, <2>1, <2>4 DEF OwnerIsHolder, HoldOK, LeaseInv
  <2>5. QED
    BY <2>2, <2>3, <2>4
<1>12. QED
  BY <1>7, <1>8, <1>9, <1>10, <1>11 DEF LeaseInv

\* Every step keeps the lease invariant.
LEMMA LeaseStep ==
  ASSUME TypeOK, TypeOK', LeaseInv, [Next]_vars
  PROVE  LeaseInv'
<1> USE DEF table, local, HeldStatus
<1> DEFINE HoldersKept ==
             \A v \in Worker : Holds(v)' =>
                /\ Holds(v)
                /\ job'[v] = job[v]
                /\ now'[v] = now[v]
                /\ pc'[v] # "startRun" => run'[v] \in RunId
           RowsKept ==
             \A i \in TaskId : tasks[i].status \in HeldStatus =>
                /\ tasks'[i].status \in HeldStatus
                /\ tasks'[i].status = "running" =>
                     /\ tasks[i].status = "running"
                     /\ tasks'[i].expires = tasks[i].expires
                     /\ tasks'[i].owner = tasks[i].owner
           TimeKept == clock <= clock' /\ \A v \in Worker : now'[v] <= clock'
<1>a. ASSUME HoldersKept, RowsKept, TimeKept
      PROVE  LeaseInv'
  BY <1>a, LeaseKept
<1>b. UNCHANGED tasks => RowsKept
  OBVIOUS
<1>c. clock \in Nat /\ (UNCHANGED <<clock, now>> => TimeKept)
  BY DEF LeaseInv, NowPast, TypeOK
<1>d. \A v \in Worker : Holds(v) /\ pc[v] # "startRun" => run[v] \in RunId
  BY DEF LeaseInv, HoldOK
<1> HIDE DEF HoldersKept, RowsKept, TimeKept
<1>1. CASE Tick
  <2>1. HoldersKept
    BY <1>1, <1>d DEF Tick, HoldersKept, Holds
  <2>2. TimeKept
    BY <1>1 DEF Tick, TimeKept, LeaseInv, NowPast, TypeOK
  <2>3. QED
    BY <1>1, <1>a, <1>b, <2>1, <2>2 DEF Tick
<1>2. ASSUME NEW type \in RootType, NEW due \in RootDue, NEW force \in RootForce,
             Bootstrap(type, due, force)
      PROVE  LeaseInv'
  <2>1. HoldersKept
    BY <1>2, <1>d DEF Bootstrap, HoldersKept, Holds
  <2>2. RowsKept
    BY <1>2, FreshTaskType DEF Bootstrap, RowsKept, TypeOK
  <2>3. QED
    BY <1>2, <1>a, <1>c, <2>1, <2>2 DEF Bootstrap
<1>3. ASSUME NEW w \in Worker, Begin(w)
      PROVE  LeaseInv'
  <2>1. HoldersKept
    BY <1>3, <1>d DEF Begin, Goto, HoldersKept, Holds, HoldPoint, TryPoint, TypeOK
  <2>2. TimeKept
    BY <1>3, <1>c DEF Begin, Goto, TimeKept, LeaseInv, NowPast, TypeOK
  <2>3. QED
    BY <1>3, <1>a, <1>b, <2>1, <2>2 DEF Begin
<1>4. ASSUME NEW w \in Worker, Skip(w)
      PROVE  LeaseInv'
  <2>1. HoldersKept
    BY <1>4, <1>d DEF Skip, Forget, Goto, HoldersKept, Holds, HoldPoint, TryPoint, TypeOK
  <2>2. TimeKept
    BY <1>4, <1>c DEF Skip, Forget, Goto, TimeKept, LeaseInv, NowPast, TypeOK
  <2>3. QED
    BY <1>4, <1>a, <1>b, <2>1, <2>2 DEF Skip
<1>5. ASSUME NEW w \in Worker, StartRun(w)
      PROVE  LeaseInv'
  <2>1. HoldersKept
    BY <1>5, <1>d, FreshRunType DEF StartRun, Goto, HoldersKept, Holds, HoldPoint, TryPoint, TypeOK
  <2>2. QED
    BY <1>5, <1>a, <1>b, <1>c, <2>1 DEF StartRun
<1>6. ASSUME NEW w \in Worker, Execute(w)
      PROVE  LeaseInv'
  <2>1. HoldersKept
    BY <1>6, <1>d DEF Execute, AskAgent, WeighIteration, Goto, HoldersKept, Holds, HoldPoint, TryPoint, TypeOK
  <2>2. QED
    BY <1>6, <1>a, <1>b, <1>c, <2>1 DEF Execute, AskAgent, WeighIteration
<1>7. ASSUME NEW w \in Worker, Supersede(w)
      PROVE  LeaseInv'
  <2>1. HoldersKept
    BY <1>7, <1>d DEF Supersede, Goto, HoldersKept, Holds, HoldPoint, TryPoint, TypeOK
  <2>2. RowsKept
    BY <1>7 DEF Supersede, Closed, RowsKept, TypeOK, Task
  <2>3. QED
    BY <1>7, <1>a, <1>c, <2>1, <2>2 DEF Supersede
<1>8. ASSUME NEW w \in Worker, CheckPending(w)
      PROVE  LeaseInv'
  <2>1. HoldersKept
    BY <1>8, <1>d DEF CheckPending, Goto, HoldersKept, Holds, HoldPoint, TryPoint, TypeOK
  <2>2. QED
    BY <1>8, <1>a, <1>b, <1>c, <2>1 DEF CheckPending
<1>9. ASSUME NEW w \in Worker, CheckRunning(w)
      PROVE  LeaseInv'
  <2>1. HoldersKept
    BY <1>9, <1>d DEF CheckRunning, Goto, HoldersKept, Holds, HoldPoint, TryPoint, TypeOK
  <2>2. QED
    BY <1>9, <1>a, <1>b, <1>c, <2>1 DEF CheckRunning
<1>10. ASSUME NEW w \in Worker, CreateNext(w)
      PROVE  LeaseInv'
  <2>1. HoldersKept
    BY <1>10, <1>d DEF CreateNext, Goto, HoldersKept, Holds, HoldPoint, TryPoint, TypeOK
  <2>2. RowsKept
    BY <1>10, FreshTaskType DEF CreateNext, RowsKept, TypeOK
  <2>3. QED
    BY <1>10, <1>a, <1>c, <2>1, <2>2 DEF CreateNext
<1>11. ASSUME NEW w \in Worker, FinishRun(w)
      PROVE  LeaseInv'
  <2>1. HoldersKept
    BY <1>11, <1>d DEF FinishRun, Goto, HoldersKept, Holds, HoldPoint, TryPoint, TypeOK
  <2>2. QED
    BY <1>11, <1>a, <1>b, <1>c, <2>1 DEF FinishRun
<1>12. ASSUME NEW w \in Worker, Complete(w)
      PROVE  LeaseInv'
  <2>1. HoldersKept
    BY <1>12, <1>d DEF Complete, Goto, HoldersKept, Holds, HoldPoint, TryPoint, TypeOK
  <2>2. RowsKept
    BY <1>12 DEF Complete, CloseTask, Closed, RowsKept, TypeOK, Task
  <2>3. QED
    BY <1>12, <1>a, <1>c, <2>1, <2>2 DEF Complete
<1>13. ASSUME NEW w \in Worker, Return(w)
      PROVE  LeaseInv'
  <2>1. HoldersKept
    BY <1>13, <1>d DEF Return, Forget, Goto, HoldersKept, Holds, HoldPoint, TryPoint, TypeOK
  <2>2. TimeKept
    BY <1>13, <1>c DEF Return, Forget, Goto, TimeKept, LeaseInv, NowPast, TypeOK
  <2>3. QED
    BY <1>13, <1>a, <1>b, <2>1, <2>2 DEF Return
<1>14. ASSUME NEW w \in Worker, FailRun(w)
      PROVE  LeaseInv'
  <2>1. HoldersKept
    BY <1>14, <1>d DEF FailRun, Goto, HoldersKept, Holds, HoldPoint, TryPoint, TypeOK
  <2>2. QED
    BY <1>14, <1>a, <1>b, <1>c, <2>1 DEF FailRun
<1>15. ASSUME NEW w \in Worker, FailTask(w)
      PROVE  LeaseInv'
  <2>1. HoldersKept
    BY <1>15, <1>d DEF FailTask, Forget, Goto, HoldersKept, Holds, HoldPoint, TryPoint, TypeOK
  <2>2. RowsKept
    BY <1>15 DEF FailTask, CloseTask, Closed, RowsKept, TypeOK, Task
  <2>3. TimeKept
    BY <1>15, <1>c DEF FailTask, Forget, TimeKept, LeaseInv, NowPast, TypeOK
  <2>4. QED
    BY <1>a, <2>1, <2>2, <2>3
<1>16. ASSUME NEW w \in Worker, Fail(w)
      PROVE  LeaseInv'
  <2>1. HoldersKept
    BY <1>16, <1>d DEF Fail, Goto, HoldersKept, Holds, HoldPoint, TryPoint, TypeOK
  <2>2. QED
    BY <1>16, <1>a, <1>b, <1>c, <2>1 DEF Fail
<1>17. ASSUME NEW w \in Worker, Crash(w)
      PROVE  LeaseInv'
  <2>1. HoldersKept
    BY <1>17, <1>d DEF Crash, Forget, Goto, HoldersKept, Holds, HoldPoint, TryPoint, TypeOK
  <2>2. TimeKept
    BY <1>17, <1>c DEF Crash, Forget, Goto, TimeKept, LeaseInv, NowPast, TypeOK
  <2>3. QED
    BY <1>17, <1>a, <1>b, <2>1, <2>2 DEF Crash
<1>18. ASSUME NEW w \in Worker, Acquire(w)
      PROVE  LeaseInv'
  BY <1>18, LeaseAcquire
<1>19. CASE UNCHANGED vars
  <2>1. HoldersKept
    BY <1>19, <1>d DEF vars, HoldersKept, Holds
  <2>2. QED
    BY <1>19, <1>a, <1>b, <1>c, <2>1 DEF vars
<1>20. QED
  BY <1>1, <1>2, <1>3, <1>4, <1>5, <1>6, <1>7, <1>8, <1>9, <1>10, <1>11, <1>12, <1>13, <1>14, <1>15, <1>16, <1>17, <1>18, <1>19
     DEF Next, Step
-----------------------------------------------------------------------------
LEMMA InvStep == TypeOK /\ LeaseInv /\ [Next]_vars => (TypeOK /\ LeaseInv)'
<1> SUFFICES ASSUME TypeOK, LeaseInv, [Next]_vars
             PROVE  TypeOK' /\ LeaseInv'
  OBVIOUS
<1>1. TypeOK'
  BY StepType DEF LeaseInv
<1>2. QED
  BY <1>1, LeaseStep

LEMMA InvInit == Init => TypeOK /\ LeaseInv
<1> SUFFICES ASSUME Init
             PROVE  TypeOK /\ LeaseInv
  OBVIOUS
<1>1. \A w \in Worker : ~Holds(w) /\ now[w] = 0
  BY DEF Init, Holds, HoldPoint, TryPoint
<1>2. LeaseInv
  BY <1>1 DEF Init, LeaseInv, HoldOK, LeaseCovers, NowPast, LeaseExclusive, OwnerIsHolder
<1>3. QED
  BY <1>2, InitType

\* The tables and the ticks keep their types, for any instance.
THEOREM TypeCorrect == Spec => []TypeOK
BY InvInit, InvStep, PTL DEF Spec

\* acquire_due_task never hands out a task whose lease is still active, whatever
\* crashes, late completions and bootstraps surround it.
THEOREM LeaseExclusion == Spec => []LeaseExclusive
<1>1. LeaseInv => LeaseExclusive
  BY DEF LeaseInv
<1>2. QED
  BY <1>1, InvInit, InvStep, PTL DEF Spec

\* A holder whose lease is active is the owner its running row names.
THEOREM OwnerCorrect == Spec => []OwnerIsHolder
<1>1. LeaseInv => OwnerIsHolder
  BY DEF LeaseInv
<1>2. QED
  BY <1>1, InvInit, InvStep, PTL DEF Spec
-----------------------------------------------------------------------------
(* What a tick leaves behind: closed rows stay closed, and a completed task *)
(* has inserted its successors, its summary row and its run's end, whatever *)
(* crashes between the commits of a tick.                                   *)

\* The points after _execute_task's last write, up to the completion of the task.
AfterExecute == {"supersede", "checkPending", "checkRunning", "create", "complete"}

\* What a run at the instant t owes.
Owes(i, t) == SpecTypes(NextSpecs(tasks[i].type, t, tasks[i].force))

\* A tick in its try block has a run row of its task; after the execution it has still
\* to insert every successor that is not there, and has written the summary; when it
\* comes to the completion of the task, nothing is left and the run has ended.
RunOwned(w) ==
  pc[w] \in TryPoint \ {"reload"} => runs[run[w]].task = job[w] /\ runs[run[w]].status # "absent"
Owing(w) ==
  pc[w] \in AfterExecute =>
    /\ Owes(job[w], now[w]) \subseteq ChildTypes(job[w]) \cup SpecTypes(todo[w])
    /\ tasks[job[w]].type \in ReportType => summaries[job[w]] > 0
Ended(w) ==
  pc[w] = "complete" => todo[w] = <<>> /\ runs[run[w]].status # "running"

InTime == clock \in 0 .. MaxClock

TickOK == \A w \in Worker : RunOwned(w) /\ Owing(w) /\ Ended(w)
KeptInv == TypeOK /\ LeaseInv /\ InTime
ChainInv == KeptInv /\ TickOK /\ NoLostSuccessor
-----------------------------------------------------------------------------
(* What any step leaves of the rows. *)

RowKept(i) ==
  /\ tasks'[i].status # "absent"
  /\ tasks'[i].type = tasks[i].type
  /\ tasks'[i].force = tasks[i].force
  /\ tasks'[i].parent = tasks[i].parent
  /\ tasks[i].superseded => tasks'[i].superseded
  /\ tasks'[i].status = "pending" => tasks[i].status = "pending"
  /\ tasks[i].status \in Terminal => tasks'[i].status \in Terminal

\* What a daily report leaves of a row it supersedes.
SupersededRow(row) == [Closed(row, "completed") EXCEPT !.superseded = TRUE]

\* The ways a row that exists can change.
LEMMA RowChange ==
  ASSUME TypeOK, HoldOK, [Next]_vars, NEW i \in TaskId, tasks[i].status # "absent"
  PROVE  \/ tasks'[i] = tasks[i]
         \/ \E w \in Worker : /\ Acquire(w) /\ tasks[i].status \in Live
                              /\ \E until : tasks'[i] = Leased(tasks[i], w, until)
         \/ \E w \in Worker :
              /\ Supersede(w) /\ tasks[i].status = "pending" /\ tasks[i].type = "market_observe"
              /\ tasks'[i] = SupersededRow(tasks[i])
         \/ \E w \in Worker :
              Complete(w) /\ i = job[w] /\ tasks'[i] = Closed(tasks[i], "completed")
         \/ \E w \in Worker :
              FailTask(w) /\ i = job[w] /\ tasks'[i] = Closed(tasks[i], "failed")
<1> DEFINE Same == tasks'[i] = tasks[i]
<1> USE DEF TypeOK
<1>2. ASSUME NEW type \in RootType, NEW due \in RootDue, NEW force \in RootForce,
             Bootstrap(type, due, force)
      PROVE  Same
  BY <1>2, FreshTaskType DEF Bootstrap
<1>3. ASSUME NEW w \in Worker, CreateNext(w) PROVE Same
  BY <1>3, FreshTaskType DEF CreateNext
<1>4. ASSUME NEW w \in Worker, Acquire(w)
      PROVE  Same \/ (tasks[i].status \in Live /\ \E until : tasks'[i] = Leased(tasks[i], w, until))
  BY <1>4 DEF Acquire, First, Due, Live
<1>5. ASSUME NEW w \in Worker, Supersede(w)
      PROVE  \/ Same
             \/ /\ tasks[i].status = "pending" /\ tasks[i].type = "market_observe"
                /\ tasks'[i] = SupersededRow(tasks[i])
  BY <1>5 DEF Supersede, SupersededRow
<1>6. ASSUME NEW w \in Worker, Complete(w) \/ FailTask(w)
      PROVE  \/ Same
             \/ Complete(w) /\ i = job[w] /\ tasks'[i] = Closed(tasks[i], "completed")
             \/ FailTask(w) /\ i = job[w] /\ tasks'[i] = Closed(tasks[i], "failed")
  BY <1>6 DEF Complete, FailTask, CloseTask, HoldOK, Holds, HoldPoint, TryPoint
<1>7. ASSUME NEW w \in Worker,
             \/ Begin(w) \/ Skip(w) \/ StartRun(w) \/ Execute(w)
             \/ CheckPending(w) \/ CheckRunning(w) \/ FinishRun(w)
             \/ Return(w) \/ FailRun(w) \/ Fail(w) \/ Crash(w)
      PROVE  Same
  BY <1>7 DEF Begin, Skip, StartRun, Execute, CheckPending, CheckRunning, FinishRun,
     Return, FailRun, Fail, Crash, table
<1>8. CASE Tick \/ UNCHANGED vars
  BY <1>8 DEF Tick, vars, table
<1>9. ASSUME NEW w \in Worker, Step(w) \/ Fail(w) \/ Crash(w)
      PROVE  Same \/ Acquire(w) \/ Supersede(w) \/ Complete(w) \/ FailTask(w)
  BY <1>3, <1>7, <1>9 DEF Step
<1>10. CASE \E w \in Worker : Step(w) \/ Fail(w) \/ Crash(w)
  <2>1. PICK w \in Worker : Step(w) \/ Fail(w) \/ Crash(w)
    BY <1>10
  <2>2. CASE Acquire(w)
    BY <1>4, <2>2
  <2>3. CASE Supersede(w)
    BY <1>5, <2>3
  <2>4. CASE Complete(w) \/ FailTask(w)
    BY <1>6, <2>4
  <2>5. QED
    BY <1>9, <2>1, <2>2, <2>3, <2>4
<1>11. CASE \E type \in RootType, due \in RootDue, force \in RootForce : Bootstrap(type, due, force)
  BY <1>2, <1>11
<1>12. QED
  BY <1>8, <1>10, <1>11 DEF Next

\* A row that exists keeps its type, its flag and its parent, and once closed it is
\* never open again; it is completed only by complete_task or as superseded.
LEMMA RowStep ==
  ASSUME TypeOK, HoldOK, [Next]_vars, NEW i \in TaskId, tasks[i].status # "absent"
  PROVE  /\ RowKept(i)
         /\ Done(i)' => Done(i) \/ \E w \in Worker : Complete(w) /\ i = job[w]
<1> USE DEF TypeOK, RowKept, Done, Superseded
<1>1. CASE tasks'[i] = tasks[i]
  BY <1>1
<1>2. ASSUME NEW w \in Worker, tasks[i].status \in Live, NEW until,
             tasks'[i] = Leased(tasks[i], w, until)
      PROVE  RowKept(i) /\ ~Done(i)'
  BY <1>2 DEF Leased, Live, Terminal, Task
<1>3. ASSUME tasks'[i] = SupersededRow(tasks[i])
      PROVE  RowKept(i) /\ ~Done(i)'
  BY <1>3 DEF SupersededRow, Closed, Terminal, Task
<1>4. ASSUME NEW status \in Terminal, tasks'[i] = Closed(tasks[i], status)
      PROVE  RowKept(i) /\ (status = "failed" => ~Done(i)')
  BY <1>4 DEF Closed, Terminal, Task
<1>5. QED
  BY <1>1, <1>2, <1>3, <1>4, RowChange DEF Terminal

\* A child is never taken away.
LEMMA ChildrenGrow ==
  ASSUME TypeOK, HoldOK, [Next]_vars, NEW i
  PROVE  ChildTypes(i) \subseteq ChildTypes(i)'
BY RowStep DEF ChildTypes, RowKept

\* A run row stays with its task, and one that has ended is not running again.
LEMMA RunStep ==
  ASSUME TypeOK, HoldOK, [Next]_vars, NEW r \in RunId, runs[r].status # "absent"
  PROVE  /\ runs'[r].status # "absent" /\ runs'[r].task = runs[r].task
         /\ runs[r].status # "running" => runs'[r].status # "running"
<1> USE DEF TypeOK
<1>1. ASSUME NEW w \in Worker, StartRun(w) PROVE runs'[r] = runs[r]
  BY <1>1 DEF StartRun, AbsentRun, FreshRun
<1>2. ASSUME NEW w \in Worker, FinishRun(w) \/ FailRun(w)
      PROVE  runs'[r] = runs[r] \/ \E s \in {"ok", "failed"} : runs'[r] = [runs[r] EXCEPT !.status = s]
  BY <1>2 DEF FinishRun, FailRun
<1>3. ASSUME NEW w \in Worker,
             \/ Begin(w) \/ Acquire(w) \/ Skip(w) \/ Execute(w) \/ Supersede(w)
             \/ CheckPending(w) \/ CheckRunning(w) \/ CreateNext(w) \/ Complete(w)
             \/ Return(w) \/ FailTask(w) \/ Fail(w) \/ Crash(w)
      PROVE  runs' = runs
  BY <1>3 DEF Begin, Acquire, Skip, Execute, Supersede, CheckPending, CheckRunning,
     CreateNext, Complete, Return, FailTask, Fail, Crash, table
<1>4. CASE Tick \/ UNCHANGED vars
  BY <1>4 DEF Tick, vars, table
<1>5. ASSUME NEW type \in RootType, NEW due \in RootDue, NEW force \in RootForce,
             Bootstrap(type, due, force)
      PROVE  runs' = runs
  BY <1>5 DEF Bootstrap
<1>6. ASSUME NEW s \in {"ok", "failed"}, runs'[r] = [runs[r] EXCEPT !.status = s]
      PROVE  runs'[r].status = s /\ runs'[r].task = runs[r].task
  BY <1>6 DEF Run
<1>7. QED
  BY <1>1, <1>2, <1>3, <1>4, <1>5, <1>6 DEF Next, Step

\* Summary rows are only added.
LEMMA SummariesGrow ==
  ASSUME TypeOK, [Next]_vars, NEW i \in TaskId
  PROVE  summaries'[i] >= summaries[i]
<1> USE DEF TypeOK
<1>1. ASSUME NEW w \in Worker, Execute(w) PROVE summaries'[i] >= summaries[i]
  BY <1>1 DEF Execute, Reported
<1>2. ASSUME NEW w \in Worker,
             \/ Begin(w) \/ Acquire(w) \/ Skip(w) \/ StartRun(w) \/ Supersede(w)
             \/ CheckPending(w) \/ CheckRunning(w) \/ CreateNext(w) \/ FinishRun(w) \/ Complete(w)
             \/ Return(w) \/ FailRun(w) \/ FailTask(w) \/ Fail(w) \/ Crash(w)
      PROVE  summaries' = summaries
  BY <1>2 DEF Begin, Acquire, Skip, StartRun, Supersede, CheckPending, CheckRunning,
     CreateNext, FinishRun, Complete, Return, FailRun, FailTask, Fail, Crash, table
<1>3. CASE Tick \/ UNCHANGED vars
  BY <1>3 DEF Tick, vars, table
<1>4. ASSUME NEW type \in RootType, NEW due \in RootDue, NEW force \in RootForce,
             Bootstrap(type, due, force)
      PROVE  summaries' = summaries
  BY <1>4 DEF Bootstrap
<1>5. QED
  BY <1>1, <1>2, <1>3, <1>4 DEF Next, Step

\* A task that completed or failed never runs again: acquire_due_task takes only
\* pending rows and running rows, and no other statement opens a row.
\* (acquire_due_task, complete_task)
THEOREM TerminalKept == Spec => TerminalStays
<1>1. TypeOK /\ LeaseInv /\ [Next]_vars
        => [\A i \in TaskId : tasks[i].status \in Terminal => tasks'[i].status \in Terminal]_vars
  BY RowStep DEF LeaseInv, RowKept, Terminal
<1>2. QED
  BY <1>1, InvInit, InvStep, PTL DEF Spec, TerminalStays
-----------------------------------------------------------------------------
(* The successors of one tick. *)

\* The locals of the other ticks are left alone.
LEMMA OtherTicks ==
  ASSUME TypeOK, NEW w \in Worker, Step(w) \/ Fail(w) \/ Crash(w), NEW v \in Worker, v # w
  PROVE  pc'[v] = pc[v] /\ now'[v] = now[v] /\ job'[v] = job[v] /\ run'[v] = run[v]
         /\ todo'[v] = todo[v]
<1> USE DEF TypeOK, Goto, Forget, local
<1>1. CASE Begin(w) \/ Acquire(w) \/ Skip(w) \/ StartRun(w)
  BY <1>1 DEF Begin, Acquire, Skip, StartRun
<1>2. CASE Execute(w)
  BY <1>2 DEF Execute, AskAgent, WeighIteration
<1>3. CASE Supersede(w) \/ CheckPending(w) \/ CheckRunning(w) \/ CreateNext(w)
  BY <1>3 DEF Supersede, CheckPending, CheckRunning, CreateNext
<1>4. CASE FinishRun(w) \/ Complete(w) \/ Return(w) \/ FailRun(w) \/ FailTask(w)
  BY <1>4 DEF FinishRun, Complete, Return, FailRun, FailTask
<1>5. CASE Fail(w) \/ Crash(w)
  BY <1>5 DEF Fail, Crash
<1>6. QED
  BY <1>1, <1>2, <1>3, <1>4, <1>5 DEF Step

\* A tick that stays where it is, or goes on without losing a spec it still has to
\* insert, keeps what it owes.
LEMMA TickGoesOn ==
  ASSUME KeptInv, [Next]_vars, NEW w \in Worker, RunOwned(w), Owing(w), Ended(w),
         now'[w] = now[w], job'[w] = job[w], run'[w] = run[w],
         pc'[w] \in TryPoint \ {"reload"} => pc[w] \in TryPoint \ {"reload"},
         pc'[w] \in AfterExecute => pc[w] \in AfterExecute,
         SpecTypes(todo[w]) \subseteq SpecTypes(todo[w])' \cup ChildTypes(job[w])',
         pc'[w] = "complete" => \/ pc[w] = "complete" /\ todo'[w] = todo[w]
                                \/ todo'[w] = <<>> /\ runs'[run[w]].status # "running"
  PROVE  (RunOwned(w) /\ Owing(w) /\ Ended(w))'
<1> USE DEF KeptInv, LeaseInv
<1>1. pc[w] \in TryPoint => run[w] \in RunId /\ job[w] \in TaskId /\ tasks[job[w]].status # "absent"
  BY DEF HoldOK, Holds, HoldPoint, TryPoint
<1>2. RunOwned(w)'
  BY <1>1, RunStep DEF RunOwned
<1>3. ASSUME pc'[w] \in AfterExecute PROVE Owing(w)'
  <2>1. job[w] \in TaskId /\ tasks[job[w]].status # "absent" /\ pc[w] \in AfterExecute
    BY <1>1, <1>3 DEF AfterExecute, TryPoint
  <2>2. RowKept(job[w])
    BY <2>1, RowStep
  <2>3. Owes(job[w], now[w])' = Owes(job[w], now[w])
    BY <2>2 DEF Owes, RowKept, SpecTypes
  <2>4. Owes(job[w], now[w]) \subseteq ChildTypes(job[w]) \cup SpecTypes(todo[w])
    BY <2>1 DEF Owing
  <2>5. ChildTypes(job[w]) \subseteq ChildTypes(job[w])'
    BY ChildrenGrow
  <2>6. Owes(job[w], now[w])' \subseteq ChildTypes(job[w])' \cup SpecTypes(todo[w])'
    BY <2>3, <2>4, <2>5
  <2>7. tasks'[job[w]].type \in ReportType => summaries'[job[w]] > 0
    <3>1. summaries'[job[w]] >= summaries[job[w]]
      BY <2>1, SummariesGrow
    <3>2. summaries[job[w]] \in Nat /\ summaries'[job[w]] \in Nat
      BY <2>1, InvStep DEF TypeOK
    <3>3. QED
      BY <2>1, <2>2, <3>1, <3>2 DEF Owing, RowKept
  <2>8. QED
    BY <2>6, <2>7 DEF Owing
<1>4. Ended(w)'
  <2>1. CASE pc'[w] = "complete" /\ pc[w] = "complete" /\ todo'[w] = todo[w]
    <3>1. todo[w] = <<>> /\ runs[run[w]].status # "running"
      BY <2>1 DEF Ended
    <3>2. run[w] \in RunId /\ runs[run[w]].status # "absent"
      BY <1>1, <2>1 DEF RunOwned, TryPoint
    <3>3. runs'[run[w]].status # "running"
      BY <3>1, <3>2, RunStep
    <3>4. QED
      BY <2>1, <3>1, <3>3 DEF Ended
  <2>2. QED
    BY <2>1 DEF Ended
<1>5. QED
  BY <1>2, <1>3, <1>4 DEF Owing

\* What a step of its own does to what a tick owes.
LEMMA OwnTick ==
  ASSUME KeptInv, [Next]_vars, NEW w \in Worker, RunOwned(w), Owing(w), Ended(w),
         Step(w) \/ Fail(w) \/ Crash(w)
  PROVE  (RunOwned(w) /\ Owing(w) /\ Ended(w))'
<1>a. TypeOK /\ HoldOK
  BY DEF KeptInv, LeaseInv
<1>b. todo[w] \in Seq(NextTaskSpec)
  BY <1>a DEF TypeOK
<1> DEFINE Away == pc'[w] \notin TryPoint \ {"reload"}
<1>c. Away => (RunOwned(w) /\ Owing(w) /\ Ended(w))'
  BY DEF RunOwned, Owing, Ended, AfterExecute, TryPoint
<1>1. CASE Begin(w) \/ Acquire(w) \/ Skip(w)
  <2>1. Away
    BY <1>a, <1>1 DEF Begin, Acquire, Skip, Forget, Goto, TryPoint, TypeOK
  <2>2. QED
    BY <1>c, <2>1
<1>2. CASE StartRun(w)
  <2>1. FreshRun \in RunId
    BY <1>2, FreshRunType DEF StartRun
  <2>2. /\ pc'[w] = "execute" /\ run'[w] = FreshRun /\ job'[w] = job[w]
        /\ runs'[FreshRun] = [task |-> job[w], owner |-> w, status |-> "running"]
    BY <1>a, <1>2, <2>1 DEF StartRun, Goto, TypeOK
  <2>3. QED
    BY <2>2 DEF RunOwned, Owing, Ended, AfterExecute
<1>3. CASE Execute(w)
  <2>1. /\ pc[w] = "execute" /\ pc'[w] \in {"create", "checkPending", "supersede"}
        /\ UNCHANGED <<tasks, runs, now, job, run>>
        /\ todo'[w] = NextSpecs(JobType(w), now[w], tasks[job[w]].force)
        /\ summaries' = Reported(w)
    BY <1>a, <1>3 DEF Execute, AskAgent, WeighIteration, Goto, TypeOK
  <2>2. RunOwned(w)' /\ Ended(w)'
    BY <2>1 DEF RunOwned, Ended, TryPoint
  <2>3. job[w] \in TaskId
    BY <1>a, <2>1 DEF HoldOK, Holds, HoldPoint, TryPoint
  <2>4. tasks[job[w]].type \in ReportType => summaries'[job[w]] > 0
    BY <1>a, <2>1, <2>3 DEF Reported, JobType, TypeOK
  <2>5. Owes(job[w], now[w])' = SpecTypes(todo[w])'
    BY <2>1 DEF Owes, JobType, SpecTypes
  <2>6. QED
    BY <2>1, <2>2, <2>4, <2>5 DEF Owing
<1>4. CASE Supersede(w) \/ CheckPending(w)
  <2>1. /\ pc[w] \in {"supersede", "checkPending"} /\ pc'[w] \in {"create", "checkRunning"}
        /\ UNCHANGED <<now, job, run, todo>>
    BY <1>a, <1>4 DEF Supersede, CheckPending, Goto, local, TypeOK
  <2>2. QED
    BY <2>1, TickGoesOn DEF AfterExecute, TryPoint, SpecTypes
<1>5. CASE CheckRunning(w)
  <2>1. /\ pc[w] = "checkRunning" /\ pc'[w] = "create" /\ UNCHANGED <<now, job, run>>
        /\ todo'[w] = todo[w] \/ todo'[w] = Append(todo[w], IterationSpec(now[w]))
    BY <1>a, <1>5 DEF CheckRunning, Goto, TypeOK
  <2>2. IterationSpec(now[w]) \in NextTaskSpec
    <3>1. now[w] + After["1m"] \in Nat
      BY <1>a, TimeAssumption DEF TypeOK, Span
    <3>2. "strategy_iteration" \in Type
      BY DEF Type
    <3>3. QED
      BY <3>1, <3>2, Next1Type DEF IterationSpec
  <2>3. SpecTypes(todo[w]) \subseteq SpecTypes(todo[w])'
    <3>1. CASE todo'[w] = Append(todo[w], IterationSpec(now[w]))
      <4>1. \A k \in DOMAIN todo[w] : k \in DOMAIN todo'[w] /\ todo'[w][k] = todo[w][k]
        BY <1>b, <2>2, <3>1, AppendProperties, LenProperties
      <4>2. QED
        BY <4>1 DEF SpecTypes
    <3>2. QED
      BY <2>1, <3>1 DEF SpecTypes
  <2>4. QED
    BY <2>1, <2>3, TickGoesOn DEF AfterExecute, TryPoint
<1>6. CASE CreateNext(w)
  <2>1. /\ pc[w] = "create" /\ pc'[w] = "create" /\ UNCHANGED <<now, job, run>>
        /\ todo[w] # <<>> /\ todo'[w] = Tail(todo[w])
        /\ FreshTask \in TaskId
        /\ tasks'[FreshTask] = Inserted(Head(todo[w]), tasks[job[w]].force, job[w])
    BY <1>a, <1>6, FreshTaskType DEF CreateNext, TypeOK
  <2>2. Head(todo[w]).type \in ChildTypes(job[w])'
    BY <2>1 DEF ChildTypes, Inserted
  <2>3. ASSUME NEW k \in DOMAIN todo[w] PROVE todo[w][k].type \in SpecTypes(Tail(todo[w])) \cup {Head(todo[w]).type}
    <3>1. k \in 1 .. Len(todo[w]) /\ Len(todo[w]) \in Nat
      BY <1>b, <2>3, LenProperties
    <3>2. CASE k = 1
      BY <1>b, <2>1, <3>2, HeadTailProperties
    <3>3. CASE k # 1
      <4>1. /\ k - 1 \in 1 .. Len(Tail(todo[w])) /\ Tail(todo[w])[k - 1] = todo[w][k]
            /\ Tail(todo[w]) \in Seq(NextTaskSpec)
        BY <1>b, <2>1, <3>1, <3>3, HeadTailProperties
      <4>2. k - 1 \in DOMAIN Tail(todo[w])
        BY <4>1, LenProperties
      <4>3. QED
        BY <4>1, <4>2 DEF SpecTypes
    <3>4. QED
      BY <3>2, <3>3
  <2>4. SpecTypes(todo[w]) \subseteq SpecTypes(todo[w])' \cup ChildTypes(job[w])'
    BY <2>1, <2>2, <2>3 DEF SpecTypes
  <2>5. QED
    BY <2>1, <2>4, TickGoesOn DEF AfterExecute, TryPoint
<1>7. CASE FinishRun(w)
  <2>1. /\ pc[w] = "create" /\ pc'[w] = "complete" /\ UNCHANGED <<now, job, run, todo>>
        /\ todo[w] = <<>> /\ runs' = [runs EXCEPT ![run[w]].status = "ok"]
    BY <1>a, <1>7 DEF FinishRun, Goto, local, TypeOK
  <2>2. run[w] \in RunId
    BY <1>a, <2>1 DEF HoldOK, Holds, HoldPoint, TryPoint
  <2>3. runs'[run[w]].status # "running"
    BY <1>a, <2>1, <2>2 DEF TypeOK, Run
  <2>4. SpecTypes(todo[w]) \subseteq SpecTypes(todo[w])'
    BY <2>1 DEF SpecTypes
  <2>5. QED
    BY <2>1, <2>3, <2>4, TickGoesOn DEF AfterExecute, TryPoint
<1>8. CASE Complete(w) \/ Return(w) \/ FailRun(w) \/ FailTask(w) \/ Fail(w) \/ Crash(w)
  <2>1. Away
    BY <1>a, <1>8 DEF Complete, Return, FailRun, FailTask, Fail, Crash, Forget, Goto, TryPoint, TypeOK
  <2>2. QED
    BY <1>c, <2>1
<1>9. QED
  BY <1>1, <1>2, <1>3, <1>4, <1>5, <1>6, <1>7, <1>8 DEF Step
-----------------------------------------------------------------------------
(* The table. *)

\* The clock stays within its bound.
LEMMA InTimeKept == InTime /\ [Next]_vars => InTime'
<1> SUFFICES ASSUME InTime, [Next]_vars PROVE InTime'
  OBVIOUS
<1> USE BoundAssumption DEF InTime
<1>1. CASE Tick
  BY <1>1 DEF Tick
<1>2. ASSUME NEW w \in Worker, Step(w) \/ Fail(w) \/ Crash(w) PROVE clock' = clock
  BY <1>2 DEF Step, Begin, Acquire, Skip, StartRun, Execute, Supersede, CheckPending,
     CheckRunning, CreateNext, FinishRun, Complete, Return, FailRun, FailTask, Fail, Crash
<1>3. ASSUME NEW type \in RootType, NEW due \in RootDue, NEW force \in RootForce,
             Bootstrap(type, due, force)
      PROVE  clock' = clock
  BY <1>3 DEF Bootstrap
<1>4. QED
  BY <1>1, <1>2, <1>3 DEF Next, vars

\* A new row is inserted by a bootstrap or as the next successor of a tick.
LEMMA NewRow ==
  ASSUME TypeOK, HoldOK, [Next]_vars, NEW i \in TaskId, tasks[i].status = "absent"
  PROVE  \/ tasks'[i] = tasks[i]
         \/ \E type \in RootType, due \in RootDue, force \in RootForce :
              /\ Bootstrap(type, due, force)
              /\ tasks'[i] = Inserted(Next1(type, 100, due), force, None)
         \/ \E w \in Worker :
              CreateNext(w) /\ tasks'[i] = Inserted(Head(todo[w]), tasks[job[w]].force, job[w])
<1> USE DEF TypeOK
<1>1. ASSUME NEW type \in RootType, NEW due \in RootDue, NEW force \in RootForce,
             Bootstrap(type, due, force)
      PROVE  tasks'[i] = tasks[i] \/ tasks'[i] = Inserted(Next1(type, 100, due), force, None)
  BY <1>1, FreshTaskType DEF Bootstrap
<1>2. ASSUME NEW w \in Worker, CreateNext(w)
      PROVE  \/ tasks'[i] = tasks[i]
             \/ tasks'[i] = Inserted(Head(todo[w]), tasks[job[w]].force, job[w])
  BY <1>2, FreshTaskType DEF CreateNext
<1>3. ASSUME NEW w \in Worker, Acquire(w) \/ Supersede(w) PROVE tasks'[i] = tasks[i]
  BY <1>3 DEF Acquire, First, Due, Supersede
<1>4. ASSUME NEW w \in Worker, Complete(w) \/ FailTask(w) PROVE tasks'[i] = tasks[i]
  BY <1>4 DEF Complete, FailTask, CloseTask, HoldOK, Holds, HoldPoint, TryPoint
<1>5. ASSUME NEW w \in Worker,
             \/ Begin(w) \/ Skip(w) \/ StartRun(w) \/ Execute(w)
             \/ CheckPending(w) \/ CheckRunning(w) \/ FinishRun(w)
             \/ Return(w) \/ FailRun(w) \/ Fail(w) \/ Crash(w)
      PROVE  tasks' = tasks
  BY <1>5 DEF Begin, Skip, StartRun, Execute, CheckPending, CheckRunning, FinishRun,
     Return, FailRun, Fail, Crash, table
<1>6. CASE Tick \/ UNCHANGED vars
  BY <1>6 DEF Tick, vars, table
<1>7. ASSUME NEW w \in Worker, Step(w) \/ Fail(w) \/ Crash(w)
      PROVE  \/ tasks'[i] = tasks[i]
             \/ CreateNext(w) /\ tasks'[i] = Inserted(Head(todo[w]), tasks[job[w]].force, job[w])
  <2>1. CASE CreateNext(w)
    BY <1>2, <2>1
  <2>2. CASE Acquire(w) \/ Supersede(w) \/ Complete(w) \/ FailTask(w)
    BY <1>3, <1>4, <2>2
  <2>3. CASE ~(CreateNext(w) \/ Acquire(w) \/ Supersede(w) \/ Complete(w) \/ FailTask(w))
    BY <1>5, <1>7, <2>3 DEF Step
  <2>4. QED
    BY <2>1, <2>2, <2>3
<1>8. CASE \E type \in RootType, due \in RootDue, force \in RootForce : Bootstrap(type, due, force)
  BY <1>1, <1>8
<1>9. CASE \E w \in Worker : Step(w) \/ Fail(w) \/ Crash(w)
  BY <1>7, <1>9
<1>10. QED
  BY <1>6, <1>8, <1>9 DEF Next

LEMMA NewRowIsPending ==
  ASSUME TypeOK, HoldOK, [Next]_vars, NEW i \in TaskId, tasks[i].status = "absent"
  PROVE  ~Done(i)'
<1>1. tasks'[i] = tasks[i] \/ \E spec, force, parent : tasks'[i] = Inserted(spec, force, parent)
  BY NewRow
<1>2. ASSUME NEW spec, NEW force, NEW parent, tasks'[i] = Inserted(spec, force, parent)
      PROVE  ~Done(i)'
  BY <1>2 DEF Inserted, Done
<1>3. QED
  BY <1>1, <1>2 DEF Done

\* A task that has left what it owed goes on having left it.
Left(i) ==
  /\ \E t \in 0 .. MaxClock : Owes(i, t) \subseteq ChildTypes(i)
  /\ tasks[i].type \in ReportType => summaries[i] > 0
  /\ \E r \in RunsOf(i) : runs[r].status # "running"

LEMMA LeftKept ==
  ASSUME TypeOK, TypeOK', HoldOK, [Next]_vars, NEW i \in TaskId, tasks[i].status # "absent", Left(i)
  PROVE  Left(i)'
<1>1. RowKept(i)
  BY RowStep
<1>2. PICK t \in 0 .. MaxClock : Owes(i, t) \subseteq ChildTypes(i)
  BY DEF Left
<1>3. Owes(i, t)' = Owes(i, t)
  BY <1>1 DEF Owes, RowKept, SpecTypes
<1>4. Owes(i, t)' \subseteq ChildTypes(i)'
  BY <1>2, <1>3, ChildrenGrow
<1>5. tasks'[i].type \in ReportType => summaries'[i] > 0
  <2>1. summaries'[i] >= summaries[i] /\ summaries[i] \in Nat /\ summaries'[i] \in Nat
    BY SummariesGrow DEF TypeOK
  <2>2. QED
    BY <1>1, <2>1 DEF Left, RowKept
<1>6. PICK r \in RunsOf(i) : runs[r].status # "running"
  BY DEF Left
<1>7. r \in RunsOf(i)' /\ runs'[r].status # "running"
  BY <1>6, RunStep DEF RunsOf
<1>8. QED
  BY <1>4, <1>5, <1>7 DEF Left

LEMMA ChainStep == ChainInv /\ [Next]_vars => ChainInv'
<1> SUFFICES ASSUME ChainInv, [Next]_vars PROVE ChainInv'
  OBVIOUS
<1>a. KeptInv /\ TypeOK /\ HoldOK /\ TickOK
  BY DEF ChainInv, KeptInv, LeaseInv
<1>1. KeptInv'
  BY <1>a, InvStep, InTimeKept DEF KeptInv
<1>2. ASSUME NEW v \in Worker PROVE (RunOwned(v) /\ Owing(v) /\ Ended(v))'
  <2>1. RunOwned(v) /\ Owing(v) /\ Ended(v)
    BY <1>a DEF TickOK
  <2>2. CASE /\ pc'[v] = pc[v] /\ now'[v] = now[v] /\ job'[v] = job[v]
             /\ run'[v] = run[v] /\ todo'[v] = todo[v]
    BY <1>a, <2>1, <2>2, TickGoesOn DEF SpecTypes
  <2>3. ASSUME NEW w \in Worker, Step(w) \/ Fail(w) \/ Crash(w)
        PROVE  (RunOwned(v) /\ Owing(v) /\ Ended(v))'
    BY <1>a, <2>1, <2>2, <2>3, OwnTick, OtherTicks
  <2>4. QED
    BY <2>2, <2>3 DEF Next, Tick, Bootstrap, vars, local
<1>3. ASSUME NEW i \in TaskId, Done(i)' PROVE Left(i)'
  <2>1. tasks[i].status # "absent"
    BY <1>a, <1>3, NewRowIsPending
  <2>2. CASE Done(i)
    <3>1. Left(i)
      BY <2>2 DEF ChainInv, NoLostSuccessor, Left, Owes
    <3>2. QED
      BY <1>1, <1>a, <2>1, <3>1, LeftKept DEF KeptInv
  <2>3. ASSUME NEW w \in Worker, Complete(w), i = job[w] PROVE Left(i)'
    <3>1. pc[w] = "complete"
      BY <2>3 DEF Complete
    <3>2. /\ Owes(i, now[w]) \subseteq ChildTypes(i) \cup SpecTypes(todo[w])
          /\ tasks[i].type \in ReportType => summaries[i] > 0
          /\ todo[w] = <<>> /\ runs[run[w]].status # "running"
          /\ runs[run[w]].task = i /\ runs[run[w]].status # "absent"
      BY <1>a, <2>3, <3>1 DEF TickOK, Owing, Ended, RunOwned, AfterExecute, TryPoint
    <3>3. SpecTypes(todo[w]) = {}
      BY <3>2 DEF SpecTypes
    <3>4. now[w] \in 0 .. MaxClock
      BY <1>a, BoundAssumption DEF KeptInv, LeaseInv, NowPast, InTime, TypeOK
    <3>5. run[w] \in RunsOf(i)
      BY <1>a, <3>1, <3>2 DEF RunsOf, HoldOK, Holds, HoldPoint, TryPoint
    <3>6. Left(i)
      BY <3>2, <3>3, <3>4, <3>5 DEF Left
    <3>7. QED
      BY <1>1, <1>a, <2>1, <3>6, LeftKept DEF KeptInv
  <2>4. QED
    BY <1>3, <1>a, <2>1, <2>2, <2>3, RowStep
<1>4. TickOK'
  BY <1>2 DEF TickOK
<1>5. NoLostSuccessor'
  BY <1>3 DEF NoLostSuccessor, Left, Owes
<1>6. QED
  BY <1>1, <1>4, <1>5 DEF ChainInv

LEMMA ChainInit == Init => ChainInv
<1> SUFFICES ASSUME Init PROVE ChainInv
  OBVIOUS
<1>1. KeptInv
  BY InvInit, BoundAssumption DEF KeptInv, InTime, Init
<1>2. TickOK
  BY DEF TickOK, RunOwned, Owing, Ended, AfterExecute, TryPoint, Init
<1>3. NoLostSuccessor
  BY DEF NoLostSuccessor, Done, Init, NoTask
<1>4. QED
  BY <1>1, <1>2, <1>3 DEF ChainInv

\* A completed task has left everything it owed: the successors the table asks of a run
\* at some instant, the summary row of a report, and a run that ended.  No crash
\* between the commits of a tick, and no late tick, can lose a successor. (tick)
THEOREM SuccessorsNeverLost == Spec => []NoLostSuccessor
<1>1. ChainInv => NoLostSuccessor
  BY DEF ChainInv
<1>2. QED
  BY <1>1, ChainInit, ChainStep, PTL DEF Spec
-----------------------------------------------------------------------------
(* Iterations and the runs that asked for an agent. *)

\* A run that has started and will never ask for an agent.
Silent(r) ==
  /\ r \in RunId /\ runs[r].status # "absent" /\ r \notin handoffs
  /\ \A v \in Worker : pc[v] = "execute" => run[v] # r

InTry(w) == pc[w] \in TryPoint

\* Runs are not shared, a run asks for an agent only when it executes, and a tick that
\* considers or has decided on an iteration is of a silent run.
OwnRuns == \A u, v \in Worker : InTry(u) /\ InTry(v) /\ u # v => run[u] # run[v]
StartedRuns ==
  /\ \A r \in handoffs : r \in RunId /\ runs[r].status # "absent"
  /\ \A w \in Worker : InTry(w) => runs[run[w]].status # "absent"
  /\ \A w \in Worker : pc[w] = "execute" => run[w] \notin handoffs
Weighing(w) ==
  \/ pc[w] \in {"checkPending", "checkRunning"}
  \/ pc[w] \in {"supersede", "create"} /\ "strategy_iteration" \in SpecTypes(todo[w])
WeighSilently == \A w \in Worker : Weighing(w) => Silent(run[w])
IterationsSilent ==
  \A i \in TaskId : "strategy_iteration" \in ChildTypes(i) => \E r \in RunsOf(i) : Silent(r)

ScanInv == OwnRuns /\ StartedRuns /\ WeighSilently /\ IterationsSilent

\* No task type has an iteration among its fixed successors.
LEMMA NoFixedIteration ==
  ASSUME NEW type \in Type, NEW t, NEW force
  PROVE  "strategy_iteration" \notin SpecTypes(NextSpecs(type, t, force))
<1>1. \A prio, due : \A t1 \in Type \ {"strategy_iteration"} :
        "strategy_iteration" \notin SpecTypes(<<Next1(t1, prio, due)>>)
  BY DEF SpecTypes, Next1
<1>2. "strategy_iteration" \notin SpecTypes(<<>>)
  BY DEF SpecTypes
<1>3. CASE type = "post_market_research"
  <2> DEFINE s == <<Next1("news_scan", 20, t + After["1m"]),
                    Next1("kol_scan", 25, t + After["1m"]),
                    Next1("sector_review", 30, t + After["3m"])>>
  <2>1. NextSpecs(type, t, force) = s
    BY <1>3 DEF NextSpecs
  <2>2. \A k \in DOMAIN s : s[k].type # "strategy_iteration"
    BY DEF Next1
  <2>3. QED
    BY <2>1, <2>2 DEF SpecTypes
<1>4. CASE type = "market_observe"
  BY <1>1, <1>4 DEF NextSpecs, Type, MainType
<1>5. CASE type = "alpha_mine"
  BY <1>1, <1>5 DEF NextSpecs, Type, MainType
<1>6. CASE type = "judge_review"
  BY <1>1, <1>6 DEF NextSpecs, Type, MainType
<1>7. CASE type = "paper_trade"
  BY <1>1, <1>7 DEF NextSpecs, Type, MainType
<1>8. CASE type = "hourly_report"
  BY <1>1, <1>8 DEF NextSpecs, Type, MainType
<1>9. CASE type = "news_scan"
  BY <1>1, <1>2, <1>9 DEF NextSpecs, NextRecurringScan, Type
<1>10. CASE type = "kol_scan"
  BY <1>1, <1>2, <1>10 DEF NextSpecs, NextRecurringScan, Type
<1>11. CASE type = "sector_review"
  BY <1>1, <1>11 DEF NextSpecs, Type, MainType
<1>12. CASE type = "strategy_analysis"
  BY <1>1, <1>12 DEF NextSpecs, Type, MainType
<1>13. CASE type = "strategy_iteration"
  BY <1>2, <1>13 DEF NextSpecs
<1>14. CASE type = "daily_report"
  BY <1>1, <1>14 DEF NextSpecs, Type, MainType
<1>15. QED
  BY <1>3, <1>4, <1>5, <1>6, <1>7, <1>8, <1>9, <1>10, <1>11, <1>12, <1>13, <1>14 DEF Type, MainType

\* Every step but the start and the execution of a run leaves the handoffs alone and
\* brings no tick into its try block or to its execution.
QuietRuns ==
  /\ handoffs' = handoffs
  /\ \A v \in Worker : InTry(v)' =>
       InTry(v) /\ run'[v] = run[v] /\ (pc'[v] = "execute" => pc[v] = "execute")

LEMMA QuietRunsStep ==
  ASSUME TypeOK, [Next]_vars
  PROVE  QuietRuns \/ \E w \in Worker : StartRun(w) \/ Execute(w)
<1> USE DEF TypeOK, Goto, Forget, local, table, InTry, TryPoint, QuietRuns
<1>1. ASSUME NEW w \in Worker, Begin(w) \/ Acquire(w) \/ Skip(w) \/ Complete(w) \/ Return(w)
      PROVE  QuietRuns
  BY <1>1 DEF Begin, Acquire, Skip, Complete, Return
<1>2. ASSUME NEW w \in Worker, Supersede(w) \/ CheckPending(w) \/ CheckRunning(w) \/ CreateNext(w)
      PROVE  QuietRuns
  BY <1>2 DEF Supersede, CheckPending, CheckRunning, CreateNext
<1>3. ASSUME NEW w \in Worker, FinishRun(w) \/ FailRun(w) \/ FailTask(w) \/ Fail(w) \/ Crash(w)
      PROVE  QuietRuns
  BY <1>3 DEF FinishRun, FailRun, FailTask, Fail, Crash
<1>4. CASE Tick \/ UNCHANGED vars
  BY <1>4 DEF Tick, vars
<1>5. ASSUME NEW type \in RootType, NEW due \in RootDue, NEW force \in RootForce,
             Bootstrap(type, due, force)
      PROVE  QuietRuns
  BY <1>5 DEF Bootstrap
<1>6. QED
  BY <1>1, <1>2, <1>3, <1>4, <1>5 DEF Next, Step

\* What the other two steps do to them.
LEMMA StartRunDoes ==
  ASSUME TypeOK, NEW w \in Worker, StartRun(w)
  PROVE  /\ run'[w] \in RunId /\ runs[run'[w]].status = "absent"
         /\ runs'[run'[w]].status # "absent"
         /\ handoffs' = handoffs /\ pc'[w] = "execute"
BY DEF TypeOK, StartRun, AbsentRun, FreshRun, Goto

LEMMA ExecuteDoes ==
  ASSUME TypeOK, NEW w \in Worker, Execute(w)
  PROVE  /\ pc[w] = "execute" /\ run' = run
         /\ pc'[w] \in {"create", "checkPending", "supersede"}
         /\ \/ handoffs' = handoffs
            \/ handoffs' = handoffs \cup {run[w]} /\ pc'[w] = "create"
         /\ todo'[w] = NextSpecs(JobType(w), now[w], tasks[job[w]].force)
BY DEF TypeOK, Execute, AskAgent, WeighIteration, Goto

LEMMA SilentStays ==
  ASSUME TypeOK, HoldOK, [Next]_vars, NEW r, Silent(r)
  PROVE  Silent(r)'
<1>1. r \in RunId /\ runs'[r].status # "absent"
  BY RunStep DEF Silent
<1>2. CASE QuietRuns
  BY <1>1, <1>2 DEF QuietRuns, Silent, InTry, TryPoint
<1>3. ASSUME NEW w \in Worker, StartRun(w) PROVE Silent(r)'
  BY <1>1, <1>3, StartRunDoes, OtherTicks DEF Silent, Step
<1>4. ASSUME NEW w \in Worker, Execute(w) PROVE Silent(r)'
  BY <1>1, <1>4, ExecuteDoes, OtherTicks DEF Silent, Step
<1>5. QED
  BY <1>2, <1>3, <1>4, QuietRunsStep

LEMMA RunsKept == TypeOK /\ HoldOK /\ OwnRuns /\ StartedRuns /\ [Next]_vars
                    => OwnRuns' /\ StartedRuns'
<1> SUFFICES ASSUME TypeOK, HoldOK, OwnRuns, StartedRuns, [Next]_vars
             PROVE  OwnRuns' /\ StartedRuns'
  OBVIOUS
<1>1. \A w \in Worker : InTry(w) => run[w] \in RunId
  BY DEF HoldOK, Holds, HoldPoint, InTry, TryPoint
<1>2. CASE QuietRuns
  <2>1. OwnRuns'
    BY <1>2 DEF QuietRuns, OwnRuns
  <2>2. StartedRuns'
    BY <1>1, <1>2, RunStep DEF QuietRuns, StartedRuns, InTry, TryPoint
  <2>3. QED
    BY <2>1, <2>2
<1>3. ASSUME NEW w \in Worker, StartRun(w) PROVE OwnRuns' /\ StartedRuns'
  <2>1. \A v \in Worker : v # w => pc'[v] = pc[v] /\ run'[v] = run[v]
    BY <1>3, OtherTicks DEF Step
  <2>2. \A v \in Worker : v # w /\ InTry(v) => run[v] # run'[w]
    BY <1>3, StartRunDoes DEF StartedRuns
  <2>3. OwnRuns'
    BY <2>1, <2>2 DEF OwnRuns, InTry
  <2>4. run'[w] \notin handoffs
    BY <1>3, StartRunDoes DEF StartedRuns
  <2>5. StartedRuns'
    BY <1>1, <1>3, <2>1, <2>4, StartRunDoes, RunStep DEF StartedRuns, InTry, TryPoint
  <2>6. QED
    BY <2>3, <2>5
<1>4. ASSUME NEW w \in Worker, Execute(w) PROVE OwnRuns' /\ StartedRuns'
  <2>1. \A v \in Worker : v # w => pc'[v] = pc[v]
    BY <1>4, OtherTicks DEF Step
  <2>2. \A v \in Worker : InTry(v)' => InTry(v)
    BY <1>4, <2>1, ExecuteDoes DEF InTry, TryPoint
  <2>3. OwnRuns'
    BY <1>4, <2>2, ExecuteDoes DEF OwnRuns
  <2>4. StartedRuns'
    <3>1. InTry(w) /\ run[w] \in RunId /\ runs[run[w]].status # "absent"
      BY <1>1, <1>4, ExecuteDoes DEF StartedRuns, InTry, TryPoint
    <3>2. \A r \in handoffs' : r \in RunId /\ runs'[r].status # "absent"
      BY <1>4, <3>1, ExecuteDoes, RunStep DEF StartedRuns
    <3>3. \A v \in Worker : InTry(v)' => runs'[run'[v]].status # "absent"
      BY <1>1, <1>4, <2>2, ExecuteDoes, RunStep DEF StartedRuns
    <3>4. \A v \in Worker : pc'[v] = "execute" => v # w /\ run[v] \notin handoffs /\ run[v] # run[w]
      BY <1>4, <2>1, <3>1, ExecuteDoes DEF StartedRuns, OwnRuns, InTry, TryPoint
    <3>5. QED
      BY <1>4, <3>2, <3>3, <3>4, ExecuteDoes DEF StartedRuns
  <2>5. QED
    BY <2>3, <2>4
<1>5. QED
  BY <1>2, <1>3, <1>4, QuietRunsStep

\* An iteration among the children of a task was inserted by a tick that holds the task.
LEMMA NewIteration ==
  ASSUME TypeOK, HoldOK, [Next]_vars, NEW i \in TaskId,
         "strategy_iteration" \in ChildTypes(i)', "strategy_iteration" \notin ChildTypes(i)
  PROVE  \E w \in Worker : CreateNext(w) /\ job[w] = i /\ Head(todo[w]).type = "strategy_iteration"
<1>1. PICK j \in TaskId : /\ tasks'[j].status # "absent" /\ tasks'[j].parent = i
                          /\ tasks'[j].type = "strategy_iteration"
  BY DEF ChildTypes
<1>2. CASE tasks[j].status # "absent"
  BY <1>1, <1>2, RowStep DEF RowKept, ChildTypes
<1>3. CASE tasks[j].status = "absent"
  <2>1. tasks'[j] # tasks[j]
    BY <1>1, <1>3
  <2>2. ASSUME NEW type \in RootType, NEW due \in RootDue, NEW force \in RootForce,
               tasks'[j] = Inserted(Next1(type, 100, due), force, None)
        PROVE  FALSE
    BY <1>1, <2>2, NoneAssumption DEF Inserted
  <2>3. PICK w \in Worker :
          CreateNext(w) /\ tasks'[j] = Inserted(Head(todo[w]), tasks[job[w]].force, job[w])
    BY <1>3, <2>1, <2>2, NewRow
  <2>4. job[w] = i /\ Head(todo[w]).type = "strategy_iteration"
    BY <1>1, <2>3 DEF Inserted
  <2>5. QED
    BY <2>3, <2>4
<1>4. QED
  BY <1>2, <1>3

LEMMA WeighKept ==
  ASSUME TypeOK, HoldOK, OwnRuns, StartedRuns, WeighSilently, [Next]_vars
  PROVE  WeighSilently'
<1>1. SUFFICES ASSUME NEW v \in Worker, Weighing(v)' PROVE Silent(run[v])'
  BY DEF WeighSilently
<1>2. CASE Weighing(v) /\ run'[v] = run[v]
  <2>1. Silent(run[v])
    BY <1>2 DEF WeighSilently
  <2>2. Silent(run[v])'
    BY <1>2, <2>1, SilentStays DEF Silent
  <2>3. QED
    BY <2>2
<1>3. CASE /\ pc'[v] = pc[v] /\ run'[v] = run[v] /\ todo'[v] = todo[v]
  BY <1>1, <1>2, <1>3 DEF Weighing, SpecTypes
<1>4. CASE Execute(v)
  <2>1. job[v] \in TaskId /\ tasks[job[v]].type \in Type /\ run[v] \in RunId
    BY <1>4, ExecuteDoes DEF HoldOK, Holds, HoldPoint, TryPoint, TypeOK, Task
  <2>2. "strategy_iteration" \notin SpecTypes(todo[v])'
    BY <1>4, <2>1, ExecuteDoes, NoFixedIteration DEF JobType, SpecTypes
  <2>3. pc'[v] = "checkPending" /\ handoffs' = handoffs
    BY <1>1, <1>4, <2>2, ExecuteDoes DEF Weighing
  <2>4. run[v] \notin handoffs /\ runs[run[v]].status # "absent"
    BY <1>4, ExecuteDoes DEF StartedRuns, InTry, TryPoint
  <2>5. runs'[run[v]].status # "absent"
    BY <2>1, <2>4, RunStep
  <2>6. \A u \in Worker : pc'[u] = "execute" => run'[u] # run[v]
    BY <1>4, <2>3, ExecuteDoes, OtherTicks DEF Step, OwnRuns, InTry, TryPoint
  <2>7. QED
    BY <1>4, <2>1, <2>3, <2>4, <2>5, <2>6, ExecuteDoes DEF Silent
<1>5. CASE CheckPending(v) \/ CheckRunning(v)
  BY <1>2, <1>5 DEF CheckPending, CheckRunning, Weighing, local
<1>6. CASE Supersede(v)
  BY <1>1, <1>2, <1>6 DEF Supersede, Weighing, Goto, local, TypeOK, SpecTypes
<1>7. CASE CreateNext(v)
  <2>1. pc[v] = "create" /\ pc'[v] = "create" /\ run'[v] = run[v]
        /\ todo[v] # <<>> /\ todo'[v] = Tail(todo[v]) /\ todo[v] \in Seq(NextTaskSpec)
    BY <1>7 DEF CreateNext, TypeOK
  <2>2. ASSUME NEW k \in DOMAIN Tail(todo[v])
        PROVE  \E j \in DOMAIN todo[v] : todo[v][j] = Tail(todo[v])[k]
    <3>1. /\ Tail(todo[v]) \in Seq(NextTaskSpec) /\ Len(Tail(todo[v])) = Len(todo[v]) - 1
          /\ Len(todo[v]) \in Nat
          /\ \A n \in 1 .. Len(Tail(todo[v])) : Tail(todo[v])[n] = todo[v][n + 1]
      BY <2>1, HeadTailProperties, LenProperties
    <3>2. k \in 1 .. Len(todo[v]) - 1
      BY <2>2, <3>1, LenProperties
    <3>3. k + 1 \in DOMAIN todo[v] /\ Tail(todo[v])[k] = todo[v][k + 1]
      BY <2>1, <3>1, <3>2, LenProperties
    <3>4. QED
      BY <3>3
  <2>3. SpecTypes(todo[v])' \subseteq SpecTypes(todo[v])
    BY <2>1, <2>2 DEF SpecTypes
  <2>4. QED
    BY <1>1, <1>2, <2>1, <2>3 DEF Weighing
<1>8. CASE \/ Begin(v) \/ Acquire(v) \/ Skip(v) \/ StartRun(v) \/ FinishRun(v) \/ Complete(v)
           \/ Return(v) \/ FailRun(v) \/ FailTask(v) \/ Fail(v) \/ Crash(v)
  BY <1>1, <1>8 DEF Begin, Acquire, Skip, StartRun, FinishRun, Complete, Return, FailRun,
     FailTask, Fail, Crash, Forget, Goto, Weighing, TypeOK
<1>9. ASSUME NEW w \in Worker, Step(w) \/ Fail(w) \/ Crash(w), w # v
      PROVE  pc'[v] = pc[v] /\ run'[v] = run[v] /\ todo'[v] = todo[v]
  BY <1>9, OtherTicks
<1>10. QED
  <2>1. CASE Step(v) \/ Fail(v) \/ Crash(v)
    BY <2>1, <1>4, <1>5, <1>6, <1>7, <1>8 DEF Step
  <2>2. CASE ~(Step(v) \/ Fail(v) \/ Crash(v))
    BY <2>2, <1>3, <1>9 DEF Next, Tick, Bootstrap, vars, local
  <2>3. QED
    BY <2>1, <2>2

LEMMA IterationsKept ==
  ASSUME TypeOK, HoldOK, TickOK, WeighSilently, IterationsSilent, [Next]_vars
  PROVE  IterationsSilent'
<1>1. SUFFICES ASSUME NEW i \in TaskId, "strategy_iteration" \in ChildTypes(i)'
               PROVE  \E r \in RunsOf(i)' : Silent(r)'
  BY DEF IterationsSilent
<1>2. \E r \in RunsOf(i) : Silent(r)
  <2>1. CASE "strategy_iteration" \in ChildTypes(i)
    BY <2>1 DEF IterationsSilent
  <2>2. ASSUME NEW w \in Worker, CreateNext(w), job[w] = i,
               Head(todo[w]).type = "strategy_iteration"
        PROVE  \E r \in RunsOf(i) : Silent(r)
    <3>1. pc[w] = "create" /\ todo[w] # <<>> /\ todo[w] \in Seq(NextTaskSpec)
      BY <2>2 DEF CreateNext, TypeOK
    <3>2. 1 \in DOMAIN todo[w] /\ Head(todo[w]) = todo[w][1]
      BY <3>1, LenProperties, HeadTailProperties, EmptySeq
    <3>3. Weighing(w)
      BY <2>2, <3>1, <3>2 DEF Weighing, SpecTypes
    <3>4. Silent(run[w])
      BY <3>3 DEF WeighSilently
    <3>5. runs[run[w]].task = i
      BY <2>2, <3>1 DEF TickOK, RunOwned, TryPoint
    <3>6. QED
      BY <3>4, <3>5 DEF Silent, RunsOf
  <2>3. QED
    BY <1>1, <2>1, <2>2, NewIteration
<1>3. PICK r \in RunsOf(i) : Silent(r)
  BY <1>2
<1>4. r \in RunsOf(i)'
  BY <1>3, RunStep DEF RunsOf
<1>5. QED
  BY <1>3, <1>4, SilentStays

LEMMA ScanInit == Init => ScanInv
BY DEF Init, ScanInv, OwnRuns, StartedRuns, WeighSilently, IterationsSilent, Weighing, InTry,
   TryPoint, ChildTypes, NoTask

LEMMA ScanStep == ChainInv /\ ScanInv /\ [Next]_vars => ScanInv'
<1>1. TypeOK /\ HoldOK /\ TickOK /\ ScanInv /\ [Next]_vars => ScanInv'
  BY RunsKept, WeighKept, IterationsKept DEF ScanInv
<1>2. QED
  BY <1>1 DEF ChainInv, KeptInv, LeaseInv

\* An assistant prompt is not a report: a KOL scan all of whose runs asked for an agent
\* has not scheduled a strategy_iteration. (_execute_kol_scan)
THEOREM PromptNeverReport == Spec => []PromptIsNotReport
<1>1. ScanInv => PromptIsNotReport
  BY DEF ScanInv, IterationsSilent, Silent, PromptIsNotReport
<1>2. QED
  BY <1>1, ScanInit, ScanStep, ChainInit, ChainStep, PTL DEF Spec
-----------------------------------------------------------------------------
(* The lists of successors. *)

\* What Append and Tail leave in a list of specs.
LEMMA AppendSpecs ==
  ASSUME NEW s \in Seq(NextTaskSpec), NEW x \in NextTaskSpec
  PROVE  /\ \A k \in DOMAIN s : k \in DOMAIN Append(s, x) /\ Append(s, x)[k] = s[k]
         /\ \A k \in DOMAIN Append(s, x) :
              (k \in DOMAIN s /\ Append(s, x)[k] = s[k]) \/ (k = Len(s) + 1 /\ Append(s, x)[k] = x)
BY AppendProperties, LenProperties

LEMMA TailSpecs ==
  ASSUME NEW s \in Seq(NextTaskSpec), s # <<>>
  PROVE  /\ 1 \in DOMAIN s /\ Head(s) = s[1] /\ Tail(s) \in Seq(NextTaskSpec)
         /\ \A k \in DOMAIN Tail(s) : k \in Nat /\ k + 1 \in DOMAIN s /\ Tail(s)[k] = s[k + 1] /\ k + 1 # 1
         /\ \A k \in DOMAIN s : k = 1 \/ (k - 1 \in DOMAIN Tail(s) /\ Tail(s)[k - 1] = s[k])
<1>1. /\ Tail(s) \in Seq(NextTaskSpec) /\ Len(Tail(s)) = Len(s) - 1 /\ Head(s) = s[1]
      /\ \A n \in 1 .. Len(Tail(s)) : Tail(s)[n] = s[n + 1]
  BY HeadTailProperties
<1>2. Len(s) \in Nat /\ DOMAIN s = 1 .. Len(s) /\ DOMAIN Tail(s) = 1 .. Len(Tail(s)) /\ Len(s) # 0
  BY <1>1, LenProperties, EmptySeq
<1>3. QED
  BY <1>1, <1>2

\* The places of the main line among the specs a tick has still to insert.
MainSpecs(w) == {k \in DOMAIN todo[w] : todo[w][k].type \in MainType}

\* The successor table asks for one main-line task after each main-line task, and for
\* none after the others.
LEMMA NextMain ==
  ASSUME NEW type \in Type, NEW t, NEW force
  PROVE  LET s == NextSpecs(type, t, force)
         IN  /\ \A k, l \in DOMAIN s : s[k].type \in MainType /\ s[l].type \in MainType => k = l
             /\ (\E k \in DOMAIN s : s[k].type \in MainType) <=> type \in MainType
<1> DEFINE s == NextSpecs(type, t, force)
           Goal == /\ \A k, l \in DOMAIN s : s[k].type \in MainType /\ s[l].type \in MainType => k = l
                   /\ (\E k \in DOMAIN s : s[k].type \in MainType) <=> type \in MainType
<1>1. ASSUME NEW x, NEW p, NEW d, s = <<Next1(x, p, d)>>, x \in MainType <=> type \in MainType
      PROVE  Goal
  BY <1>1 DEF Next1
<1>2. ASSUME s = <<>>, type \notin MainType PROVE Goal
  BY <1>2
<1> USE DEF MainType
<1>3. CASE type = "post_market_research"
  <2>1. s = <<Next1("news_scan", 20, t + After["1m"]), Next1("kol_scan", 25, t + After["1m"]),
              Next1("sector_review", 30, t + After["3m"])>>
    BY <1>3 DEF NextSpecs
  <2>2. QED
    BY <1>3, <2>1 DEF Next1
<1>4. CASE type \in {"news_scan", "kol_scan"}
  <2>1. \/ s = <<>>
        \/ s = <<Next1("news_scan", 40, t + After["15m"])>>
        \/ s = <<Next1("kol_scan", 40, t + After["30m"])>>
    BY <1>4 DEF NextSpecs, NextRecurringScan
  <2>2. QED
    BY <1>1, <1>2, <1>4, <2>1
<1>5. CASE type = "strategy_iteration"
  BY <1>2, <1>5 DEF NextSpecs
<1>6. CASE type \in {"market_observe", "alpha_mine", "judge_review", "paper_trade"}
  <2>1. \/ s = <<Next1("alpha_mine", 100, t + After["5m"])>>
        \/ s = <<Next1("judge_review", 100, t + After["5m"])>>
        \/ s = <<Next1("paper_trade", 100, t + After["5m"])>>
        \/ s = <<Next1("hourly_report", 100, t + After["5m"])>>
    BY <1>6 DEF NextSpecs
  <2>2. QED
    BY <1>1, <1>6, <2>1
<1>7. CASE type \in {"hourly_report", "sector_review", "strategy_analysis", "daily_report"}
  <2>1. \/ s = <<Next1("post_market_research", 20, t + After["1m"])>>
        \/ s = <<Next1("market_observe", 100, t + After["1h"])>>
        \/ s = <<Next1("strategy_analysis", 20, t + After["2m"])>>
        \/ s = <<Next1("daily_report", 20, t + After["2m"])>>
        \/ s = <<Next1("market_observe", 100, t + After["1d"])>>
    BY <1>7 DEF NextSpecs
  <2>2. QED
    BY <1>1, <1>7, <2>1
<1>8. QED
  BY <1>3, <1>4, <1>5, <1>6, <1>7 DEF Type

LEMMA IterationSpecType ==
  ASSUME TypeOK, NEW w \in Worker
  PROVE  /\ IterationSpec(now[w]) \in NextTaskSpec
         /\ IterationSpec(now[w]).type = "strategy_iteration"
<1>1. now[w] + After["1m"] \in Nat
  BY TimeAssumption DEF TypeOK, Span
<1>2. "strategy_iteration" \in Type
  BY DEF Type
<1>3. QED
  BY <1>1, <1>2, Next1Type DEF IterationSpec, Next1

\* The moves that leave a tick between the execution and the completion of its task.
Executes(w) ==
  /\ Execute(w) /\ pc[w] = "execute" /\ pc'[w] \in {"supersede", "checkPending", "create"}
  /\ pc'[w] = "supersede" => JobType(w) = "daily_report"
  /\ todo'[w] = NextSpecs(JobType(w), now[w], tasks[job[w]].force)
  /\ tasks' = tasks
GoesToCreate(w) ==
  /\ todo'[w] = todo[w]
  /\ \/ Supersede(w) /\ pc[w] = "supersede" /\ pc'[w] = "create"
     \/ /\ CheckPending(w) /\ pc[w] = "checkPending" /\ tasks' = tasks
        /\ \/ pc'[w] = "create"
           \/ /\ pc'[w] = "checkRunning"
              /\ \A i \in TaskId : tasks[i].status = "pending" => tasks[i].type \notin DrainType
AddsIteration(w) ==
  /\ CheckRunning(w) /\ pc[w] = "checkRunning" /\ pc'[w] = "create" /\ tasks' = tasks
  /\ \/ todo'[w] = todo[w]
     \/ /\ todo'[w] = Append(todo[w], IterationSpec(now[w]))
        /\ \A i \in TaskId : tasks[i].status = "running" => tasks[i].type \notin DrainType
Creates(w) ==
  /\ CreateNext(w) /\ pc[w] = "create" /\ pc'[w] = "create"
  /\ todo[w] # <<>> /\ todo'[w] = Tail(todo[w])
  /\ FreshTask \in TaskId /\ tasks[FreshTask].status = "absent"
  /\ tasks' = [tasks EXCEPT ![FreshTask] = Inserted(Head(todo[w]), tasks[job[w]].force, job[w])]
Finishes(w) ==
  /\ FinishRun(w) /\ pc[w] = "create" /\ pc'[w] = "complete"
  /\ todo[w] = <<>> /\ todo'[w] = todo[w] /\ tasks' = tasks

LEMMA TickMove ==
  ASSUME TypeOK, NEW w \in Worker, Step(w) \/ Fail(w) \/ Crash(w), pc'[w] \in AfterExecute
  PROVE  /\ job'[w] = job[w] /\ run'[w] = run[w]
         /\ Executes(w) \/ GoesToCreate(w) \/ AddsIteration(w) \/ Creates(w) \/ Finishes(w)
<1> USE DEF TypeOK, Goto, local
<1>1. CASE Execute(w)
  BY <1>1 DEF Execute, AskAgent, WeighIteration, Executes
<1>2. CASE Supersede(w) \/ CheckPending(w)
  BY <1>2 DEF Supersede, CheckPending, GoesToCreate, table
<1>3. CASE CheckRunning(w)
  BY <1>3 DEF CheckRunning, AddsIteration, table
<1>4. CASE CreateNext(w)
  BY <1>4, FreshTaskType DEF CreateNext, Creates
<1>5. CASE FinishRun(w)
  BY <1>5 DEF FinishRun, Finishes
<1>6. CASE \/ Begin(w) \/ Acquire(w) \/ Skip(w) \/ StartRun(w) \/ Complete(w) \/ Return(w)
           \/ FailRun(w) \/ FailTask(w) \/ Fail(w) \/ Crash(w)
  BY <1>6 DEF Begin, Acquire, Skip, StartRun, Complete, Return, FailRun, FailTask, Fail, Crash,
     Forget, AfterExecute
<1>7. QED
  BY <1>1, <1>2, <1>3, <1>4, <1>5, <1>6 DEF Step
-----------------------------------------------------------------------------
(* One tick at a time, as launchd runs it: crashes and abandoned leases, but *)
(* no two ticks that hold a task at once.                                    *)

OneAtATime == \A u, v \in Worker : Holds(u) /\ Holds(v) => u = v

\* A task is running as long as the tick that holds it has not closed it.
JobRuns ==
  \A w \in Worker : pc[w] \in (TryPoint \ {"reload"}) \cup {"startRun"} =>
    tasks[job[w]].status = "running"

\* The main line goes on from a tick: its next task is still to be inserted, or pending.
PendingMain == \E i \in TaskId : tasks[i].type \in MainType /\ tasks[i].status = "pending"
GoesOn(w) ==
  /\ pc[w] = "supersede" => tasks[job[w]].type = "daily_report"
  /\ pc[w] \in AfterExecute /\ tasks[job[w]].type \in MainType =>
       \/ MainSpecs(w) # {}
       \/ pc[w] \in {"create", "complete"} /\ PendingMain

MainGoesOn == \A w \in Worker : GoesOn(w)
AliveInv == JobRuns /\ MainGoesOn /\ ChainAlive

\* What the steps of others do to a tick that holds a task: nothing, or a new root.
RootsOnly ==
  \A i \in TaskId :
    \/ tasks'[i] = tasks[i]
    \/ /\ tasks[i].status = "absent"
       /\ tasks'[i].status = "pending" /\ tasks'[i].type \in RootType

LEMMA OthersWait ==
  ASSUME TypeOK, OneAtATime, OneAtATime', [Next]_vars, NEW w \in Worker, Holds(w)
  PROVE  \/ Step(w) \/ Fail(w) \/ Crash(w)
         \/ pc'[w] = pc[w] /\ job'[w] = job[w] /\ todo'[w] = todo[w] /\ RootsOnly
<1> DEFINE Goal == pc'[w] = pc[w] /\ job'[w] = job[w] /\ todo'[w] = todo[w] /\ RootsOnly
<1>1. ASSUME NEW v \in Worker, v # w, Step(v) \/ Fail(v) \/ Crash(v) PROVE Goal
  <2>1. pc'[w] = pc[w] /\ job'[w] = job[w] /\ todo'[w] = todo[w]
    BY <1>1, OtherTicks
  <2>2. ~Holds(v) /\ ~Holds(v)'
    BY <1>1, <2>1 DEF OneAtATime, Holds
  <2>3. ~(Acquire(v) \/ StartRun(v) \/ Fail(v) \/ Crash(v))
    BY <2>2 DEF Acquire, StartRun, Fail, Crash, Goto, Holds, HoldPoint, TypeOK
  <2>4. ~(\/ Execute(v) \/ Supersede(v) \/ CheckPending(v) \/ CheckRunning(v) \/ CreateNext(v)
          \/ FinishRun(v) \/ Complete(v) \/ Return(v) \/ FailRun(v) \/ FailTask(v))
    BY <2>2 DEF Execute, Supersede, CheckPending, CheckRunning, CreateNext, FinishRun, Complete,
       Return, FailRun, FailTask, Holds, HoldPoint, TryPoint
  <2>5. tasks' = tasks
    BY <1>1, <2>3, <2>4 DEF Step, Begin, Skip, table
  <2>6. QED
    BY <2>1, <2>5 DEF RootsOnly
<1>2. ASSUME NEW type \in RootType, NEW due \in RootDue, NEW force \in RootForce,
             Bootstrap(type, due, force)
      PROVE  Goal
  BY <1>2, FreshTaskType DEF Bootstrap, RootsOnly, Inserted, Next1, local, TypeOK
<1>3. CASE Tick \/ UNCHANGED vars
  BY <1>3 DEF Tick, vars, table, local, RootsOnly
<1>4. CASE \E v \in Worker : Step(v) \/ Fail(v) \/ Crash(v)
  BY <1>1, <1>4
<1>5. CASE \E type \in RootType, due \in RootDue, force \in RootForce : Bootstrap(type, due, force)
  BY <1>2, <1>5
<1>6. QED
  BY <1>3, <1>4, <1>5 DEF Next

LEMMA JobRunsKept ==
  ASSUME TypeOK, HoldOK, OneAtATime, OneAtATime', JobRuns, [Next]_vars
  PROVE  JobRuns'
<1> DEFINE Zone == (TryPoint \ {"reload"}) \cup {"startRun"}
<1> USE DEF TypeOK, TryPoint
<1>1. SUFFICES ASSUME NEW w \in Worker, pc'[w] \in Zone PROVE tasks'[job'[w]].status = "running"
  BY DEF JobRuns
<1>2. CASE Acquire(w)
  BY <1>2 DEF Acquire, First, Due, Leased, Task
<1>3. CASE StartRun(w) \/ Execute(w) \/ CheckPending(w) \/ CheckRunning(w) \/ FinishRun(w)
  BY <1>3 DEF StartRun, Execute, CheckPending, CheckRunning, FinishRun, table, local, JobRuns
<1>4. CASE Supersede(w) \/ CreateNext(w)
  <2>1. job[w] \in TaskId /\ tasks[job[w]].status = "running" /\ job'[w] = job[w]
    BY <1>4 DEF Supersede, CreateNext, local, JobRuns, HoldOK, Holds, HoldPoint
  <2>2. QED
    BY <1>4, <2>1, FreshTaskType DEF Supersede, CreateNext
<1>5. CASE \/ Begin(w) \/ Skip(w) \/ Complete(w) \/ Return(w) \/ FailRun(w) \/ FailTask(w)
           \/ Fail(w) \/ Crash(w)
  BY <1>1, <1>5 DEF Begin, Skip, Complete, Return, FailRun, FailTask, Fail, Crash, Forget, Goto
<1>6. CASE ~(Step(w) \/ Fail(w) \/ Crash(w))
  <2>1. pc'[w] = pc[w]
    BY <1>6, OtherTicks DEF Next, Tick, Bootstrap, vars
  <2>2. Holds(w)
    BY <1>1, <2>1 DEF Holds, HoldPoint
  <2>3. job'[w] = job[w] /\ RootsOnly
    BY <1>6, <2>2, OthersWait
  <2>4. job[w] \in TaskId /\ tasks[job[w]].status = "running"
    BY <1>1, <2>1, <2>2 DEF JobRuns, HoldOK
  <2>5. QED
    BY <2>3, <2>4 DEF RootsOnly
<1>7. QED
  BY <1>2, <1>3, <1>4, <1>5, <1>6 DEF Step

LEMMA GoesOnKept ==
  ASSUME TypeOK, HoldOK, OneAtATime, OneAtATime', JobRuns, MainGoesOn, [Next]_vars
  PROVE  MainGoesOn'
<1>1. SUFFICES ASSUME NEW w \in Worker, pc'[w] \in AfterExecute PROVE GoesOn(w)'
  BY DEF MainGoesOn, GoesOn, AfterExecute
<1>2. CASE Step(w) \/ Fail(w) \/ Crash(w)
  <2>1. /\ job'[w] = job[w] /\ pc[w] \in TryPoint \ {"reload"}
        /\ Executes(w) \/ GoesToCreate(w) \/ AddsIteration(w) \/ Creates(w) \/ Finishes(w)
    BY <1>1, <1>2, TickMove DEF TryPoint, Executes, GoesToCreate, AddsIteration, Creates, Finishes
  <2>2. job[w] \in TaskId /\ tasks[job[w]].status = "running"
    BY <2>1 DEF HoldOK, Holds, HoldPoint, JobRuns
  <2>3. tasks'[job'[w]].type = tasks[job[w]].type
    BY <2>1, <2>2, RowStep DEF RowKept
  <2>4. CASE Executes(w)
    <3>1. tasks[job[w]].type \in MainType => MainSpecs(w)' # {}
      <4>1. tasks[job[w]].type \in Type
        BY <2>2 DEF TypeOK, Task
      <4>2. ASSUME tasks[job[w]].type \in MainType
            PROVE  \E k \in DOMAIN todo'[w] : todo'[w][k].type \in MainType
        BY <2>4, <4>1, <4>2, NextMain DEF Executes, JobType
      <4>3. QED
        BY <4>2 DEF MainSpecs
    <3>2. QED
      BY <2>1, <2>3, <2>4, <3>1 DEF Executes, GoesOn, JobType
  <2>5. CASE GoesToCreate(w)
    <3>1. MainSpecs(w)' = MainSpecs(w) /\ pc[w] \in {"supersede", "checkPending"}
          /\ pc'[w] \in {"checkRunning", "create"}
      BY <2>5 DEF GoesToCreate, MainSpecs
    <3>2. QED
      BY <2>3, <3>1 DEF GoesOn, MainGoesOn, AfterExecute
  <2>6. CASE AddsIteration(w)
    <3>1. todo[w] \in Seq(NextTaskSpec)
      BY DEF TypeOK
    <3>2. MainSpecs(w) # {} => MainSpecs(w)' # {}
      BY <2>6, <3>1, IterationSpecType, AppendSpecs DEF AddsIteration, MainSpecs
    <3>3. QED
      BY <2>3, <2>6, <3>2 DEF GoesOn, MainGoesOn, AfterExecute, AddsIteration
  <2>7. CASE Creates(w)
    <3>1. todo[w] \in Seq(NextTaskSpec)
      BY DEF TypeOK
    <3>2. ASSUME PendingMain PROVE PendingMain'
      BY <2>7, <3>2 DEF PendingMain, Creates, TypeOK
    <3>3. ASSUME NEW k \in MainSpecs(w), k # 1 PROVE MainSpecs(w)' # {}
      <4>1. k \in DOMAIN todo[w] /\ todo[w][k].type \in MainType
        BY DEF MainSpecs
      <4>2. k - 1 \in DOMAIN todo'[w] /\ todo'[w][k - 1] = todo[w][k]
        BY <2>7, <3>1, <3>3, <4>1, TailSpecs DEF Creates
      <4>3. QED
        BY <4>1, <4>2 DEF MainSpecs
    <3>4. ASSUME 1 \in MainSpecs(w) PROVE PendingMain'
      <4>1. tasks'[FreshTask] = Inserted(Head(todo[w]), tasks[job[w]].force, job[w])
        BY <2>7 DEF Creates, TypeOK
      <4>2. Head(todo[w]).type \in MainType
        BY <2>7, <3>1, <3>4, TailSpecs DEF Creates, MainSpecs
      <4>3. FreshTask \in TaskId /\ tasks'[FreshTask].type \in MainType /\ tasks'[FreshTask].status = "pending"
        BY <2>7, <4>1, <4>2 DEF Inserted, Creates
      <4>4. \E i \in TaskId : tasks'[i].type \in MainType /\ tasks'[i].status = "pending"
        BY <4>3
      <4>5. QED
        BY <4>4 DEF PendingMain
    <3>5. QED
      BY <2>3, <2>7, <3>2, <3>3, <3>4 DEF GoesOn, MainGoesOn, Creates, AfterExecute
  <2>8. CASE Finishes(w)
    BY <2>3, <2>8 DEF Finishes, GoesOn, MainGoesOn, AfterExecute, MainSpecs, PendingMain
  <2>9. QED
    BY <2>1, <2>4, <2>5, <2>6, <2>7, <2>8
<1>3. CASE ~(Step(w) \/ Fail(w) \/ Crash(w))
  <2>1. pc'[w] = pc[w]
    BY <1>3, OtherTicks DEF Next, Tick, Bootstrap, vars
  <2>2. Holds(w)
    BY <1>1, <2>1 DEF Holds, HoldPoint, TryPoint, AfterExecute
  <2>3. job'[w] = job[w] /\ todo'[w] = todo[w] /\ RootsOnly
    BY <1>3, <2>2, OthersWait
  <2>4. tasks'[job'[w]] = tasks[job[w]]
    BY <2>2, <2>3 DEF HoldOK, RootsOnly
  <2>5. PendingMain => PendingMain'
    BY <2>3 DEF PendingMain, RootsOnly
  <2>6. QED
    BY <2>1, <2>3, <2>4, <2>5 DEF GoesOn, MainGoesOn, MainSpecs
<1>4. QED
  BY <1>2, <1>3

LEMMA AliveKept ==
  ASSUME TypeOK, HoldOK, TickOK, AliveInv, [Next]_vars
  PROVE  ChainAlive'
<1> USE DEF AliveInv
<1>1. SUFFICES ASSUME \E i \in TaskId : tasks'[i].status # "absent" /\ tasks'[i].type \in MainType,
                      \A i \in TaskId : tasks'[i].status # "failed"
               PROVE  \E i \in TaskId : tasks'[i].type \in MainType /\ tasks'[i].status \in Live
  BY DEF ChainAlive
<1>2. ASSUME NEW i \in TaskId, tasks[i].status = "failed" PROVE FALSE
  <2>1. ASSUME NEW w \in Worker, Complete(w) PROVE tasks[job[w]].status = "running"
    BY <2>1 DEF Complete, JobRuns, TryPoint
  <2>2. tasks'[i] = tasks[i] \/ tasks'[i] = Closed(tasks[i], "failed")
    BY <1>2, <2>1, RowChange DEF Live
  <2>3. tasks'[i].status = "failed"
    BY <1>2, <2>2 DEF Closed, TypeOK, Task
  <2>4. QED
    BY <1>1, <2>3
<1>3. ASSUME NEW i \in TaskId, tasks[i].status # "absent", tasks[i].type \in MainType
      PROVE  \E k \in TaskId : tasks'[k].type \in MainType /\ tasks'[k].status \in Live
  <2>1. PICK k \in TaskId : tasks[k].type \in MainType /\ tasks[k].status \in Live
    BY <1>2, <1>3 DEF ChainAlive
  <2>2. tasks[k].status # "absent"
    BY <2>1 DEF Live
  <2>3. tasks'[k].type \in MainType
    BY <2>1, <2>2, RowStep DEF RowKept
  <2>4. CASE tasks'[k] = tasks[k]
    BY <2>1, <2>4
  <2>5. ASSUME NEW w, NEW until, tasks'[k] = Leased(tasks[k], w, until)
        PROVE  tasks'[k].status = "running"
    BY <2>5 DEF Leased, TypeOK, Task
  <2>6. ASSUME NEW w \in Worker, Supersede(w)
        PROVE  \E i1 \in TaskId : tasks'[i1].type \in MainType /\ tasks'[i1].status \in Live
    <3>1. pc[w] = "supersede" /\ job[w] \in TaskId /\ tasks[job[w]].status = "running"
          /\ tasks[job[w]].type = "daily_report"
      BY <2>6 DEF Supersede, HoldOK, Holds, HoldPoint, TryPoint, JobRuns, MainGoesOn, GoesOn
    <3>2. tasks'[job[w]] = tasks[job[w]]
      BY <2>6, <3>1 DEF Supersede
    <3>3. QED
      BY <3>1, <3>2 DEF MainType, Live
  <2>7. ASSUME NEW w \in Worker, Complete(w), k = job[w]
        PROVE  \E i1 \in TaskId : tasks'[i1].type \in MainType /\ tasks'[i1].status \in Live
    <3>1. pc[w] = "complete" /\ tasks[k].status = "running" /\ todo[w] = <<>>
      BY <2>7 DEF Complete, JobRuns, TryPoint, TickOK, Ended
    <3>2. MainSpecs(w) = {}
      BY <3>1 DEF MainSpecs
    <3>3. PICK p \in TaskId : tasks[p].type \in MainType /\ tasks[p].status = "pending"
      BY <2>1, <2>7, <3>1, <3>2 DEF MainGoesOn, GoesOn, AfterExecute, PendingMain
    <3>4. tasks'[p] = tasks[p]
      BY <2>7, <3>1, <3>3 DEF Complete, CloseTask, TypeOK
    <3>5. QED
      BY <3>3, <3>4 DEF Live
  <2>8. tasks'[k] # Closed(tasks[k], "failed")
    BY <1>1 DEF Closed, TypeOK, Task
  <2>9. QED
    BY <2>1, <2>2, <2>3, <2>4, <2>5, <2>6, <2>7, <2>8, RowChange DEF Live
<1>4. ASSUME NEW i \in TaskId, tasks[i].status = "absent", tasks'[i].status # "absent"
      PROVE  tasks'[i].status \in Live
  <2>1. \E spec, force, parent : tasks'[i] = Inserted(spec, force, parent)
    BY <1>4, NewRow
  <2>2. QED
    BY <2>1 DEF Inserted, Live
<1>5. QED
  BY <1>1, <1>3, <1>4, RowStep DEF RowKept

\* Unless a task failed, a chain bootstrapped on its main line always has a main-line
\* task that is pending or running, wherever its ticks crash: no chain dies out as long
\* as no two ticks hold a task at once. (tick, _execute_daily_report)
THEOREM ChainGoesOn == Spec /\ []OneAtATime => []ChainAlive
<1>1. Init => AliveInv
  BY DEF Init, AliveInv, JobRuns, MainGoesOn, GoesOn, ChainAlive, NoTask, TryPoint, AfterExecute
<1>2. ChainInv /\ AliveInv /\ OneAtATime /\ OneAtATime' /\ [Next]_vars => AliveInv'
  BY JobRunsKept, GoesOnKept, AliveKept DEF AliveInv, ChainInv, KeptInv, LeaseInv
<1>3. AliveInv => ChainAlive
  BY DEF AliveInv
<1>4. QED
  BY <1>1, <1>2, <1>3, ChainInit, ChainStep, PTL DEF Spec

LiveIteration(i) == tasks[i].type = "strategy_iteration" /\ tasks[i].status \in Live
NoIteration == \A i \in TaskId : ~LiveIteration(i)
IterationSpecs(w) == {k \in DOMAIN todo[w] : todo[w][k].type = "strategy_iteration"}

\* What a tick on its way to an iteration has seen: no pending one after the first of its
\* two queries, none at all after the second, and it asks for one only.
Checked(w) ==
  /\ pc[w] \in {"supersede", "checkPending", "checkRunning"} => IterationSpecs(w) = {}
  /\ pc[w] = "checkRunning" => \A i \in TaskId : LiveIteration(i) => tasks[i].status # "pending"
  /\ pc[w] = "create" =>
       /\ IterationSpecs(w) # {} => NoIteration
       /\ \A k, l \in IterationSpecs(w) : k = l

IterationInv ==
  /\ \A w \in Worker : Checked(w)
  /\ \A i, j \in TaskId : LiveIteration(i) /\ LiveIteration(j) => i = j

\* A row that exists is a live iteration after a step only if it was one before.
LEMMA LiveIterationStep ==
  ASSUME TypeOK, HoldOK, [Next]_vars, NEW i \in TaskId, tasks[i].status # "absent",
         LiveIteration(i)'
  PROVE  LiveIteration(i) /\ (tasks'[i].status = "pending" => tasks[i].status = "pending")
<1>1. RowKept(i)
  BY RowStep
<1>2. tasks[i].status \in Status
  BY DEF TypeOK, Task
<1>3. QED
  BY <1>1, <1>2 DEF RowKept, LiveIteration, Live, Terminal, Status

LEMMA CheckedKept ==
  ASSUME TypeOK, HoldOK, OneAtATime, OneAtATime', IterationInv, [Next]_vars,
         "strategy_iteration" \notin RootType
  PROVE  \A w \in Worker : Checked(w)'
<1>1. SUFFICES ASSUME NEW w \in Worker, pc'[w] \in AfterExecute PROVE Checked(w)'
  BY DEF Checked, AfterExecute
<1>a. Checked(w) /\ todo[w] \in Seq(NextTaskSpec)
  BY DEF IterationInv, TypeOK
<1>2. CASE Step(w) \/ Fail(w) \/ Crash(w)
  <2>1. /\ job'[w] = job[w] /\ pc[w] \in TryPoint
        /\ Executes(w) \/ GoesToCreate(w) \/ AddsIteration(w) \/ Creates(w) \/ Finishes(w)
    BY <1>1, <1>2, TickMove DEF TryPoint, Executes, GoesToCreate, AddsIteration, Creates, Finishes
  <2>2. job[w] \in TaskId
    BY <2>1 DEF HoldOK, Holds, HoldPoint
  <2>3. CASE Executes(w)
    <3>1. tasks[job[w]].type \in Type
      BY <2>2 DEF TypeOK, Task
    <3>2. "strategy_iteration" \notin SpecTypes(todo'[w])
      BY <2>3, <3>1, NoFixedIteration DEF Executes, JobType
    <3>3. IterationSpecs(w)' = {}
      BY <3>2 DEF SpecTypes, IterationSpecs
    <3>4. QED
      BY <2>3, <3>3 DEF Executes, Checked
  <2>4. CASE GoesToCreate(w)
    <3>1. IterationSpecs(w)' = IterationSpecs(w) /\ IterationSpecs(w) = {}
      BY <1>a, <2>4 DEF GoesToCreate, IterationSpecs, Checked
    <3>2. QED
      BY <2>4, <3>1 DEF GoesToCreate, Checked, LiveIteration, DrainType
  <2>5. CASE AddsIteration(w)
    <3>1. /\ IterationSpecs(w) = {}
          /\ \A i \in TaskId : LiveIteration(i) => tasks[i].status # "pending"
      BY <1>a, <2>5 DEF AddsIteration, Checked
    <3>2. CASE todo'[w] = todo[w]
      BY <2>5, <3>1, <3>2 DEF AddsIteration, Checked, IterationSpecs
    <3>3. CASE /\ todo'[w] = Append(todo[w], IterationSpec(now[w]))
               /\ \A i \in TaskId : tasks[i].status = "running" => tasks[i].type \notin DrainType
      <4>1. NoIteration'
        BY <2>5, <3>1, <3>3 DEF NoIteration, LiveIteration, Live, DrainType, AddsIteration
      <4>2. \A k \in IterationSpecs(w)' : k = Len(todo[w]) + 1
        BY <1>a, <3>1, <3>3, AppendSpecs, IterationSpecType DEF IterationSpecs
      <4>3. QED
        BY <2>5, <4>1, <4>2 DEF AddsIteration, Checked
    <3>4. QED
      BY <2>5, <3>2, <3>3 DEF AddsIteration
  <2>6. CASE Creates(w)
    <3>1. ASSUME NEW k \in IterationSpecs(w)' PROVE k \in Nat /\ k + 1 \in IterationSpecs(w) /\ k + 1 # 1
      BY <1>a, <2>6, <3>1, TailSpecs DEF Creates, IterationSpecs
    <3>2. \A k, l \in IterationSpecs(w)' : k = l
      BY <1>a, <2>6, <3>1 DEF Creates, Checked
    <3>3. ASSUME NEW k \in IterationSpecs(w)' PROVE NoIteration'
      <4>1. NoIteration /\ 1 \notin IterationSpecs(w)
        BY <1>a, <2>6, <3>1, <3>3 DEF Creates, Checked
      <4>2. Head(todo[w]).type # "strategy_iteration"
        BY <1>a, <2>6, <4>1, TailSpecs DEF Creates, IterationSpecs
      <4>3. tasks'[FreshTask] = Inserted(Head(todo[w]), tasks[job[w]].force, job[w])
            /\ \A i \in TaskId : i # FreshTask => tasks'[i] = tasks[i]
        BY <2>6 DEF Creates, TypeOK
      <4>4. QED
        BY <4>1, <4>2, <4>3 DEF NoIteration, LiveIteration, Inserted
    <3>4. QED
      BY <2>6, <3>2, <3>3 DEF Creates, Checked
  <2>7. CASE Finishes(w)
    BY <2>7 DEF Finishes, Checked
  <2>8. QED
    BY <2>1, <2>3, <2>4, <2>5, <2>6, <2>7
<1>3. CASE ~(Step(w) \/ Fail(w) \/ Crash(w))
  <2>1. pc'[w] = pc[w]
    BY <1>3, OtherTicks DEF Next, Tick, Bootstrap, vars
  <2>2. Holds(w)
    BY <1>1, <2>1 DEF Holds, HoldPoint, TryPoint, AfterExecute
  <2>3. todo'[w] = todo[w] /\ RootsOnly
    BY <1>3, <2>2, OthersWait
  <2>4. \A i \in TaskId : LiveIteration(i)' => LiveIteration(i) /\ tasks'[i] = tasks[i]
    BY <2>3 DEF RootsOnly, LiveIteration
  <2>5. QED
    BY <1>a, <2>1, <2>3, <2>4 DEF Checked, IterationSpecs, NoIteration
<1>4. QED
  BY <1>2, <1>3

LEMMA OneIterationKept ==
  ASSUME TypeOK, HoldOK, IterationInv, [Next]_vars, "strategy_iteration" \notin RootType,
         NEW i \in TaskId, NEW j \in TaskId, LiveIteration(i)', LiveIteration(j)'
  PROVE  i = j
\* A new iteration is the row a tick inserts, and then there was no live one.
<1>1. ASSUME NEW k \in TaskId, LiveIteration(k)', tasks[k].status = "absent"
      PROVE  NoIteration /\ \A l \in TaskId : l # k => tasks'[l] = tasks[l]
  <2>1. tasks'[k] # tasks[k]
    BY <1>1 DEF LiveIteration, Live
  <2>2. ASSUME NEW type \in RootType, NEW due \in RootDue, NEW force \in RootForce,
               tasks'[k] = Inserted(Next1(type, 100, due), force, None)
        PROVE  FALSE
    BY <1>1, <2>2 DEF LiveIteration, Inserted, Next1
  <2>3. PICK w \in Worker :
          CreateNext(w) /\ tasks'[k] = Inserted(Head(todo[w]), tasks[job[w]].force, job[w])
    BY <1>1, <2>1, <2>2, NewRow
  <2>4. /\ pc[w] = "create" /\ todo[w] # <<>> /\ todo[w] \in Seq(NextTaskSpec)
        /\ \A l \in TaskId : l # FreshTask => tasks'[l] = tasks[l]
    BY <2>3, FreshTaskType DEF CreateNext, TypeOK
  <2>5. 1 \in IterationSpecs(w)
    BY <1>1, <2>3, <2>4, TailSpecs DEF LiveIteration, Inserted, IterationSpecs
  <2>6. NoIteration
    BY <2>4, <2>5 DEF IterationInv, Checked
  <2>7. QED
    BY <2>1, <2>4, <2>6
<1>2. CASE tasks[i].status # "absent" /\ tasks[j].status # "absent"
  BY <1>2, LiveIterationStep DEF IterationInv
<1>3. ASSUME NEW k \in TaskId, NEW l \in TaskId, LiveIteration(k)', LiveIteration(l)',
             tasks[k].status = "absent"
      PROVE  l = k
  BY <1>1, <1>3 DEF NoIteration, LiveIteration
<1>4. QED
  BY <1>2, <1>3

\* However often KOL scans are run again after crashes, and wherever the two queries and
\* the insertion of a tick are cut off, there is at most one live strategy_iteration as
\* long as no two ticks hold a task at once and the operator bootstraps none.
\* (_execute_kol_scan, _has_pending_or_running_task)
THEOREM OneIterationHolds ==
  ASSUME "strategy_iteration" \notin RootType
  PROVE  Spec /\ []OneAtATime => []OneIteration
<1>1. Init => IterationInv
  BY DEF Init, IterationInv, Checked, LiveIteration, Live, NoTask
<1>2. ChainInv /\ IterationInv /\ OneAtATime /\ OneAtATime' /\ [Next]_vars => IterationInv'
  <2> SUFFICES ASSUME ChainInv, IterationInv, OneAtATime, OneAtATime', [Next]_vars
               PROVE  IterationInv'
    OBVIOUS
  <2>1. TypeOK /\ HoldOK
    BY DEF ChainInv, KeptInv, LeaseInv
  <2>2. QED
    BY <2>1, CheckedKept, OneIterationKept DEF IterationInv
<1>3. IterationInv => OneIteration
  <2> SUFFICES ASSUME IterationInv PROVE OneIteration
    OBVIOUS
  <2> DEFINE S == {i \in TaskId : tasks[i].type = "strategy_iteration" /\ tasks[i].status \in Live}
  <2>1. \A i, j \in S : i = j
    BY DEF IterationInv, LiveIteration
  <2>2. S = {} \/ \E i : S = {i}
    BY <2>1
  <2>3. Cardinality(S) = 0 \/ Cardinality(S) = 1
    BY <2>2, FS_EmptySet, FS_Singleton
  <2> HIDE DEF S
  <2>4. Cardinality(S) <= 1
    BY <2>3
  <2>5. QED
    BY <2>4 DEF OneIteration, S
<1>4. QED
  BY <1>1, <1>2, <1>3, ChainInit, ChainStep, PTL DEF Spec
-----------------------------------------------------------------------------
(* Forks of the main line, with any number of ticks at once. *)

MainTask(i) == tasks[i].status # "absent" /\ tasks[i].type \in MainType
Heirs(i) == {j \in TaskId : MainTask(j) /\ tasks[j].parent = i}
RanOnce(i) == \A r, s \in RunsOf(i) : r = s

\* A tick has one main-line task at most to insert, and only after a main-line task.
MainSpecsOK ==
  \A w \in Worker : pc[w] \in AfterExecute =>
    /\ \A k, l \in MainSpecs(w) : k = l
    /\ MainSpecs(w) # {} => tasks[job[w]].type \in MainType

\* The parent of a main-line task is a main-line task that has been started.
MainParents ==
  \A j \in TaskId : MainTask(j) /\ tasks[j].parent # None =>
    tasks[j].parent \in TaskId /\ MainTask(tasks[j].parent) /\ tasks[tasks[j].parent].status # "pending"

\* A tick that has executed, or is about to, and whose heir is still to be inserted.
ToInherit(w) == pc[w] = "execute" \/ (pc[w] \in AfterExecute /\ MainSpecs(w) # {})

\* A task that ran once has one heir at most, and none before its run inserts it.
HeirsOnce(i) ==
  /\ \A j, k \in Heirs(i) : j = k
  /\ RunsOf(i) = {} => Heirs(i) = {}
  /\ \A w \in Worker : job[w] = i /\ ToInherit(w) => Heirs(i) = {}

ForkInv ==
  /\ MainSpecsOK
  /\ MainParents
  /\ \A i \in TaskId : RanOnce(i) => HeirsOnce(i)

LEMMA AddsNoMain ==
  ASSUME TypeOK, NEW w \in Worker, AddsIteration(w), NEW k \in MainSpecs(w)'
  PROVE  k \in MainSpecs(w)
<1>1. CASE todo'[w] = todo[w]
  BY <1>1 DEF MainSpecs
<1>2. CASE todo'[w] = Append(todo[w], IterationSpec(now[w]))
  <2>1. todo[w] \in Seq(NextTaskSpec) /\ "strategy_iteration" \notin MainType
    BY DEF TypeOK, MainType
  <2>2. k \in DOMAIN todo'[w] /\ todo'[w][k].type \in MainType
    BY DEF MainSpecs
  <2>3. k \in DOMAIN todo[w] /\ todo'[w][k] = todo[w][k]
    BY <1>2, <2>1, <2>2, AppendSpecs, IterationSpecType
  <2>4. QED
    BY <2>2, <2>3 DEF MainSpecs
<1>3. QED
  BY <1>1, <1>2 DEF AddsIteration

LEMMA MainSpecsKept ==
  ASSUME TypeOK, HoldOK, MainSpecsOK, [Next]_vars
  PROVE  MainSpecsOK'
<1>1. SUFFICES ASSUME NEW w \in Worker, pc'[w] \in AfterExecute
               PROVE  /\ \A k, l \in MainSpecs(w)' : k = l
                      /\ MainSpecs(w)' # {} => tasks'[job'[w]].type \in MainType
  BY DEF MainSpecsOK
<1>a. todo[w] \in Seq(NextTaskSpec)
  BY DEF TypeOK
<1>b. ASSUME pc[w] \in TryPoint PROVE job[w] \in TaskId /\ tasks'[job[w]].type = tasks[job[w]].type
  <2>1. job[w] \in TaskId /\ tasks[job[w]].status # "absent"
    BY <1>b DEF HoldOK, Holds, HoldPoint
  <2>2. QED
    BY <2>1, RowStep DEF RowKept
<1>2. CASE Step(w) \/ Fail(w) \/ Crash(w)
  <2>1. /\ job'[w] = job[w] /\ pc[w] \in TryPoint
        /\ Executes(w) \/ GoesToCreate(w) \/ AddsIteration(w) \/ Creates(w) \/ Finishes(w)
    BY <1>1, <1>2, TickMove DEF TryPoint, Executes, GoesToCreate, AddsIteration, Creates, Finishes
  <2>2. job[w] \in TaskId /\ tasks'[job'[w]].type = tasks[job[w]].type
    BY <1>b, <2>1
  <2>3. CASE Executes(w)
    <3>1. tasks[job[w]].type \in Type
      BY <2>2 DEF TypeOK, Task
    <3>2. /\ \A k, l \in DOMAIN todo'[w] :
               todo'[w][k].type \in MainType /\ todo'[w][l].type \in MainType => k = l
          /\ (\E k \in DOMAIN todo'[w] : todo'[w][k].type \in MainType)
               <=> tasks[job[w]].type \in MainType
      BY <2>3, <3>1, NextMain DEF Executes, JobType
    <3>3. QED
      BY <2>2, <3>2 DEF MainSpecs
  <2>4. CASE GoesToCreate(w) \/ Finishes(w)
    <3>1. MainSpecs(w)' = MainSpecs(w) /\ pc[w] \in AfterExecute
      BY <2>4 DEF GoesToCreate, Finishes, MainSpecs, AfterExecute
    <3>2. QED
      BY <2>2, <3>1 DEF MainSpecsOK
  <2>5. CASE AddsIteration(w)
    <3>1. \A k \in MainSpecs(w)' : k \in MainSpecs(w)
      BY <2>5, AddsNoMain
    <3>2. pc[w] \in AfterExecute
      BY <2>5 DEF AddsIteration, AfterExecute
    <3>3. QED
      BY <2>2, <3>1, <3>2 DEF MainSpecsOK
  <2>6. CASE Creates(w)
    <3>1. \A k \in MainSpecs(w)' : k \in Nat /\ k + 1 \in MainSpecs(w)
      BY <1>a, <2>6, TailSpecs DEF Creates, MainSpecs
    <3>2. pc[w] \in AfterExecute
      BY <2>6 DEF Creates, AfterExecute
    <3>3. ASSUME NEW k \in MainSpecs(w)', NEW l \in MainSpecs(w)' PROVE k = l
      <4>1. k + 1 = l + 1 /\ k \in Nat /\ l \in Nat
        BY <3>1, <3>2 DEF MainSpecsOK
      <4>2. QED
        BY <4>1
    <3>4. QED
      BY <2>2, <3>1, <3>2, <3>3 DEF MainSpecsOK
  <2>7. QED
    BY <2>1, <2>3, <2>4, <2>5, <2>6
<1>3. CASE ~(Step(w) \/ Fail(w) \/ Crash(w))
  <2>1. pc'[w] = pc[w] /\ job'[w] = job[w] /\ todo'[w] = todo[w]
    BY <1>3, OtherTicks DEF Next, Tick, Bootstrap, vars, local
  <2>2. tasks'[job[w]].type = tasks[job[w]].type
    BY <1>1, <1>b, <2>1 DEF AfterExecute, TryPoint
  <2>3. QED
    BY <1>1, <2>1, <2>2 DEF MainSpecsOK, MainSpecs
<1>4. QED
  BY <1>2, <1>3

\* A main-line row that a step adds is a root, or the next spec of a tick that creates.
LEMMA NewMain ==
  ASSUME TypeOK, HoldOK, [Next]_vars, NEW j \in TaskId, MainTask(j)', ~MainTask(j)
  PROVE  \/ tasks'[j].parent = None
         \/ \E w \in Worker :
              /\ Creates(w) /\ Step(w) /\ pc'[w] \in AfterExecute
              /\ j = FreshTask /\ tasks'[j].parent = job[w]
              /\ 1 \in MainSpecs(w)
<1>1. tasks[j].status = "absent" /\ tasks'[j] # tasks[j]
  BY RowStep DEF RowKept, MainTask
<1>2. ASSUME NEW type \in RootType, NEW due \in RootDue, NEW force \in RootForce,
             tasks'[j] = Inserted(Next1(type, 100, due), force, None)
      PROVE  tasks'[j].parent = None
  BY <1>2 DEF Inserted
<1>3. ASSUME NEW w \in Worker, CreateNext(w),
             tasks'[j] = Inserted(Head(todo[w]), tasks[job[w]].force, job[w])
      PROVE  /\ Creates(w) /\ Step(w) /\ pc'[w] \in AfterExecute
             /\ j = FreshTask /\ tasks'[j].parent = job[w]
             /\ 1 \in MainSpecs(w)
  <2>1. Creates(w) /\ Step(w) /\ pc'[w] \in AfterExecute
    <3>1. Creates(w)
      BY <1>3, FreshTaskType DEF CreateNext, Creates, TypeOK
    <3>2. QED
      BY <1>3, <3>1 DEF Step, Creates, AfterExecute
  <2>2. j = FreshTask
    BY <1>1, <2>1 DEF Creates, TypeOK
  <2>3. tasks'[j].parent = job[w] /\ Head(todo[w]).type \in MainType
    BY <1>3 DEF Inserted, MainTask
  <2>4. todo[w] \in Seq(NextTaskSpec) /\ todo[w] # <<>>
    BY <2>1 DEF Creates, TypeOK
  <2>5. 1 \in MainSpecs(w)
    BY <2>3, <2>4, TailSpecs DEF MainSpecs
  <2>6. QED
    BY <2>1, <2>2, <2>3, <2>5
<1>4. QED
  <2>1. CASE \E w \in Worker :
               CreateNext(w) /\ tasks'[j] = Inserted(Head(todo[w]), tasks[job[w]].force, job[w])
    BY <1>3, <2>1
  <2>2. CASE \E type \in RootType, due \in RootDue, force \in RootForce :
               tasks'[j] = Inserted(Next1(type, 100, due), force, None)
    BY <1>2, <2>2
  <2>3. QED
    BY <1>1, <2>1, <2>2, NewRow

LEMMA MainParentsKept ==
  ASSUME TypeOK, HoldOK, MainSpecsOK, MainParents, [Next]_vars
  PROVE  MainParents'
<1>1. ASSUME NEW i \in TaskId, MainTask(i), tasks[i].status # "pending"
      PROVE  MainTask(i)' /\ tasks'[i].status # "pending"
  BY <1>1, RowStep DEF RowKept, MainTask
<1>2. SUFFICES ASSUME NEW j \in TaskId, MainTask(j)', tasks'[j].parent # None
               PROVE  \E i \in TaskId : i = tasks'[j].parent /\ MainTask(i) /\ tasks[i].status # "pending"
  BY <1>1 DEF MainParents, MainTask
<1>3. CASE MainTask(j)
  BY <1>2, <1>3, RowStep DEF RowKept, MainTask, MainParents
<1>4. CASE ~MainTask(j)
  <2>1. PICK w \in Worker : Creates(w) /\ tasks'[j].parent = job[w] /\ 1 \in MainSpecs(w)
    BY <1>2, <1>4, NewMain
  <2>2. job[w] \in TaskId /\ tasks[job[w]].status \in {"running", "completed", "failed"}
    BY <2>1 DEF Creates, HoldOK, Holds, HoldPoint, TryPoint
  <2>3. tasks[job[w]].type \in MainType
    BY <2>1 DEF Creates, MainSpecsOK, AfterExecute
  <2>4. QED
    BY <2>1, <2>2, <2>3 DEF MainTask
<1>5. QED
  BY <1>3, <1>4

\* A tick comes to the execution only by starting a run, and keeps its task from there.
LEMMA InheritStep ==
  ASSUME TypeOK, MainSpecsOK, [Next]_vars, NEW w \in Worker, ToInherit(w)'
  PROVE  job'[w] = job[w] /\ (StartRun(w) \/ ToInherit(w))
<1>a. todo[w] \in Seq(NextTaskSpec)
  BY DEF TypeOK
<1>1. CASE ~(Step(w) \/ Fail(w) \/ Crash(w))
  <2>1. pc'[w] = pc[w] /\ job'[w] = job[w] /\ todo'[w] = todo[w]
    BY <1>1, OtherTicks DEF Next, Tick, Bootstrap, vars, local
  <2>2. QED
    BY <2>1 DEF ToInherit, MainSpecs
<1>2. CASE (Step(w) \/ Fail(w) \/ Crash(w)) /\ pc'[w] = "execute"
  <2>1. StartRun(w) \/ CreateNext(w)
    BY <1>2 DEF Step, Begin, Acquire, Skip, Execute, AskAgent, WeighIteration, Supersede,
       CheckPending, CheckRunning, FinishRun, Complete, Return, FailRun, FailTask, Fail, Crash,
       Forget, Goto, TypeOK
  <2>2. QED
    BY <1>2, <2>1 DEF StartRun, CreateNext
<1>3. CASE (Step(w) \/ Fail(w) \/ Crash(w)) /\ pc'[w] \in AfterExecute /\ MainSpecs(w)' # {}
  <2>1. /\ job'[w] = job[w]
        /\ Executes(w) \/ GoesToCreate(w) \/ AddsIteration(w) \/ Creates(w) \/ Finishes(w)
    BY <1>3, TickMove
  <2>2. CASE Executes(w)
    BY <2>1, <2>2 DEF Executes, ToInherit
  <2>3. CASE GoesToCreate(w) \/ Finishes(w)
    BY <1>3, <2>1, <2>3 DEF GoesToCreate, Finishes, ToInherit, MainSpecs, AfterExecute
  <2>4. CASE AddsIteration(w)
    <3>1. \A k \in MainSpecs(w)' : k \in MainSpecs(w)
      BY <2>4, AddsNoMain
    <3>2. QED
      BY <1>3, <2>1, <2>4, <3>1 DEF ToInherit, AddsIteration, AfterExecute
  <2>5. CASE Creates(w)
    <3>1. \A k \in MainSpecs(w)' : k + 1 \in MainSpecs(w)
      BY <1>a, <2>5, TailSpecs DEF Creates, MainSpecs
    <3>2. QED
      BY <1>3, <2>1, <2>5, <3>1 DEF ToInherit, Creates, AfterExecute
  <2>6. QED
    BY <2>1, <2>2, <2>3, <2>4, <2>5
<1>4. QED
  BY <1>1, <1>2, <1>3 DEF ToInherit

LEMMA HeirsOnceKept ==
  ASSUME TypeOK, HoldOK, TickOK, OwnRuns, ForkInv, [Next]_vars,
         NEW i \in TaskId, RanOnce(i)'
  PROVE  HeirsOnce(i)'
<1>a. i # None
  BY NoneAssumption
<1>1. RunsOf(i) \subseteq RunsOf(i)'
  BY RunStep DEF RunsOf
<1>2. RanOnce(i) /\ HeirsOnce(i)
  BY <1>1 DEF RanOnce, ForkInv
<1>3. ASSUME NEW j \in Heirs(i)', j \notin Heirs(i)
      PROVE  \E w \in Worker : Creates(w) /\ job[w] = i /\ j = FreshTask /\ 1 \in MainSpecs(w)
  <2>1. j \in TaskId /\ MainTask(j)' /\ tasks'[j].parent = i
    BY <1>3 DEF Heirs
  <2>2. ~MainTask(j)
    BY <1>3, <2>1, RowStep DEF RowKept, MainTask, Heirs
  <2>3. QED
    BY <1>a, <2>1, <2>2, NewMain
<1>4. ASSUME NEW w \in Worker, Creates(w), job[w] = i, 1 \in MainSpecs(w)
      PROVE  HeirsOnce(i)'
  <2>1. ToInherit(w) /\ InTry(w) /\ pc[w] = "create" /\ pc'[w] = "create"
    BY <1>4 DEF Creates, ToInherit, AfterExecute, InTry, TryPoint
  <2>2. Heirs(i) = {}
    BY <1>2, <1>4, <2>1 DEF HeirsOnce
  <2>3. \A j \in Heirs(i)' : j = FreshTask
    BY <1>4, <2>2 DEF Creates, Heirs, MainTask, TypeOK
  <2>4. run[w] \in RunsOf(i)
    BY <1>4, <2>1 DEF TickOK, RunOwned, InTry, TryPoint, HoldOK, Holds, HoldPoint, RunsOf
  <2>5. ASSUME NEW v \in Worker, job'[v] = i, ToInherit(v)' PROVE FALSE
    <3>1. job[v] = i /\ (StartRun(v) \/ ToInherit(v))
      BY <2>5, InheritStep DEF ForkInv
    <3>2. CASE StartRun(v)
      BY <1>4, <3>2 DEF StartRun, Creates, CreateNext, Goto, TypeOK
    <3>3. CASE ToInherit(v) /\ v # w
      <4>1. pc[v] \in TryPoint \ {"reload"}
        BY <3>3 DEF ToInherit, AfterExecute, TryPoint
      <4>2. run[v] \in RunsOf(i)
        <5>1. run[v] \in RunId
          BY <4>1 DEF HoldOK, Holds, HoldPoint, TryPoint
        <5>2. runs[run[v]].task = i /\ runs[run[v]].status # "absent"
          BY <3>1, <4>1 DEF TickOK, RunOwned
        <5>3. QED
          BY <5>1, <5>2 DEF RunsOf
      <4>3. run[v] # run[w]
        BY <2>1, <3>3, <4>1 DEF OwnRuns, InTry
      <4>4. QED
        BY <1>2, <2>4, <4>2, <4>3 DEF RanOnce
    <3>4. CASE v = w
      <4>1. PICK k : k \in MainSpecs(w)'
        BY <2>1, <2>5, <3>4 DEF ToInherit
      <4>2. todo[w] \in Seq(NextTaskSpec) /\ todo[w] # <<>> /\ todo'[w] = Tail(todo[w])
        BY <1>4 DEF Creates, TypeOK
      <4>3. k + 1 \in MainSpecs(w) /\ k + 1 # 1
        BY <4>1, <4>2, TailSpecs DEF MainSpecs
      <4>4. QED
        BY <1>4, <2>1, <4>3 DEF ForkInv, MainSpecsOK, AfterExecute
    <3>5. QED
      BY <3>1, <3>2, <3>3, <3>4
  <2>6. RunsOf(i)' # {}
    BY <1>1, <2>4
  <2>7. QED
    BY <2>3, <2>5, <2>6 DEF HeirsOnce
<1>5. ASSUME \A j \in Heirs(i)' : j \in Heirs(i) PROVE HeirsOnce(i)'
  <2>1. ASSUME NEW v \in Worker, job'[v] = i, ToInherit(v)' PROVE Heirs(i) = {}
    <3>1. job[v] = i /\ (StartRun(v) \/ ToInherit(v))
      BY <2>1, InheritStep DEF ForkInv
    <3>2. CASE StartRun(v)
      <4>1. FreshRun \in RunId /\ runs[FreshRun].status = "absent"
        BY <3>2 DEF StartRun, AbsentRun, FreshRun
      <4>2. runs'[FreshRun] = [task |-> i, owner |-> v, status |-> "running"]
        BY <3>1, <3>2, <4>1 DEF StartRun, TypeOK
      <4>3. FreshRun \in RunsOf(i)' /\ FreshRun \notin RunsOf(i)
        BY <4>1, <4>2 DEF RunsOf
      <4>4. RunsOf(i) = {}
        BY <1>1, <4>3 DEF RanOnce
      <4>5. QED
        BY <1>2, <4>4 DEF HeirsOnce
    <3>3. QED
      BY <1>2, <3>1, <3>2 DEF HeirsOnce
  <2>2. RunsOf(i)' = {} => Heirs(i) = {}
    BY <1>1, <1>2 DEF HeirsOnce
  <2>3. \A j, k \in Heirs(i)' : j = k
    BY <1>2, <1>5 DEF HeirsOnce
  <2>4. QED
    BY <1>5, <2>1, <2>2, <2>3 DEF HeirsOnce
<1>6. QED
  BY <1>3, <1>4, <1>5

\* Rows are inserted one by one, and roots only below the bound.
Inserts == {i \in TaskId : tasks[i].status # "absent"}
Started == {r \in RunId : runs[r].status # "absent"}
Roots == {i \in TaskId : tasks[i].status # "absent" /\ tasks[i].parent = None}
FiniteInv ==
  IsFiniteSet(Inserts) /\ IsFiniteSet(Started) /\ IsFiniteSet(Roots) /\ Cardinality(Roots) <= MaxRoots

LEMMA StartedStep ==
  ASSUME TypeOK, [Next]_vars
  PROVE  \E x : Started' \subseteq Started \cup {x}
<1> USE DEF TypeOK, Started
<1>1. ASSUME NEW w \in Worker, StartRun(w) PROVE Started' \subseteq Started \cup {FreshRun}
  BY <1>1 DEF StartRun
<1>2. ASSUME NEW w \in Worker, FinishRun(w) \/ FailRun(w)
      PROVE  Started' \subseteq Started \cup {run[w]}
  BY <1>2 DEF FinishRun, FailRun
<1>3. ASSUME runs' = runs PROVE Started' \subseteq Started \cup {None}
  BY <1>3
<1>4. ASSUME NEW w \in Worker, Step(w) \/ Fail(w) \/ Crash(w)
      PROVE  runs' = runs \/ StartRun(w) \/ FinishRun(w) \/ FailRun(w)
  BY <1>4 DEF Step, Begin, Acquire, Skip, Execute, Supersede, CheckPending, CheckRunning,
     CreateNext, Complete, Return, FailTask, Fail, Crash, table
<1>5. CASE \E w \in Worker : Step(w) \/ Fail(w) \/ Crash(w)
  BY <1>1, <1>2, <1>3, <1>4, <1>5
<1>6. CASE ~\E w \in Worker : Step(w) \/ Fail(w) \/ Crash(w)
  <2>1. runs' = runs
    BY <1>6 DEF Next, Tick, Bootstrap, vars, table
  <2>2. QED
    BY <1>3, <2>1
<1>7. QED
  BY <1>5, <1>6

LEMMA FiniteKept == TypeOK /\ HoldOK /\ FiniteInv /\ [Next]_vars => FiniteInv'
<1> SUFFICES ASSUME TypeOK, HoldOK, FiniteInv, [Next]_vars PROVE FiniteInv'
  OBVIOUS
<1>1. ASSUME NEW i \in Inserts', i \notin Inserts
      PROVE  \/ i \in Roots' /\ i = FreshTask /\ Cardinality(Roots) < MaxRoots
             \/ i \notin Roots' /\ i = FreshTask
  <2>1. i \in TaskId /\ tasks[i].status = "absent" /\ tasks'[i] # tasks[i]
    BY <1>1 DEF Inserts
  <2>2. ASSUME NEW w \in Worker, CreateNext(w),
               tasks'[i] = Inserted(Head(todo[w]), tasks[job[w]].force, job[w])
        PROVE  i \notin Roots' /\ i = FreshTask
    <3>1. tasks'[i].parent # None
      BY <2>2, NoneAssumption DEF Inserted, CreateNext, HoldOK, Holds, HoldPoint, TryPoint
    <3>2. i = FreshTask
      BY <2>1, <2>2, FreshTaskType DEF CreateNext, TypeOK
    <3>3. QED
      BY <3>1, <3>2 DEF Roots
  <2>3. ASSUME NEW type \in RootType, NEW due \in RootDue, NEW force \in RootForce,
               Bootstrap(type, due, force)
        PROVE  i \in Roots' /\ i = FreshTask /\ Cardinality(Roots) < MaxRoots
    <3>1. i = FreshTask /\ tasks'[i] = Inserted(Next1(type, 100, due), force, None)
      BY <2>1, <2>3, FreshTaskType DEF Bootstrap, TypeOK
    <3>2. i \in Roots'
      BY <2>1, <3>1 DEF Roots, Inserted
    <3>3. QED
      BY <2>3, <3>1, <3>2 DEF Bootstrap, Roots
  <2>4. CASE \E w \in Worker :
               CreateNext(w) /\ tasks'[i] = Inserted(Head(todo[w]), tasks[job[w]].force, job[w])
    BY <2>2, <2>4
  <2>5. CASE \E type \in RootType, due \in RootDue, force \in RootForce :
               /\ Bootstrap(type, due, force)
               /\ tasks'[i] = Inserted(Next1(type, 100, due), force, None)
    BY <2>3, <2>5
  <2>6. QED
    BY <2>1, <2>4, <2>5, NewRow
<1>2. IsFiniteSet(Inserts')
  <2>1. Inserts' \subseteq Inserts \cup {FreshTask}
    BY <1>1
  <2>2. IsFiniteSet(Inserts \cup {FreshTask})
    BY FS_AddElement DEF FiniteInv
  <2>3. QED
    BY <2>1, <2>2, FS_Subset
<1>3. IsFiniteSet(Started')
  <2>1. \E x : Started' \subseteq Started \cup {x}
    BY StartedStep
  <2>2. PICK x : Started' \subseteq Started \cup {x}
    BY <2>1
  <2>3. IsFiniteSet(Started \cup {x})
    BY FS_AddElement DEF FiniteInv
  <2>4. QED
    BY <2>2, <2>3, FS_Subset
<1>4. IsFiniteSet(Roots') /\ Cardinality(Roots') <= MaxRoots
  <2>1. ASSUME NEW i \in Roots', i \notin Roots
        PROVE  i = FreshTask /\ Cardinality(Roots) < MaxRoots
    <3>1. i \in Inserts'
      BY DEF Roots, Inserts
    <3>2. i \notin Inserts
      BY <2>1, RowStep DEF RowKept, Roots, Inserts
    <3>3. QED
      BY <1>1, <3>1, <3>2
  <2>2. CASE Roots' \subseteq Roots
    <3>1. IsFiniteSet(Roots') /\ Cardinality(Roots') <= Cardinality(Roots)
      BY <2>2, FS_Subset DEF FiniteInv
    <3>2. Cardinality(Roots') \in Nat /\ Cardinality(Roots) \in Nat /\ MaxRoots \in Nat
      BY <3>1, FS_CardinalityType, BoundAssumption DEF FiniteInv
    <3>3. QED
      BY <3>1, <3>2 DEF FiniteInv
  <2>3. CASE ~(Roots' \subseteq Roots)
    <3>1. Cardinality(Roots) < MaxRoots /\ Roots' \subseteq Roots \cup {FreshTask}
      BY <2>1, <2>3
    <3>2. /\ IsFiniteSet(Roots \cup {FreshTask})
          /\ Cardinality(Roots \cup {FreshTask}) \in {Cardinality(Roots), Cardinality(Roots) + 1}
      BY FS_AddElement DEF FiniteInv
    <3>3. IsFiniteSet(Roots') /\ Cardinality(Roots') <= Cardinality(Roots \cup {FreshTask})
      BY <3>1, <3>2, FS_Subset
    <3>4. Cardinality(Roots') \in Nat /\ Cardinality(Roots) \in Nat /\ MaxRoots \in Nat
      BY <3>3, FS_CardinalityType, BoundAssumption DEF FiniteInv
    <3>5. QED
      BY <3>1, <3>2, <3>3, <3>4
  <2>4. QED
    BY <2>2, <2>3
<1>5. QED
  BY <1>2, <1>3, <1>4 DEF FiniteInv

\* No more tasks of the main line are pending than roots were bootstrapped when no task
\* ran more than once: every started one has one heir at most, and every other is a root.
LEMMA ForkCount == ForkInv /\ FiniteInv => ForkNeedsRerun
<1> SUFFICES ASSUME ForkInv, FiniteInv, \A i \in TaskId : Cardinality(RunsOf(i)) <= 1
             PROVE  Cardinality({i \in TaskId : tasks[i].type \in MainType /\ tasks[i].status = "pending"})
                      <= MaxRoots
  BY DEF ForkNeedsRerun
<1> DEFINE Main == {i \in TaskId : MainTask(i)}
           Pending == {i \in TaskId : tasks[i].type \in MainType /\ tasks[i].status = "pending"}
           Heir == {j \in Main : tasks[j].parent # None}
           Parent == [j \in Heir |-> tasks[j].parent]
<1>1. ASSUME NEW i \in TaskId PROVE RanOnce(i)
  <2>1. IsFiniteSet(RunsOf(i))
    <3>1. RunsOf(i) \subseteq Started
      BY DEF RunsOf, Started
    <3>2. QED
      BY <3>1, FS_Subset DEF FiniteInv
  <2>2. ASSUME NEW r \in RunsOf(i), NEW s \in RunsOf(i), r # s PROVE FALSE
    <3>1. Cardinality({r}) = 1
      BY FS_Singleton
    <3>2. /\ Cardinality({r}) <= Cardinality(RunsOf(i))
          /\ Cardinality(RunsOf(i)) = Cardinality({r}) => RunsOf(i) = {r}
      BY <2>1, FS_Subset
    <3>3. Cardinality(RunsOf(i)) \in Nat /\ Cardinality(RunsOf(i)) <= 1
      BY <2>1, FS_CardinalityType
    <3>4. QED
      BY <2>2, <3>1, <3>2, <3>3
  <2>3. QED
    BY <2>2 DEF RanOnce
<1>2. Parent \in [Heir -> Main \ Pending]
  BY DEF ForkInv, MainParents
<1>3. \A j, k \in Heir : Parent[j] = Parent[k] => j = k
  <2> SUFFICES ASSUME NEW j \in Heir, NEW k \in Heir, Parent[j] = Parent[k] PROVE j = k
    OBVIOUS
  <2>1. tasks[j].parent = tasks[k].parent /\ tasks[j].parent \in TaskId
    BY <1>2
  <2>2. HeirsOnce(tasks[j].parent)
    BY <1>1, <2>1 DEF ForkInv
  <2>3. j \in Heirs(tasks[j].parent) /\ k \in Heirs(tasks[j].parent)
    BY <2>1 DEF Heirs
  <2>4. QED
    BY <2>2, <2>3 DEF HeirsOnce
<1>4. Parent \in Injection(Heir, Main \ Pending)
  BY <1>2, <1>3 DEF Injection, IsInjective
<1>5. IsFiniteSet(Main) /\ Pending \subseteq Main /\ Heir \subseteq Main
  <2>1. Main \subseteq Inserts /\ Pending \subseteq Main
    BY DEF Inserts, MainTask
  <2>2. QED
    BY <2>1, FS_Subset DEF FiniteInv
<1>6. Main \ Heir \subseteq Roots
  BY DEF Roots, MainTask
<1> HIDE DEF Main, Pending, Heir, Parent
<1>7. IsFiniteSet(Main \ Pending) /\ Cardinality(Main \ Pending) = Cardinality(Main) - Cardinality(Pending)
  <2>1. Main \cap Pending = Pending
    BY <1>5
  <2>2. QED
    BY <1>5, <2>1, FS_Difference
<1>8. IsFiniteSet(Main \ Heir) /\ Cardinality(Main \ Heir) = Cardinality(Main) - Cardinality(Heir)
  <2>1. Main \cap Heir = Heir
    BY <1>5
  <2>2. QED
    BY <1>5, <2>1, FS_Difference
<1>9. Cardinality(Heir) <= Cardinality(Main \ Pending)
  BY <1>4, <1>7, FS_Injection
<1>10. Cardinality(Main \ Heir) <= Cardinality(Roots)
  BY <1>6, FS_Subset DEF FiniteInv
<1>11. /\ Cardinality(Main) \in Nat /\ Cardinality(Pending) \in Nat /\ Cardinality(Heir) \in Nat
       /\ Cardinality(Roots) \in Nat /\ Cardinality(Roots) <= MaxRoots
  BY <1>5, FS_Subset, FS_CardinalityType DEF FiniteInv
<1>12. Cardinality(Pending) <= MaxRoots
  BY <1>7, <1>8, <1>9, <1>10, <1>11, BoundAssumption
<1>13. QED
  BY <1>12 DEF Pending

\* The main line of one chain forks only when a task ran more than once, for any number
\* of ticks at once and wherever they crash. (create_task, _execute_task)
THEOREM ForkHolds == Spec => []ForkNeedsRerun
<1>1. Init => ForkInv /\ FiniteInv
  <2> SUFFICES ASSUME Init PROVE ForkInv /\ FiniteInv
    OBVIOUS
  <2>1. ForkInv
    BY DEF Init, ForkInv, MainSpecsOK, MainParents, HeirsOnce, Heirs, MainTask, NoTask, AfterExecute
  <2>2. Inserts = {} /\ Started = {} /\ Roots = {}
    BY DEF Init, Inserts, Started, Roots, NoTask, NoRun
  <2>3. FiniteInv
    BY <2>2, FS_EmptySet, BoundAssumption DEF FiniteInv
  <2>4. QED
    BY <2>1, <2>3
<1>2. ChainInv /\ ScanInv /\ ForkInv /\ FiniteInv /\ [Next]_vars => ForkInv' /\ FiniteInv'
  <2> SUFFICES ASSUME ChainInv, ScanInv, ForkInv, FiniteInv, [Next]_vars
               PROVE  ForkInv' /\ FiniteInv'
    OBVIOUS
  <2>1. TypeOK /\ HoldOK /\ TickOK /\ OwnRuns
    BY DEF ChainInv, KeptInv, LeaseInv, ScanInv
  <2>2. MainSpecsOK' /\ MainParents'
    BY <2>1, MainSpecsKept, MainParentsKept DEF ForkInv
  <2>3. \A i \in TaskId : RanOnce(i)' => HeirsOnce(i)'
    BY <2>1, HeirsOnceKept
  <2>4. QED
    BY <2>1, <2>2, <2>3, FiniteKept DEF ForkInv
<1>3. ForkInv /\ FiniteInv => ForkNeedsRerun
  BY ForkCount
<1>4. QED
  BY <1>1, <1>2, <1>3, ChainInit, ChainStep, ScanInit, ScanStep, PTL DEF Spec
=============================================================================
