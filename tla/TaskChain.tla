------------------------------ MODULE TaskChain ------------------------------
(***************************************************************************)
(* The task chain: SqliteTaskChainRepository (tables task_chain_tasks and  *)
(* task_chain_runs) and TaskChainService.tick, run by any number of        *)
(* processes that share only the database.                                 *)
(*                                                                         *)
(* Every method of the repository opens its own connection and commits on  *)
(* its own, so a tick is not one transaction: each commit is one action    *)
(* here, and the ticks of different processes, their crashes and the       *)
(* passing of time interleave between any two of them.                     *)
(***************************************************************************)
EXTENDS Naturals, FiniteSets, Sequences

CONSTANTS
  Worker,      \* processes that call tick; each is its own lease owner
  TaskId,      \* primary keys (uuid4) of task_chain_tasks
  RunId,       \* primary keys (uuid4) of task_chain_runs
  None,        \* SQL NULL / Python None
  Ttl,         \* --lease-ttl-seconds
  After,       \* After["5m"] etc: the delays of the successor table
  Window,      \* instants inside the post-market research window
  RootType,    \* task types the operator bootstraps
  RootForce,   \* force_post_market_research flags of their payloads
  RootDue,     \* due_at values the operator passes to bootstrap
  MaxRoots,    \* bound: tasks created by bootstrap
  MaxFaults,   \* bound: crashes and exceptions
  MaxClock     \* bound: the last instant of the clock

MainType == {"market_observe", "alpha_mine", "judge_review", "paper_trade",
             "hourly_report", "post_market_research", "sector_review",
             "strategy_analysis", "daily_report"}
Type == MainType \cup {"news_scan", "kol_scan", "strategy_iteration"}

\* The task types whose presence keeps a KOL scan from asking for an iteration.
DrainType == {"sector_review", "strategy_analysis", "strategy_iteration",
              "daily_report"}

ReportType == {"hourly_report", "daily_report"}

Span == {"1m", "2m", "3m", "5m", "15m", "30m", "1h", "1d"}

ASSUME NoneAssumption == None \notin Worker \cup TaskId \cup RunId
ASSUME TimeAssumption == /\ Ttl \in Nat \ {0}   \* acquire_due_task rejects ttl <= 0
                         /\ After \in [Span -> Nat]
                         /\ Window \subseteq Nat
                         /\ RootDue \subseteq Nat
ASSUME RootAssumption == RootType \subseteq Type /\ RootForce \subseteq BOOLEAN
ASSUME BoundAssumption == /\ MaxRoots \in Nat
                          /\ MaxFaults \in Nat
                          /\ MaxClock \in Nat

VARIABLES
  clock,      \* wall clock
  tasks,      \* task_chain_tasks
  runs,       \* task_chain_runs
  summaries,  \* task_chain_summaries: rows written by the runs of each task
  handoffs,   \* runs for which an agent handoff row exists
  pc,         \* where each worker's tick is
  now,        \* the tick's "now" argument
  job,        \* the tick's acquired task
  run,        \* the tick's run row
  todo,       \* the successor specs the tick has still to insert
  faults      \* crashes and exceptions so far

table == <<tasks, runs, summaries, handoffs>>
local == <<now, job, run, todo>>
vars == <<clock, table, pc, local, faults>>

Status == {"absent", "pending", "running", "completed", "failed"}
Terminal == {"completed", "failed"}
Live == {"pending", "running"}

NextTaskSpec == [type : Type, prio : Nat, due : Nat]
Task == [type : Type, status : Status, prio : Nat, due : Nat, force : BOOLEAN,
         parent : TaskId \cup {None}, owner : Worker \cup {None},
         expires : Nat, superseded : BOOLEAN]
Run == [task : TaskId \cup {None}, owner : Worker \cup {None},
        status : {"absent", "running", "ok", "failed"}]

\* Points of a tick after the lease is taken; inside the try block; all.
TryPoint == {"execute", "supersede", "checkPending", "checkRunning", "create",
             "complete", "reload"}
HoldPoint == TryPoint \cup {"startRun", "failRun", "failTask"}
Point == HoldPoint \cup {"idle", "acquire"}

NoTask == [type |-> "market_observe", status |-> "absent", prio |-> 0, due |-> 0,
           force |-> FALSE, parent |-> None, owner |-> None, expires |-> 0,
           superseded |-> FALSE]
NoRun == [task |-> None, owner |-> None, status |-> "absent"]

TypeOK ==
  /\ clock \in Nat
  /\ tasks \in [TaskId -> Task]
  /\ runs \in [RunId -> Run]
  /\ summaries \in [TaskId -> Nat]
  /\ handoffs \subseteq RunId
  /\ pc \in [Worker -> Point]
  /\ now \in [Worker -> Nat]
  /\ job \in [Worker -> TaskId \cup {None}]
  /\ run \in [Worker -> RunId \cup {None}]
  /\ todo \in [Worker -> Seq(NextTaskSpec)]
  /\ faults \in Nat
-----------------------------------------------------------------------------
(* The successor table of _execute_task. *)

Next1(type, prio, due) == [type |-> type, prio |-> prio, due |-> due]

\* _is_post_market_research_window: the force flag of the payload wins.
InWindow(t, force) == force \/ t \in Window

NextRecurringScan(type, t, force, gap) ==
  IF ~force /\ InWindow(t + gap, force)
    THEN <<Next1(type, 40, t + gap)>>
    ELSE <<>>

\* Mutant: the hourly report also goes on observing when it enters the research.
NextSpecs_Both(type, t, force) ==
  CASE type = "hourly_report" -> <<Next1("post_market_research", 20, t + After["1m"]),
                                   Next1("market_observe", 100, t + After["1h"])>>
    [] type = "post_market_research" -> <<Next1("sector_review", 30, t + After["3m"])>>
    [] type = "strategy_analysis" -> <<Next1("daily_report", 20, t + After["2m"])>>
    [] OTHER -> <<>>

NextSpecs(type, t, force) ==
  CASE type = "market_observe" -> <<Next1("alpha_mine", 100, t + After["5m"])>>
    [] type = "alpha_mine"     -> <<Next1("judge_review", 100, t + After["5m"])>>
    [] type = "judge_review"   -> <<Next1("paper_trade", 100, t + After["5m"])>>
    [] type = "paper_trade"    -> <<Next1("hourly_report", 100, t + After["5m"])>>
    [] type = "hourly_report"  ->
         IF InWindow(t, force)
           THEN <<Next1("post_market_research", 20, t + After["1m"])>>
           ELSE <<Next1("market_observe", 100, t + After["1h"])>>
    [] type = "post_market_research" ->
         <<Next1("news_scan", 20, t + After["1m"]),
           Next1("kol_scan", 25, t + After["1m"]),
           Next1("sector_review", 30, t + After["3m"])>>
    [] type = "news_scan" -> NextRecurringScan("news_scan", t, force, After["15m"])
    [] type = "kol_scan"  -> NextRecurringScan("kol_scan", t, force, After["30m"])
    [] type = "sector_review" -> <<Next1("strategy_analysis", 20, t + After["2m"])>>
    [] type = "strategy_analysis" -> <<Next1("daily_report", 20, t + After["2m"])>>
    [] type = "strategy_iteration" -> <<>>
    [] type = "daily_report" -> <<Next1("market_observe", 100, t + After["1d"])>>

IterationSpec(t) == Next1("strategy_iteration", 45, t + After["1m"])

\* No task type has more successors than this (post_market_research).
MaxFan == 3
-----------------------------------------------------------------------------
Absent == {i \in TaskId : tasks[i].status = "absent"}
AbsentRun == {r \in RunId : runs[r].status = "absent"}
Holds(w) == pc[w] \in HoldPoint
JobType(w) == tasks[job[w]].type

\* Bound: a tick acquires only when the ids left suffice for every open tick.
Room == /\ Cardinality(Absent) >= MaxFan * (1 + Cardinality({w \in Worker : Holds(w)}))
        /\ Cardinality(AbsentRun) > Cardinality({w \in Worker : pc[w] = "startRun"})

\* The row create_task inserts.
Inserted(spec, force, parent) ==
  [type |-> spec.type, status |-> "pending", prio |-> spec.prio, due |-> spec.due,
   force |-> force, parent |-> parent, owner |-> None, expires |-> 0,
   superseded |-> FALSE]

\* Mutant: a row that is taken over keeps the owner it had.
Leased_KeepOwner(row, w, until) == [row EXCEPT !.status = "running", !.expires = until]

\* A row with its lease taken, and a row closed with its lease cleared.
Leased(row, w, until) ==
  [row EXCEPT !.status = "running", !.owner = w, !.expires = until]
Closed(row, status) ==
  [row EXCEPT !.status = status, !.owner = None, !.expires = 0]

FreshTask == CHOOSE i \in TaskId : tasks[i].status = "absent"
FreshRun == CHOOSE r \in RunId : runs[r].status = "absent"

\* Mutant: the lease of a running row is not looked at.
Due_NoLease(t) ==
  {i \in TaskId : tasks[i].due <= t /\ tasks[i].status \in {"pending", "running"}}

\* Mutant: any row without an active lease is taken.
Due_AnyStatus(t) ==
  {i \in TaskId : tasks[i].status # "absent" /\ tasks[i].due <= t /\ tasks[i].expires <= t}

\* Mutant: only pending rows are taken, as the spec document's step 1 has it.
Due_PendingOnly(t) ==
  {i \in TaskId : tasks[i].status = "pending" /\ tasks[i].due <= t}

\* The WHERE clause of acquire_due_task.
Due(t) == {i \in TaskId :
             /\ tasks[i].due <= t
             /\ \/ tasks[i].status = "pending"
                \/ tasks[i].status = "running" /\ tasks[i].expires <= t}

\* ORDER BY priority, due_at (rows that tie on both: any of them).
Before(i, j) == \/ tasks[i].prio < tasks[j].prio
                \/ tasks[i].prio = tasks[j].prio /\ tasks[i].due < tasks[j].due

First(S) == {i \in S : \A j \in S : ~Before(j, i)}

Goto(w, p) == pc' = [pc EXCEPT ![w] = p]

\* The locals of a tick die with it.
Forget(w) ==
  /\ now' = [now EXCEPT ![w] = 0]
  /\ job' = [job EXCEPT ![w] = None]
  /\ run' = [run EXCEPT ![w] = None]
  /\ todo' = [todo EXCEPT ![w] = <<>>]
  /\ Goto(w, "idle")
-----------------------------------------------------------------------------
Init ==
  /\ clock = 0
  /\ tasks = [i \in TaskId |-> NoTask]
  /\ runs = [r \in RunId |-> NoRun]
  /\ summaries = [i \in TaskId |-> 0]
  /\ handoffs = {}
  /\ pc = [w \in Worker |-> "idle"]
  /\ now = [w \in Worker |-> 0]
  /\ job = [w \in Worker |-> None]
  /\ run = [w \in Worker |-> None]
  /\ todo = [w \in Worker |-> <<>>]
  /\ faults = 0

\* Time passes, up to the bound.
Tick ==
  /\ clock < MaxClock
  /\ clock' = clock + 1
  /\ UNCHANGED <<table, pc, local, faults>>

\* bootstrap: the operator inserts a root task (at most MaxRoots of them).
Bootstrap(type, due, force) ==
  /\ Absent # {}
  /\ Cardinality({i \in TaskId : tasks[i].status # "absent" /\ tasks[i].parent = None})
       < MaxRoots
  /\ tasks' = [tasks EXCEPT ![FreshTask] = Inserted(Next1(type, 100, due), force, None)]
  /\ UNCHANGED <<clock, runs, summaries, handoffs, pc, local, faults>>

\* The CLI computes "now" before it opens the database.
Begin(w) ==
  /\ pc[w] = "idle"
  /\ now' = [now EXCEPT ![w] = clock]
  /\ Goto(w, "acquire")
  /\ UNCHANGED <<clock, table, job, run, todo, faults>>

\* acquire_due_task finds a row: one BEGIN IMMEDIATE transaction.
Acquire(w) ==
  /\ pc[w] = "acquire"
  /\ Room
  /\ \E i \in First(Due(now[w])) :
       /\ tasks' = [tasks EXCEPT ![i] = Leased(@, w, now[w] + Ttl)]
       /\ job' = [job EXCEPT ![w] = i]
  /\ Goto(w, "startRun")
  /\ UNCHANGED <<clock, runs, summaries, handoffs, now, run, todo, faults>>

\* acquire_due_task returns None and tick reports no_due_task.
Skip(w) ==
  /\ pc[w] = "acquire"
  /\ Due(now[w]) = {} \/ ~Room
  /\ Forget(w)
  /\ UNCHANGED <<clock, table, faults>>

StartRun(w) ==
  /\ pc[w] = "startRun"
  /\ AbsentRun # {}
  /\ runs' = [runs EXCEPT ![FreshRun] = [task |-> job[w], owner |-> w, status |-> "running"]]
  /\ run' = [run EXCEPT ![w] = FreshRun]
  /\ Goto(w, "execute")
  /\ UNCHANGED <<clock, tasks, summaries, handoffs, now, job, todo, faults>>

\* Mutant: a KOL scan that asks for an agent is treated as a collected report.
Execute_PromptCounts(w) ==
  /\ pc[w] = "execute"
  /\ todo' = [todo EXCEPT ![w] = NextSpecs(JobType(w), now[w], tasks[job[w]].force)]
  /\ \/ /\ JobType(w) = "kol_scan"
        /\ handoffs' = handoffs \cup {run[w]}
        /\ Goto(w, "checkPending")
     \/ /\ UNCHANGED handoffs
        /\ Goto(w, "create")
  /\ UNCHANGED <<clock, tasks, runs, summaries, now, job, run, faults>>

\* hourly_report and daily_report insert a summary row.
Reported(w) == IF JobType(w) \in ReportType THEN [summaries EXCEPT ![job[w]] = @ + 1]
                                            ELSE summaries

\* A KOL scan without a report of its own inserts an agent handoff for its run.
AskAgent(w) ==
  /\ JobType(w) = "kol_scan"
  /\ handoffs' = handoffs \cup {run[w]}
  /\ Goto(w, "create")

\* A KOL scan that has collected an actionable report considers an iteration,
\* inside the research window and without the force flag only.
WeighIteration(w) ==
  /\ JobType(w) = "kol_scan"
  /\ ~tasks[job[w]].force
  /\ now[w] \in Window
  /\ UNCHANGED handoffs
  /\ Goto(w, "checkPending")

\* _execute_task up to its last write. The payload of a KOL scan decides between
\* an agent, a report worth an iteration and a report that is not.
Execute(w) ==
  /\ pc[w] = "execute"
  /\ summaries' = Reported(w)
  /\ todo' = [todo EXCEPT ![w] = NextSpecs(JobType(w), now[w], tasks[job[w]].force)]
  /\ \/ AskAgent(w)
     \/ WeighIteration(w)
     \/ /\ UNCHANGED handoffs
        /\ Goto(w, IF JobType(w) = "daily_report" THEN "supersede" ELSE "create")
  /\ UNCHANGED <<clock, tasks, runs, now, job, run, faults>>

\* daily_report closes every pending market_observe that is already due.
Supersede(w) ==
  /\ pc[w] = "supersede"
  /\ tasks' = [i \in TaskId |->
                 IF /\ tasks[i].status = "pending"
                    /\ tasks[i].type = "market_observe"
                    /\ tasks[i].due <= now[w]
                   THEN [Closed(tasks[i], "completed") EXCEPT !.superseded = TRUE]
                   ELSE tasks[i]]
  /\ Goto(w, "create")
  /\ UNCHANGED <<clock, runs, summaries, handoffs, local, faults>>

\* Mutant: only running rows are looked for.
CheckPending_Skipped(w) ==
  /\ pc[w] = "checkPending"
  /\ Goto(w, "checkRunning")
  /\ UNCHANGED <<clock, table, local, faults>>

\* _has_pending_or_running_task lists the pending rows ...
CheckPending(w) ==
  /\ pc[w] = "checkPending"
  /\ Goto(w, IF \E i \in TaskId : tasks[i].status = "pending" /\ tasks[i].type \in DrainType
               THEN "create" ELSE "checkRunning")
  /\ UNCHANGED <<clock, table, local, faults>>

\* ... and, in a later query, the running ones.
CheckRunning(w) ==
  /\ pc[w] = "checkRunning"
  /\ todo' = IF \E i \in TaskId : tasks[i].status = "running" /\ tasks[i].type \in DrainType
               THEN todo
               ELSE [todo EXCEPT ![w] = Append(@, IterationSpec(now[w]))]
  /\ Goto(w, "create")
  /\ UNCHANGED <<clock, table, now, job, run, faults>>

\* create_task for the next successor: one commit for each.
CreateNext(w) ==
  /\ pc[w] = "create"
  /\ todo[w] # <<>>
  /\ Absent # {}
  /\ tasks' = [tasks EXCEPT ![FreshTask] =
                 Inserted(Head(todo[w]), tasks[job[w]].force, job[w])]
  /\ todo' = [todo EXCEPT ![w] = Tail(@)]
  /\ UNCHANGED <<clock, runs, summaries, handoffs, pc, now, job, run, faults>>

\* Mutant: the run and the task are finished before the successors are written.
FinishRun_Early(w) ==
  /\ pc[w] = "create"
  /\ runs' = [runs EXCEPT ![run[w]].status = "ok"]
  /\ Goto(w, "complete")
  /\ UNCHANGED <<clock, tasks, summaries, handoffs, local, faults>>

FinishRun(w) ==
  /\ pc[w] = "create"
  /\ todo[w] = <<>>
  /\ runs' = [runs EXCEPT ![run[w]].status = "ok"]
  /\ Goto(w, "complete")
  /\ UNCHANGED <<clock, tasks, summaries, handoffs, local, faults>>

\* complete_task: an UPDATE by id that looks at neither owner nor lease.
CloseTask(w, status) == tasks' = [tasks EXCEPT ![job[w]] = Closed(@, status)]

Complete(w) ==
  /\ pc[w] = "complete"
  /\ CloseTask(w, "completed")
  /\ Goto(w, "reload")
  /\ UNCHANGED <<clock, runs, summaries, handoffs, local, faults>>

\* complete_task reads the row back and tick returns.
Return(w) ==
  /\ pc[w] = "reload"
  /\ Forget(w)
  /\ UNCHANGED <<clock, table, faults>>

\* Anything inside the try block raises (a locked database, a bad payload ...).
Fail(w) ==
  /\ pc[w] \in TryPoint
  /\ faults < MaxFaults
  /\ faults' = faults + 1
  /\ Goto(w, "failRun")
  /\ UNCHANGED <<clock, table, local>>

FailRun(w) ==
  /\ pc[w] = "failRun"
  /\ runs' = [runs EXCEPT ![run[w]].status = "failed"]
  /\ Goto(w, "failTask")
  /\ UNCHANGED <<clock, tasks, summaries, handoffs, local, faults>>

\* Mutant: the task of a failed run is closed as completed.
FailTask_Completed(w) ==
  /\ pc[w] = "failTask"
  /\ CloseTask(w, "completed")
  /\ Forget(w)
  /\ UNCHANGED <<clock, runs, summaries, handoffs, faults>>

FailTask(w) ==
  /\ pc[w] = "failTask"
  /\ CloseTask(w, "failed")
  /\ Forget(w)
  /\ UNCHANGED <<clock, runs, summaries, handoffs, faults>>

\* The process dies, or an exception leaves tick outside the try block. Bound:
\* early enough for the abandoned lease to expire before MaxClock.
Crash(w) ==
  /\ Holds(w)
  /\ faults < MaxFaults
  /\ clock + Ttl <= MaxClock
  /\ faults' = faults + 1
  /\ Forget(w)
  /\ UNCHANGED <<clock, table>>

Step(w) ==
  \/ Begin(w) \/ Acquire(w) \/ Skip(w) \/ StartRun(w) \/ Execute(w)
  \/ Supersede(w) \/ CheckPending(w) \/ CheckRunning(w) \/ CreateNext(w)
  \/ FinishRun(w) \/ Complete(w) \/ Return(w) \/ FailRun(w) \/ FailTask(w)

Next ==
  \/ Tick
  \/ \E type \in RootType, due \in RootDue, force \in RootForce : Bootstrap(type, due, force)
  \/ \E w \in Worker : Step(w) \/ Fail(w) \/ Crash(w)

Spec == Init /\ [][Next]_vars

\* launchd runs tick every 60 s for ever, and a tick that has begun goes on
\* unless it crashes: weak fairness of each worker's steps and of time.
FairSpec == Spec /\ WF_vars(Tick) /\ \A w \in Worker : WF_vars(Step(w))
-----------------------------------------------------------------------------
(* What the chain promises. *)

Superseded(i) == tasks[i].superseded
Done(i) == tasks[i].status = "completed" /\ ~Superseded(i)
RunsOf(i) == {r \in RunId : runs[r].status # "absent" /\ runs[r].task = i}
ChildTypes(i) == {tasks[j].type : j \in {k \in TaskId : /\ tasks[k].status # "absent"
                                                       /\ tasks[k].parent = i}}
SpecTypes(specs) == {specs[k].type : k \in DOMAIN specs}

\* Two ticks hold the same task only when the lease of the one had run out
\* before the other began: an active lease is never re-entered.
LeaseExclusive ==
  \A u, v \in Worker :
    /\ u # v
    /\ Holds(u)
    /\ Holds(v)
    /\ job[u] = job[v]
    => now[u] + Ttl <= now[v] \/ now[v] + Ttl <= now[u]

\* A running row whose holder's lease has not run out names that holder, even
\* after late ticks of earlier holders have run the unguarded complete_task.
OwnerIsHolder ==
  \A w \in Worker :
    Holds(w) /\ tasks[job[w]].status = "running" /\ now[w] + Ttl > clock
    => tasks[job[w]].owner = w

\* A completed task has left everything it owed: the successors the table asks
\* of a run at some instant, the summary row of a report, and a run that ended.
\* No crash between the commits of a tick can lose a successor.
NoLostSuccessor ==
  \A i \in TaskId : Done(i) =>
    /\ \E t \in 0..MaxClock :
         SpecTypes(NextSpecs(tasks[i].type, t, tasks[i].force)) \subseteq ChildTypes(i)
    /\ tasks[i].type \in ReportType => summaries[i] > 0
    /\ \E r \in RunsOf(i) : runs[r].status # "running"

\* Unless a task failed, a chain bootstrapped on its main line always has a
\* main-line task that is pending or running, whatever crashes: it can go on.
ChainAlive ==
  /\ \E i \in TaskId : tasks[i].status # "absent" /\ tasks[i].type \in MainType
  /\ \A i \in TaskId : tasks[i].status # "failed"
  => \E i \in TaskId : tasks[i].type \in MainType /\ tasks[i].status \in Live

\* The main line of one chain forks only when a task ran more than once.
ForkNeedsRerun ==
  (\A i \in TaskId : Cardinality(RunsOf(i)) <= 1)
  => Cardinality({i \in TaskId : tasks[i].type \in MainType /\ tasks[i].status = "pending"})
       <= MaxRoots

\* With one worker at a time there is at most one live strategy_iteration,
\* however often KOL scans are re-run after crashes.
OneIteration ==
  Cardinality({i \in TaskId : /\ tasks[i].type = "strategy_iteration"
                              /\ tasks[i].status \in Live}) <= 1

\* An assistant prompt is not a report: a KOL scan all of whose runs asked for
\* an agent has not scheduled a strategy_iteration.
PromptIsNotReport ==
  \A i \in TaskId :
    RunsOf(i) \subseteq handoffs => "strategy_iteration" \notin ChildTypes(i)

\* A task that completed or failed never runs again, though late ticks may
\* still turn one of the two verdicts into the other.
TerminalStays ==
  [][\A i \in TaskId : tasks[i].status \in Terminal => tasks'[i].status \in Terminal]_vars

\* docs/architecture.md: the post-market line drains post_market_research ->
\* news_scan / kol_scan / sector_review -> strategy_analysis -> daily_report, and
\* strategy_iteration is scheduled only after that line has drained.
IterationAfterDrain ==
  [][\A i \in TaskId :
       /\ tasks[i].status = "absent"
       /\ tasks'[i].status # "absent"
       /\ tasks'[i].type = "strategy_iteration"
       => ~\E j \in TaskId : /\ tasks[j].type \in DrainType \cup {"post_market_research"}
                           /\ tasks[j].status \in Live]_vars

\* Every task that is due, and every task whose worker crashed, is eventually
\* brought to an end by some tick.
Drained ==
  \A i \in TaskId :
    (tasks[i].status \in Live /\ tasks[i].due <= clock) ~> tasks[i].status \in Terminal
=============================================================================
