---------------------------- MODULE ResearchLoop ----------------------------
(***************************************************************************)
(* AlphaResearchLoopService on top of the strategy registry: a researcher  *)
(* tries one factor after another, has each proposal judged against the    *)
(* champion (the passed verdict of the strategy that is active then), stops*)
(* at the first that passes and may record the run and its verdicts.  The  *)
(* registry's own commands run at the same time, and a person may record a *)
(* verdict from a file; every read and every transaction is a step.        *)
(*                                                                         *)
(* The registry keeps the verdicts as a set; here they are also a log in   *)
(* the order of their ids, with the metrics a later run is compared with.  *)
(***************************************************************************)
EXTENDS StrategyRegistry, Integers, SequencesExt

CONSTANTS
  Researcher,  \* processes that run alpha_research_loop.py
  Factor,      \* the factors
  Lists,       \* what --factors may be: non-empty sequences of them
  VersionOf,   \* the version and the proposal a factor's report names: both are
  ProposalOf,  \*   made from the factor and the date of the report
  Found,       \* what the daily report may return for a factor
  Bounds,      \* the thresholds of the judge
  ByHand,      \* the verdicts in the files of record-verdict: any gate, metrics or none
  MaxRuns,     \* bound: runs on record
  MaxByHand    \* bound: verdicts recorded by hand

INSTANCE StrategyJudge

\* A metric of an evaluation, a number or missing.
Metric == Int \cup {None}

ASSUME LoopAssumption ==
  /\ VersionOf \in [Factor -> Version]
  /\ ProposalOf \in [Factor -> Proposal]
  /\ Lists \subseteq Seq(Factor) \ {<<>>}
  /\ None \notin Int \cup [rankIc : Metric, spread : Metric]
  /\ \A found \in Found : found.metrics.rankIc \in Metric /\ found.metrics.spread \in Metric
  /\ Bounds \in Thresholds
  /\ ByHand \subseteq [proposal : Proposal, version : Version, gate : Gate,
                       rankIc : Metric, spread : Metric] \ {None}

VARIABLES
  desk,  \* what each researcher is doing
  log,   \* strategy_judge_verdicts in the order of their ids
  runs   \* alpha_research_loop_runs in the order of their ids

loopVars == <<desk, log, runs>>
allVars == <<vars, loopVars>>

\* at: the next step; todo: the factors left; done: the attempts; found: the report
\* of the factor at hand; seen: the active version that was read; row: its run on
\* record; next: the attempt whose verdict is to be recorded next.
Idle == [at |-> "idle", todo |-> <<>>, done |-> <<>>, found |-> None, seen |-> None,
         row |-> 0, next |-> 1]

LoopInit ==
  /\ Init
  /\ desk = [r \in Researcher |-> Idle]
  /\ log = <<>>
  /\ runs = <<>>

Set(r, d) == desk' = [desk EXCEPT ![r] = d]

\* run --record-to-registry, with distinct roles and at least one factor.  Without
\* that option the loop reads the same and writes nothing.
StartRun(r, factors) ==
  /\ desk[r].at = "idle"
  /\ Set(r, [Idle EXCEPT !.at = "report", !.todo = factors])
  /\ UNCHANGED <<vars, log, runs>>

\* An attempt: what was judged, against whom, and the verdict (None without a
\* proposal).
Attempt(d, verdict, champion) ==
  [factor |-> Head(d.todo), status |-> IF verdict = None THEN "blocked" ELSE verdict.gate,
   active |-> d.seen, champion |-> champion, verdict |-> verdict]

\* After an attempt: the next factor, until one has passed or none is left.
Onward(d, attempt) ==
  LET e == [d EXCEPT !.done = Append(@, attempt), !.todo = Tail(@),
                     !.found = None, !.seen = None]
  IN [e EXCEPT !.at = IF attempt.status = "passed" \/ e.todo = <<>>
                      THEN "finish" ELSE "report"]

\* _attempt: without a proposal it is blocked, else the champion is looked for.
MakeReport(r, found) ==
  LET d == desk[r] IN
    /\ d.at = "report"
    /\ Set(r, IF found.proposal = None THEN Onward(d, Attempt(d, None, None))
              ELSE [d EXCEPT !.found = found, !.at = "active"])
    /\ UNCHANGED <<vars, log, runs>>

\* _champion_payload: current_strategy ...
ReadActive(r) ==
  /\ desk[r].at = "active"
  /\ IF Active = {} THEN Set(r, [desk[r] EXCEPT !.at = "judge"])
     ELSE \E v \in Active : Set(r, [desk[r] EXCEPT !.at = "judge", !.seen = v])
  /\ UNCHANGED <<vars, log, runs>>

\* ... then latest_judge_verdict: its last passed verdict on the proposal it
\* came from.  Without an active strategy there is no champion.
PassedOf(v) == {k \in DOMAIN log : /\ log[k].version = v
                                 /\ log[k].proposal = version[v].proposal
                                 /\ log[k].gate = "passed"}

IsChampion(v, champion) ==
  IF v = None \/ PassedOf(v) = {} THEN champion = None
  ELSE \E k \in PassedOf(v) : champion = log[k] /\ \A j \in PassedOf(v) : j <= k

\* ... and judge.
Verdict(d, champion) ==
  Judge([id |-> ProposalOf[Head(d.todo)], version |-> VersionOf[Head(d.todo)],
         backtest |-> d.found.proposal], d.found, champion, Bounds)

JudgeProposal(r) ==
  LET d == desk[r] IN
    /\ d.at = "judge"
    /\ \E champion \in ToSet(log) \cup {None} :
         /\ IsChampion(d.seen, champion)
         /\ Set(r, Onward(d, Attempt(d, Verdict(d, champion), champion)))
    /\ UNCHANGED <<vars, log, runs>>

Ready(attempts) == \E k \in DOMAIN attempts : attempts[k].status = "passed"

\* What the registry's own commands read of a verdict.
RowOf(verdict) ==
  [version |-> verdict.version, proposal |-> verdict.proposal, gate |-> verdict.gate]

\* record_research_loop_run commits the run first.
FinishRun(r) ==
  LET d == desk[r] IN
    /\ d.at = "finish"
    /\ Len(runs) < MaxRuns
    /\ runs' = Append(runs, [ready |-> Ready(d.done), attempts |-> d.done,
                             recorded |-> FALSE])
    /\ Set(r, [d EXCEPT !.at = "record", !.row = Len(runs) + 1])
    /\ UNCHANGED <<vars, log>>

\* Mutant: the recording ends at the first attempt without a verdict.
RecordAttempt_UntilMissing(r) ==
  LET d == desk[r]
      verdict == d.done[d.next].verdict
  IN /\ d.at = "record"
     /\ d.next <= Len(d.done)
     /\ IF verdict = None
          THEN Set(r, [d EXCEPT !.next = Len(d.done) + 1]) /\ UNCHANGED <<log, verdicts>>
          ELSE /\ Set(r, [d EXCEPT !.next = @ + 1])
               /\ log' = Append(log, verdict)
               /\ verdicts' = verdicts \cup {RowOf(verdict)}
     /\ UNCHANGED <<version, proposals, approvals, history, events, pc, op, runs>>

\* Then record_judge_verdict once per attempt that has a verdict, each a transaction of
\* its own.
RecordAttempt(r) ==
  LET d == desk[r]
      verdict == d.done[d.next].verdict
  IN /\ d.at = "record"
     /\ d.next <= Len(d.done)
     /\ IF verdict = None THEN UNCHANGED <<log, verdicts>>
        ELSE /\ log' = Append(log, verdict)
             /\ verdicts' = verdicts \cup {RowOf(verdict)}
     /\ Set(r, [d EXCEPT !.next = @ + 1])
     /\ UNCHANGED <<version, proposals, approvals, history, events, pc, op, runs>>

\* A row of `runs` notes, for the properties only, that all of its verdicts are recorded.
EndRecording(r) ==
  /\ desk[r].at = "record"
  /\ desk[r].next > Len(desk[r].done)
  /\ runs' = [runs EXCEPT ![desk[r].row].recorded = TRUE]
  /\ Set(r, Idle)
  /\ UNCHANGED <<vars, log>>

\* The process dies, or a report, a read or a write raises: what is committed stays.
BreakOff(r) ==
  /\ desk[r].at # "idle"
  /\ Set(r, Idle)
  /\ UNCHANGED <<vars, log, runs>>

\* record-verdict: a verdict from a file, of any version and proposal.
RecordByHand(p, verdict) ==
  /\ Cardinality({k \in DOMAIN log : log[k] \in ByHand}) < MaxByHand
  /\ RecordVerdict(p, RowOf(verdict))
  /\ log' = Append(log, verdict)
  /\ UNCHANGED <<desk, runs>>

\* The registry's other commands: a person proposes what a report named.
RegistryStep(p) ==
  /\ \/ \E f \in Factor : Propose(p, VersionOf[f], ProposalOf[f])
     \/ \E v \in Version :
          \/ \E person \in Person : BeginApprove(p, v, person)
          \/ BeginActivate(p, v)
     \/ ApproveVerdict(p) \/ ApproveWrite(p)
     \/ ActivateApproval(p) \/ ActivatePrevious(p) \/ ActivateSelect(p) \/ ActivateWrite(p)
     \/ Abandon(p)
  /\ UNCHANGED loopVars

LoopStep(r) ==
  \/ \E factors \in Lists : StartRun(r, factors)
  \/ \E found \in Found : MakeReport(r, found)
  \/ ReadActive(r) \/ JudgeProposal(r)
  \/ FinishRun(r) \/ RecordAttempt(r) \/ EndRecording(r)
  \/ BreakOff(r)

LoopNext ==
  \/ \E p \in Process : RegistryStep(p) \/ \E verdict \in ByHand : RecordByHand(p, verdict)
  \/ \E r \in Researcher : LoopStep(r)

LoopSpec == LoopInit /\ [][LoopNext]_allVars
-----------------------------------------------------------------------------
LoopTypeOK ==
  /\ TypeOK
  /\ \A r \in Researcher : /\ desk[r].seen \in Version \cup {None}
                           /\ ToSet(desk[r].todo) \subseteq Factor
                           /\ desk[r].row \in 0 .. Len(runs)
  /\ \A k \in DOMAIN log : log[k].version \in Version /\ log[k].gate \in Gate

\* docs/specs/alpha-research-loop.md: with a registry and an active strategy, every
\* judged proposal is compared with the verdict that strategy passed with.  It takes
\* the registry's gate: an active strategy without a passed verdict on its own
\* proposal would let the challenger in uncompared.  A challenger that passes improves on
\* each metric of that verdict, and only one a person recorded from a file can lack a
\* metric: then nothing is compared.  (_champion_payload, _champion, _champion_reasons)
ComparedWithActive ==
  \A k \in DOMAIN runs : \A i \in DOMAIN runs[k].attempts :
    LET a == runs[k].attempts[i] IN
      a.active # None /\ a.verdict # None =>
        /\ a.champion # None
        /\ a.champion.gate = "passed"
        /\ a.champion.version = a.active
        /\ a.status = "passed" =>
             /\ a.champion.rankIc # None => a.verdict.rankIc >= a.champion.rankIc + Bounds.rankIcDelta
             /\ a.champion.spread # None => a.verdict.spread >= a.champion.spread + Bounds.spreadDelta
        /\ None \in {a.champion.rankIc, a.champion.spread} => a.champion \in ByHand

\* A run that is on record as ready for human review, and whose recording was not
\* broken off, has the passed verdict that lets a person approve its strategy.
ReadyCanBeApproved ==
  \A k \in DOMAIN runs :
    runs[k].ready /\ runs[k].recorded =>
      \E i \in DOMAIN runs[k].attempts :
        LET a == runs[k].attempts[i] IN
          /\ a.status = "passed"
          /\ [version |-> VersionOf[a.factor], proposal |-> ProposalOf[a.factor],
              gate |-> "passed"] \in verdicts
=============================================================================
