-------------------------- MODULE StrategyRegistry --------------------------
(***************************************************************************)
(* SqliteStrategyRegistry: strategy versions, judge verdicts, approvals,   *)
(* activations and their audit events, used by any number of processes     *)
(* (strategy_registry.py, alpha_research_loop.py, watch_worker_tick.py).   *)
(*                                                                         *)
(* approve_strategy and activate_strategy read with connections of their   *)
(* own, check what they read, and write in a later transaction that checks *)
(* nothing.  Python's sqlite3 begins a transaction only at the first       *)
(* UPDATE, so even the SELECT of the active rows is outside it.  Each read *)
(* and each committed transaction is one action here.                      *)
(***************************************************************************)
EXTENDS Naturals, FiniteSets, Sequences

CONSTANTS
  Process,   \* processes that use the registry, one command at a time
  Version,   \* strategy_version keys
  Proposal,  \* proposal_id keys
  Person,    \* values of --approved-by
  Judged,    \* the verdicts a judge may record
  None       \* SQL NULL

Status == {"absent", "candidate", "approved", "active", "retired"}
Gate == {"passed", "blocked"}
JudgeVerdict == [version : Version, proposal : Proposal, gate : Gate]

ASSUME RegistryAssumption == /\ None \notin Version \cup Proposal \cup Person
                             /\ Judged \subseteq JudgeVerdict

VARIABLES
  version,    \* strategy_versions
  proposals,  \* the keys in strategy_proposals
  verdicts,   \* strategy_judge_verdicts
  approvals,  \* strategy_approvals
  history,    \* strategy_activation_history
  events,     \* strategy_version_events of each version, verdict events apart
  pc,         \* where each process's command is
  op          \* what it has read so far

table == <<version, proposals, verdicts, approvals, history, events>>
vars == <<table, pc, op>>

Row == [status : Status, proposal : Proposal \cup {None},
        approvedBy : Person \cup {None}, retiredAt : BOOLEAN]
Approval == [version : Version, by : Person]
Activation == [version : Version, by : Person, previous : Version \cup {None}]
Event == [from : Status \cup {None}, to : Status]

Point == {"idle", "approveVerdict", "approveWrite", "activateApproval",
          "activatePrevious", "activateSelect", "activateWrite"}

\* target: the version named on the command line; by: the approver; status: the
\* status that was read; previous and active: what was read of the active rows.
Op == [target : Version \cup {None}, by : Person \cup {None}, status : Status,
       previous : Version \cup {None}, active : SUBSET Version]

NoRow == [status |-> "absent", proposal |-> None, approvedBy |-> None, retiredAt |-> FALSE]
NoOp == [target |-> None, by |-> None, status |-> "absent", previous |-> None,
         active |-> {}]

TypeOK ==
  /\ version \in [Version -> Row]
  /\ proposals \subseteq Proposal
  /\ verdicts \subseteq JudgeVerdict
  /\ approvals \in Seq(Approval)
  /\ history \in Seq(Activation)
  /\ events \in [Version -> Seq(Event)]
  /\ pc \in [Process -> Point]
  /\ op \in [Process -> Op]
-----------------------------------------------------------------------------
Active == {v \in Version : version[v].status = "active"}

\* Mutant: any verdict on the version is enough, whatever its gate or proposal.
Passed_AnyVerdict(v) == \E j \in verdicts : j.version = v

\* latest_judge_verdict(version, gate_status="passed", proposal_id=its source).
Passed(v) == [version |-> v, proposal |-> version[v].proposal, gate |-> "passed"] \in verdicts

\* The approval rows of a version.
ApprovalsOf(v) == {k \in DOMAIN approvals : approvals[k].version = v}
Latest(s) == s[Len(s)]

\* _insert_event.
Log(v, from, to) == Append(events[v], [from |-> from, to |-> to])

Goto(p, point) == pc' = [pc EXCEPT ![p] = point]

\* The command ends: it succeeded, raised, or its process died.
Leave(p) ==
  /\ Goto(p, "idle")
  /\ op' = [op EXCEPT ![p] = NoOp]
-----------------------------------------------------------------------------
Init ==
  /\ version = [v \in Version |-> NoRow]
  /\ proposals = {}
  /\ verdicts = {}
  /\ approvals = <<>>
  /\ history = <<>>
  /\ events = [v \in Version |-> <<>>]
  /\ pc = [p \in Process |-> "idle"]
  /\ op = [p \in Process |-> NoOp]

\* save_candidate_strategy: one transaction; a used key of either table raises.
Propose(p, v, proposal) ==
  /\ pc[p] = "idle"
  /\ version[v].status = "absent"
  /\ proposal \notin proposals
  /\ proposals' = proposals \cup {proposal}
  /\ version' = [version EXCEPT ![v].status = "candidate", ![v].proposal = proposal]
  /\ events' = [events EXCEPT ![v] = Log(v, None, "candidate")]
  /\ UNCHANGED <<verdicts, approvals, history, pc, op>>

\* record_judge_verdict: neither the version nor the proposal has to exist.
RecordVerdict(p, verdict) ==
  /\ pc[p] = "idle"
  /\ verdicts' = verdicts \cup {verdict}
  /\ UNCHANGED <<version, proposals, approvals, history, events, pc, op>>

\* Mutant: a version of any status can be approved.
BeginApprove_AnyStatus(p, v, person) ==
  /\ pc[p] = "idle"
  /\ version[v].status # "absent"
  /\ op' = [op EXCEPT ![p] = [NoOp EXCEPT !.target = v, !.by = person,
                                          !.status = "candidate"]]
  /\ Goto(p, "approveVerdict")
  /\ UNCHANGED table

\* approve_strategy: get_strategy_version, which must be a candidate ...
BeginApprove(p, v, person) ==
  /\ pc[p] = "idle"
  /\ version[v].status = "candidate"
  /\ op' = [op EXCEPT ![p] = [NoOp EXCEPT !.target = v, !.by = person,
                                          !.status = "candidate"]]
  /\ Goto(p, "approveVerdict")
  /\ UNCHANGED table

\* ... then its passed verdict ...
ApproveVerdict(p) ==
  /\ pc[p] = "approveVerdict"
  /\ Passed(op[p].target)
  /\ Goto(p, "approveWrite")
  /\ UNCHANGED <<table, op>>

\* Mutant: the status of the version is changed without an audit event.
ApproveWrite_NoEvent(p) ==
  /\ pc[p] = "approveWrite"
  /\ approvals' = Append(approvals, [version |-> op[p].target, by |-> op[p].by])
  /\ version' = [version EXCEPT ![op[p].target].status = "approved",
                                ![op[p].target].approvedBy = op[p].by]
  /\ Leave(p)
  /\ UNCHANGED <<proposals, verdicts, history, events>>

\* ... and one transaction that inserts the approval and updates the version,
\* whatever its status is by now.
ApproveWrite(p) ==
  LET v == op[p].target IN
    /\ pc[p] = "approveWrite"
    /\ approvals' = Append(approvals, [version |-> v, by |-> op[p].by])
    /\ version' = [version EXCEPT ![v].status = "approved", ![v].approvedBy = op[p].by]
    /\ events' = [events EXCEPT ![v] = Log(v, op[p].status, "approved")]
    /\ Leave(p)
    /\ UNCHANGED <<proposals, verdicts, history>>

\* activate_strategy: get_strategy_version (an unknown version raises) ...
BeginActivate(p, v) ==
  /\ pc[p] = "idle"
  /\ version[v].status # "absent"
  /\ op' = [op EXCEPT ![p] = [NoOp EXCEPT !.target = v, !.status = version[v].status]]
  /\ Goto(p, "activateApproval")
  /\ UNCHANGED table

\* Mutant: the approval is looked for, but its approver is not kept.
ActivateApproval_ForgetBy(p) ==
  /\ pc[p] = "activateApproval"
  /\ ApprovalsOf(op[p].target) # {}
  /\ op[p].status = "approved"
  /\ Goto(p, "activatePrevious")
  /\ UNCHANGED <<table, op>>

\* ... then latest_approval; both what was read are checked ...
ActivateApproval(p) ==
  /\ pc[p] = "activateApproval"
  /\ op[p].status = "approved"
  /\ \E k \in ApprovalsOf(op[p].target) :
       /\ \A j \in ApprovalsOf(op[p].target) : j <= k
       /\ op' = [op EXCEPT ![p].by = approvals[k].by]
  /\ Goto(p, "activatePrevious")
  /\ UNCHANGED table

\* Mutant: the activated version is recorded as its own predecessor.
ActivatePrevious_Own(p) ==
  /\ pc[p] = "activatePrevious"
  /\ op' = [op EXCEPT ![p].previous = op[p].target]
  /\ Goto(p, "activateSelect")
  /\ UNCHANGED table

\* ... then current_strategy, which takes the active row updated last (any of
\* them here, when there is more than one) ...
ActivatePrevious(p) ==
  /\ pc[p] = "activatePrevious"
  /\ IF Active = {} THEN op' = op
                    ELSE \E v \in Active : op' = [op EXCEPT ![p].previous = v]
  /\ Goto(p, "activateSelect")
  /\ UNCHANGED table

\* ... then the active rows to retire ...
ActivateSelect(p) ==
  /\ pc[p] = "activateSelect"
  /\ op' = [op EXCEPT ![p].active = Active \ {op[p].target}]
  /\ Goto(p, "activateWrite")
  /\ UNCHANGED table

\* ... and one transaction that retires them, makes the target active whatever
\* its status is by now, and records it all.
ActivateWrite(p) ==
  LET v == op[p].target
      retire == op[p].active
  IN /\ pc[p] = "activateWrite"
     /\ version' = [w \in Version |->
                      IF w = v
                        THEN [version[w] EXCEPT !.status = "active", !.approvedBy = op[p].by,
                                                !.retiredAt = FALSE]
                      ELSE IF w \in retire
                        THEN [version[w] EXCEPT !.status = "retired", !.retiredAt = TRUE]
                      ELSE version[w]]
     /\ history' = Append(history, [version |-> v, by |-> op[p].by,
                                    previous |-> op[p].previous])
     /\ events' = [w \in Version |-> IF w = v THEN Log(w, op[p].status, "active")
                                     ELSE IF w \in retire THEN Log(w, "active", "retired")
                                     ELSE events[w]]
     /\ Leave(p)
     /\ UNCHANGED <<proposals, verdicts, approvals>>

\* A check fails and the command raises, or its process dies before the write.
Abandon(p) ==
  /\ pc[p] # "idle"
  /\ Leave(p)
  /\ UNCHANGED table

Step(p) ==
  \/ \E v \in Version :
       \/ \E proposal \in Proposal : Propose(p, v, proposal)
       \/ \E person \in Person : BeginApprove(p, v, person)
       \/ BeginActivate(p, v)
  \/ \E verdict \in Judged : RecordVerdict(p, verdict)
  \/ ApproveVerdict(p) \/ ApproveWrite(p)
  \/ ActivateApproval(p) \/ ActivatePrevious(p) \/ ActivateSelect(p) \/ ActivateWrite(p)
  \/ Abandon(p)

Next == \E p \in Process : Step(p)

Spec == Init /\ [][Next]_vars
-----------------------------------------------------------------------------
(* Whatever the processes do at the same time. *)

Approvers(v) == {approvals[k].by : k \in ApprovalsOf(v)}

\* Nothing is approved, active or retired without a passed verdict on the very
\* proposal it came from and a person who approved this version.
GovernedStatus ==
  \A v \in Version :
    IF version[v].status \in {"approved", "active", "retired"}
      THEN /\ \E j \in verdicts : /\ j.version = v
                               /\ j.proposal = version[v].proposal
                               /\ j.gate = "passed"
           /\ version[v].approvedBy \in Approvers(v)
      ELSE Approvers(v) = {}

\* The audit events of a version end in the status it has.
AuditTellsStatus ==
  \A v \in Version :
    version[v].status = IF events[v] = <<>> THEN "absent" ELSE Latest(events[v]).to

\* Every active version is in the activation history, with a person who approved
\* it, and a version that is active does not carry a retirement date.
HistoryTellsActive ==
  /\ \A k \in DOMAIN history : history[k].by \in Approvers(history[k].version)
  /\ \A v \in Active : /\ ~version[v].retiredAt
                       /\ \E k \in DOMAIN history : history[k].version = v

(* With one command at a time. *)

\* docs/specs/alpha-research-loop.md: only one strategy is active at a time.
SingleActive == Cardinality(Active) <= 1

\* Each audit event starts from the status the one before it ended in.
AuditChain ==
  \A v \in Version : \A k \in DOMAIN events[v] :
    events[v][k].from = IF k = 1 THEN None ELSE events[v][k - 1].to

\* The activation history is a chain: each row names the row before it as the
\* strategy it replaced, and the last row is the strategy that is active.
HistoryChain ==
  /\ \A k \in DOMAIN history :
       history[k].previous = IF k = 1 THEN None ELSE history[k - 1].version
  /\ Active = IF history = <<>> THEN {} ELSE {Latest(history).version}

\* Nothing is missing from either trail.
TrailsUnbroken == AuditChain /\ HistoryChain

\* With one command at a time the registry implements StrategyLifecycle: no
\* version is demoted or activated twice, and the active one is never lost.
Lifecycle == INSTANCE StrategyLifecycle WITH status <- [v \in Version |-> version[v].status]
LifecycleSpec == Lifecycle!Spec
=============================================================================
