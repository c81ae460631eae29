----------------------- MODULE StrategyRegistryProofs -----------------------
(***************************************************************************)
(* Theorems about StrategyRegistry for every set of processes, versions,   *)
(* proposals, persons and verdicts: what holds however the commands of     *)
(* several processes are interleaved, and what holds when they are not.    *)
(* Then theorems about ResearchLoop, for every set of researchers.         *)
(***************************************************************************)
EXTENDS ResearchLoop, SequenceTheorems, FiniteSetTheorems, TLAPS

\* What a version has become once a person approved it.
Certified == {"approved", "active", "retired"}

Approving == {"approveVerdict", "approveWrite"}
Granted == {"activatePrevious", "activateSelect", "activateWrite"}

\* A command at work names a version, and a person where it will write one.
Named ==
  \A p \in Process :
    /\ pc[p] # "idle" => op[p].target \in Version
    /\ pc[p] \in Approving \cup Granted => op[p].by \in Person

TypeInv == TypeOK /\ Named

\* A program that records verdicts does to the tables what record_judge_verdict does.
VerdictsGrow ==
  /\ verdicts \subseteq verdicts' /\ verdicts' \subseteq JudgeVerdict
  /\ UNCHANGED <<version, proposals, approvals, history, events, pc, op>>

\* A command of the registry, or such a program: the invariants below hold next to both.
AnyNext == Next \/ VerdictsGrow

\* What a command has read stays true until it writes: a version once proposed keeps
\* its proposal, a verdict is never taken back and what is certified stays so.
HoldsFor(p) ==
  /\ pc[p] \in Approving => version[op[p].target].status # "absent"
  /\ pc[p] = "approveWrite" => Passed(op[p].target)
  /\ pc[p] \in Granted => /\ version[op[p].target].status \in Certified
                          /\ op[p].by \in Approvers(op[p].target)
  /\ pc[p] = "activateWrite" => \A v \in op[p].active : version[v].status \in Certified

OpHolds == \A p \in Process : HoldsFor(p)

\* GovernedStatus says of every version ...
Governed(v) ==
  IF version[v].status \in Certified
    THEN /\ \E j \in verdicts : /\ j.version = v
                                /\ j.proposal = version[v].proposal
                                /\ j.gate = "passed"
         /\ version[v].approvedBy \in Approvers(v)
    ELSE Approvers(v) = {}

GateInv == TypeInv /\ OpHolds /\ \A v \in Version : Governed(v)
-----------------------------------------------------------------------------
LEMMA NoRowIsRow == NoRow \in Row
BY DEF NoRow, Row, Status

LEMMA NoOpIsOp == NoOp \in Op
BY DEF NoOp, Op, Status

LEMMA LeaveIsTyped ==
  ASSUME TypeInv, NEW p \in Process, Leave(p)
  PROVE  pc' \in [Process -> Point] /\ op' \in [Process -> Op] /\ Named'
BY NoOpIsOp DEF TypeInv, TypeOK, Leave, Goto, Named, Point, Approving, Granted

\* The type invariant and the names of the commands hold at first ...
LEMMA TypeInit == Init => TypeInv
BY NoRowIsRow, NoOpIsOp DEF Init, TypeInv, TypeOK, Named, Point, Approving, Granted

LEMMA LogIsTyped ==
  ASSUME TypeOK, NEW v \in Version, NEW from \in Status \cup {None}, NEW to \in Status
  PROVE  Log(v, from, to) \in Seq(Event)
<1>1. events[v] \in Seq(Event) /\ [from |-> from, to |-> to] \in Event
  BY DEF TypeOK, Event
<1>2. QED
  BY <1>1, AppendProperties DEF Log

\* ... and after every step of a process.
LEMMA TypeStep == TypeInv /\ [AnyNext]_vars => TypeInv'
<1> SUFFICES ASSUME TypeInv, [AnyNext]_vars PROVE TypeInv'
  OBVIOUS
<1> USE DEF TypeInv
<1>1. CASE UNCHANGED vars
  BY <1>1 DEF TypeOK, Named, vars, table
<1>2. CASE Next
  <2>1. PICK p \in Process : Step(p)
    BY <1>2 DEF Next
  <2>2. ASSUME NEW v \in Version, NEW proposal \in Proposal, Propose(p, v, proposal)
        PROVE  TypeInv'
    <3>1. Log(v, None, "candidate") \in Seq(Event)
      BY LogIsTyped DEF Status
    <3>2. version' \in [Version -> Row]
      <4>1. \A r \in Row : [r EXCEPT !.status = "candidate", !.proposal = proposal] \in Row
        BY DEF Row, Status
      <4>2. QED
        BY <2>2, <4>1 DEF Propose, TypeOK
    <3>3. QED
      BY <2>2, <3>1, <3>2 DEF Propose, TypeOK, Named
  <2>3. ASSUME NEW v \in Version, NEW person \in Person, BeginApprove(p, v, person)
        PROVE  TypeInv'
    <3>1. [NoOp EXCEPT !.target = v, !.by = person, !.status = "candidate"] \in Op
      BY NoOpIsOp DEF Op, Status, NoOp
    <3>2. QED
      BY <2>3, <3>1 DEF BeginApprove, TypeOK, Named, Goto, table, Point, Approving, Granted, NoOp
  <2>4. ASSUME NEW v \in Version, BeginActivate(p, v)
        PROVE  TypeInv'
    <3>1. [NoOp EXCEPT !.target = v, !.status = version[v].status] \in Op
      BY NoOpIsOp DEF Op, NoOp, TypeOK, Row
    <3>2. QED
      BY <2>4, <3>1 DEF BeginActivate, TypeOK, Named, Goto, table, Point, Approving, Granted, NoOp
  <2>5. ASSUME NEW verdict \in Judged, RecordVerdict(p, verdict)
        PROVE  TypeInv'
    BY <2>5, RegistryAssumption DEF RecordVerdict, TypeOK, Named
  <2>6. CASE ApproveVerdict(p)
    BY <2>6 DEF ApproveVerdict, TypeOK, Named, Goto, table, Point, Approving, Granted
  <2>7. CASE ApproveWrite(p)
    <3>1. op[p].target \in Version /\ op[p].by \in Person /\ op[p].status \in Status
      BY <2>7 DEF ApproveWrite, Named, Approving, TypeOK, Op
    <3>2. approvals' \in Seq(Approval)
      BY <2>7, <3>1, AppendProperties DEF ApproveWrite, TypeOK, Approval
    <3>3. events' \in [Version -> Seq(Event)]
      BY <2>7, <3>1, LogIsTyped DEF ApproveWrite, TypeOK, Status
    <3>4. version' \in [Version -> Row]
      <4>1. \A r \in Row : [r EXCEPT !.status = "approved", !.approvedBy = op[p].by] \in Row
        BY <3>1 DEF Row, Status
      <4>2. QED
        BY <2>7, <3>1, <4>1 DEF ApproveWrite, TypeOK
    <3>5. QED
      BY <2>7, <3>2, <3>3, <3>4, LeaveIsTyped DEF ApproveWrite, TypeOK
  <2>8. CASE ActivateApproval(p)
    <3>1. PICK k \in ApprovalsOf(op[p].target) : op' = [op EXCEPT ![p].by = approvals[k].by]
      BY <2>8 DEF ActivateApproval
    <3>2. approvals[k].by \in Person
      <4>1. approvals \in Seq(Approval) /\ k \in 1 .. Len(approvals)
        BY <3>1 DEF ApprovalsOf, TypeOK
      <4>2. approvals[k] \in Approval
        BY <4>1, ElementOfSeq
      <4>3. QED
        BY <4>2 DEF Approval
    <3>3. op' \in [Process -> Op]
      <4>1. \A o \in Op : [o EXCEPT !.by = approvals[k].by] \in Op
        BY <3>2 DEF Op
      <4>2. QED
        BY <3>1, <4>1 DEF TypeOK
    <3>4. /\ op'[p].target = op[p].target /\ op'[p].by \in Person
          /\ \A q \in Process \ {p} : op'[q] = op[q]
      BY <3>1, <3>2 DEF TypeOK, Op
    <3>5. QED
      BY <2>8, <3>3, <3>4 DEF ActivateApproval, TypeOK, Named, Goto, table, Point, Approving, Granted
  <2>9. CASE ActivatePrevious(p)
    <3>1. op' = op \/ \E v \in Version : op' = [op EXCEPT ![p].previous = v]
      BY <2>9 DEF ActivatePrevious, Active
    <3>2. op' \in [Process -> Op]
      <4>1. \A o \in Op, v \in Version : [o EXCEPT !.previous = v] \in Op
        BY DEF Op
      <4>2. ASSUME NEW v \in Version, op' = [op EXCEPT ![p].previous = v]
            PROVE  op' \in [Process -> Op]
        BY <4>1, <4>2 DEF TypeOK
      <4>3. QED
        BY <3>1, <4>2 DEF TypeOK
    <3>3. \A q \in Process : op'[q].target = op[q].target /\ op'[q].by = op[q].by
      <4>1. \A o \in Op, v \in Version : \A n :
              n = [o EXCEPT !.previous = v] => n.target = o.target /\ n.by = o.by
        BY DEF Op
      <4>2. \A q \in Process : \/ op'[q] = op[q]
                             \/ \E v \in Version : op'[q] = [op[q] EXCEPT !.previous = v]
        BY <3>1 DEF TypeOK
      <4>3. \A q \in Process : op[q] \in Op
        BY DEF TypeOK
      <4>4. ASSUME NEW q \in Process
            PROVE  op'[q].target = op[q].target /\ op'[q].by = op[q].by
        <5>1. CASE op'[q] = op[q]
          BY <5>1
        <5>2. ASSUME NEW v \in Version, op'[q] = [op[q] EXCEPT !.previous = v]
              PROVE  op'[q].target = op[q].target /\ op'[q].by = op[q].by
          BY <4>1, <4>3, <5>2
        <5>3. QED
          BY <4>2, <5>1, <5>2
      <4>5. QED
        BY <4>4
    <3>4. QED
      BY <2>9, <3>2, <3>3 DEF ActivatePrevious, TypeOK, Named, Goto, table, Point, Approving, Granted
  <2>10. CASE ActivateSelect(p)
    BY <2>10, ZenonT(30) DEF ActivateSelect, TypeOK, Named, Goto, table, Point, Op, Active, Approving, Granted
  <2>11. CASE ActivateWrite(p)
    <3>1. /\ op[p].target \in Version /\ op[p].by \in Person /\ op[p].status \in Status
          /\ op[p].previous \in Version \cup {None}
      BY <2>11 DEF ActivateWrite, Named, Granted, TypeOK, Op
    <3>2. history' \in Seq(Activation)
      BY <2>11, <3>1, AppendProperties DEF ActivateWrite, TypeOK, Activation
    <3>3. events' \in [Version -> Seq(Event)]
      <4>1. \A w \in Version : /\ Log(w, op[p].status, "active") \in Seq(Event)
                               /\ Log(w, "active", "retired") \in Seq(Event)
        BY <3>1, LogIsTyped DEF Status
      <4>2. QED
        BY <2>11, <4>1 DEF ActivateWrite, TypeOK
    <3>4. version' \in [Version -> Row]
      <4>1. \A r \in Row :
              /\ [r EXCEPT !.status = "active", !.approvedBy = op[p].by, !.retiredAt = FALSE] \in Row
              /\ [r EXCEPT !.status = "retired", !.retiredAt = TRUE] \in Row
        BY <3>1 DEF Row, Status
      <4>2. QED
        BY <2>11, <4>1 DEF ActivateWrite, TypeOK
    <3>5. QED
      BY <2>11, <3>2, <3>3, <3>4, LeaveIsTyped DEF ActivateWrite, TypeOK
  <2>12. CASE Abandon(p)
    BY <2>12, LeaveIsTyped DEF Abandon, TypeOK, table
  <2>13. QED
    BY <2>1, <2>2, <2>3, <2>4, <2>5, <2>6, <2>7, <2>8, <2>9, <2>10, <2>11, <2>12 DEF Step
<1>3. CASE VerdictsGrow
  BY <1>3 DEF VerdictsGrow, TypeOK, Named
<1>4. QED
  BY <1>1, <1>2, <1>3 DEF AnyNext

\* Every field of the registry and of its commands holds a value of its type, and a
\* command that will write names a version and a person.
THEOREM RegistryTypeCorrect == Spec => []TypeInv
<1>1. [Next]_vars => [AnyNext]_vars
  BY DEF AnyNext
<1>2. QED
  BY <1>1, TypeInit, TypeStep, PTL DEF Spec
-----------------------------------------------------------------------------
(* What no command ever takes back. *)

\* A new approval adds its person to the approvers of its version, and no other.
LEMMA ApproversGrow ==
  ASSUME TypeOK, NEW a \in Approval, approvals' = Append(approvals, a), NEW v
  PROVE  Approvers(v)' = Approvers(v) \cup (IF a.version = v THEN {a.by} ELSE {})
<1>1. /\ approvals \in Seq(Approval)
      /\ DOMAIN approvals = 1 .. Len(approvals)
      /\ DOMAIN approvals' = 1 .. (Len(approvals) + 1)
      /\ \A k \in 1 .. Len(approvals) : approvals'[k] = approvals[k]
      /\ approvals'[Len(approvals) + 1] = a
      /\ Len(approvals) \in Nat
  BY AppendProperties DEF TypeOK
<1>2. \A k : k \in 1 .. (Len(approvals) + 1) <=>
               k \in 1 .. Len(approvals) \/ k = Len(approvals) + 1
  BY <1>1
<1>3. \A k : k \in ApprovalsOf(v)' <=>
               \/ k \in ApprovalsOf(v)
               \/ k = Len(approvals) + 1 /\ a.version = v
  BY <1>1, <1>2 DEF ApprovalsOf
<1>4. \A k \in ApprovalsOf(v) : approvals'[k] = approvals[k]
  BY <1>1 DEF ApprovalsOf
<1>5. QED
  BY <1>1, <1>3, <1>4 DEF Approvers

\* Verdicts and approvers stay, and so do the proposal of a version and its certificate.
Kept ==
  /\ verdicts \subseteq verdicts'
  /\ \A v \in Version :
       /\ Approvers(v) \subseteq Approvers(v)'
       /\ version[v].status # "absent" =>
            /\ version'[v].status # "absent"
            /\ version'[v].proposal = version[v].proposal
       /\ version[v].status \in Certified => version'[v].status \in Certified

LEMMA ApproversSame ==
  ASSUME approvals' = approvals
  PROVE  \A v : Approvers(v)' = Approvers(v)
BY DEF Approvers, ApprovalsOf

LEMMA TableKept ==
  ASSUME UNCHANGED table
  PROVE  Kept
BY ApproversSame DEF Kept, table

LEMMA StepKeeps == TypeInv /\ [AnyNext]_vars => Kept
<1> SUFFICES ASSUME TypeInv, [AnyNext]_vars PROVE Kept
  OBVIOUS
<1> USE DEF TypeInv
<1>1. CASE UNCHANGED vars
  BY <1>1, TableKept DEF vars, table
<1>2. CASE Next
  <2>1. PICK p \in Process : Step(p)
    BY <1>2 DEF Next
  <2>2. ASSUME NEW v \in Version, NEW proposal \in Proposal, Propose(p, v, proposal)
        PROVE  Kept
    BY <2>2, ApproversSame DEF Propose, Kept, TypeOK, Row, Certified
  <2>3. ASSUME NEW verdict \in Judged, RecordVerdict(p, verdict)
        PROVE  Kept
    BY <2>3, ApproversSame DEF RecordVerdict, Kept
  <2>4. CASE ApproveWrite(p)
    <3>1. op[p].target \in Version /\ op[p].by \in Person
      BY <2>4 DEF ApproveWrite, Named, Approving
    <3>2. [version |-> op[p].target, by |-> op[p].by] \in Approval
      BY <3>1 DEF Approval
    <3>3. \A v \in Version : Approvers(v) \subseteq Approvers(v)'
      BY <2>4, <3>2, ApproversGrow DEF ApproveWrite
    <3>4. \A v \in Version : /\ version'[v].proposal = version[v].proposal
                            /\ version'[v].status = IF v = op[p].target THEN "approved"
                                                     ELSE version[v].status
      BY <2>4, <3>1 DEF ApproveWrite, TypeOK, Row
    <3>5. verdicts' = verdicts
      BY <2>4 DEF ApproveWrite
    <3>6. QED
      BY <3>3, <3>4, <3>5 DEF Kept, Certified
  <2>5. CASE ActivateWrite(p)
    <3>1. \A v \in Version :
            /\ version'[v].proposal = version[v].proposal
            /\ version'[v].status = IF v = op[p].target THEN "active"
                                    ELSE IF v \in op[p].active THEN "retired"
                                    ELSE version[v].status
      BY <2>5 DEF ActivateWrite, TypeOK, Row
    <3>2. verdicts' = verdicts /\ approvals' = approvals
      BY <2>5 DEF ActivateWrite
    <3>3. QED
      BY <3>1, <3>2, ApproversSame DEF Kept, Certified
  <2>6. CASE UNCHANGED table
    BY <2>6, TableKept
  <2>7. QED
    BY <2>1, <2>2, <2>3, <2>4, <2>5, <2>6
       DEF Step, BeginApprove, BeginActivate, ApproveVerdict, ActivateApproval,
           ActivatePrevious, ActivateSelect, Abandon
<1>3. CASE VerdictsGrow
  BY <1>3, ApproversSame DEF VerdictsGrow, Kept
<1>4. QED
  BY <1>1, <1>2, <1>3 DEF AnyNext
-----------------------------------------------------------------------------
(* The gate: no interleaving gets a version past it. *)

LEMMA GateInit == Init => GateInv
<1> SUFFICES ASSUME Init PROVE GateInv
  OBVIOUS
<1>1. TypeInv
  BY TypeInit
<1>2. OpHolds
  BY DEF Init, OpHolds, HoldsFor, Approving, Granted
<1>3. \A v \in Version : Governed(v)
  BY DEF Init, Governed, Approvers, ApprovalsOf, NoRow, Certified
<1>4. QED
  BY <1>1, <1>2, <1>3 DEF GateInv

\* Whatever the others write, what a waiting command has read stays true.
LEMMA WaitingHolds ==
  ASSUME TypeInv, Kept, NEW q \in Process, HoldsFor(q), op'[q] = op[q], pc'[q] = pc[q]
  PROVE  HoldsFor(q)'
<1>1. pc[q] # "idle" => op[q].target \in Version
  BY DEF TypeInv, Named
<1>2. op[q].active \subseteq Version
  BY DEF TypeInv, TypeOK, Op
<1>3. pc[q] = "approveWrite" => Passed(op[q].target)'
  BY <1>1 DEF HoldsFor, Passed, Kept, Approving
<1>4. QED
  BY <1>1, <1>2, <1>3 DEF HoldsFor, Kept, Approving, Granted

LEMMA HoldsStep ==
  ASSUME GateInv, TypeInv', Kept, [AnyNext]_vars
  PROVE  OpHolds'
<1> USE DEF GateInv, OpHolds
<1>1. CASE UNCHANGED vars
  BY <1>1, WaitingHolds DEF vars
<1>2. CASE Next
  <2>1. PICK p \in Process : Step(p)
    BY <1>2 DEF Next
  <2>2. \A q \in Process \ {p} : op'[q] = op[q] /\ pc'[q] = pc[q]
    BY <2>1 DEF Step, Propose, RecordVerdict, BeginApprove, ApproveVerdict, ApproveWrite,
                BeginActivate, ActivateApproval, ActivatePrevious, ActivateSelect,
                ActivateWrite, Abandon, Leave, Goto, TypeInv, TypeOK
  <2>3. SUFFICES HoldsFor(p)'
    BY <2>2, WaitingHolds
  <2>4. ASSUME UNCHANGED <<pc, op>> PROVE HoldsFor(p)'
    BY <2>4, WaitingHolds
  <2>5. ASSUME Leave(p) PROVE HoldsFor(p)'
    BY <2>5 DEF Leave, Goto, HoldsFor, Approving, Granted, TypeInv, TypeOK
  <2>6. ASSUME NEW v \in Version, NEW person \in Person, BeginApprove(p, v, person)
        PROVE  HoldsFor(p)'
    <3>1. op'[p].target = v /\ pc'[p] = "approveVerdict"
      BY <2>6 DEF BeginApprove, Goto, TypeInv, TypeOK, NoOp
    <3>2. version'[v].status = "candidate"
      BY <2>6 DEF BeginApprove, table
    <3>3. QED
      BY <3>1, <3>2 DEF HoldsFor, Approving, Granted
  <2>7. ASSUME NEW v \in Version, BeginActivate(p, v)
        PROVE  HoldsFor(p)'
    BY <2>7 DEF BeginActivate, Goto, TypeInv, TypeOK, HoldsFor, Approving, Granted
  <2>8. CASE ApproveVerdict(p)
    BY <2>8 DEF ApproveVerdict, Goto, TypeInv, TypeOK, HoldsFor, Approving, Granted, table, Passed
  <2>9. CASE ActivateApproval(p)
    <3>1. PICK k \in ApprovalsOf(op[p].target) : op' = [op EXCEPT ![p].by = approvals[k].by]
      BY <2>9 DEF ActivateApproval
    <3>2. op'[p].target = op[p].target /\ op'[p].by = approvals[k].by
      BY <3>1 DEF TypeInv, TypeOK, Op
    <3>3. approvals[k].by \in Approvers(op[p].target)
      BY <3>1 DEF Approvers
    <3>4. op[p].target \in Version
      BY <2>9 DEF ActivateApproval, TypeInv, Named
    <3>5. version[op[p].target].status \in Certified
      BY <3>3, <3>4 DEF Governed
    <3>6. pc'[p] = "activatePrevious" /\ UNCHANGED table
      BY <2>9 DEF ActivateApproval, Goto, TypeInv, TypeOK
    <3>7. QED
      BY <3>2, <3>3, <3>5, <3>6, ApproversSame DEF HoldsFor, Approving, Granted, table
  <2>10. CASE ActivatePrevious(p)
    <3>1. op'[p] = op[p] \/ \E v \in Version : op'[p] = [op[p] EXCEPT !.previous = v]
      BY <2>10 DEF ActivatePrevious, Active, TypeInv, TypeOK
    <3>2. op'[p].target = op[p].target /\ op'[p].by = op[p].by
      <4>1. op[p] \in Op
        BY DEF TypeInv, TypeOK
      <4>2. \A o \in Op, v \in Version : \A n :
              n = [o EXCEPT !.previous = v] => n.target = o.target /\ n.by = o.by
        BY DEF Op
      <4>3. ASSUME NEW v \in Version, op'[p] = [op[p] EXCEPT !.previous = v]
            PROVE  op'[p].target = op[p].target /\ op'[p].by = op[p].by
        BY <4>1, <4>2, <4>3
      <4>4. QED
        BY <3>1, <4>3
    <3>3. pc[p] \in Granted /\ pc'[p] = "activateSelect" /\ UNCHANGED table
      BY <2>10 DEF ActivatePrevious, Goto, TypeInv, TypeOK, Granted
    <3>4. QED
      BY <3>2, <3>3, ApproversSame DEF HoldsFor, Approving, Granted, table
  <2>11. CASE ActivateSelect(p)
    <3>1. /\ op'[p].target = op[p].target /\ op'[p].by = op[p].by
          /\ op'[p].active = Active \ {op[p].target}
      BY <2>11 DEF ActivateSelect, TypeInv, TypeOK, Op
    <3>2. pc[p] \in Granted /\ pc'[p] = "activateWrite" /\ UNCHANGED table
      BY <2>11 DEF ActivateSelect, Goto, TypeInv, TypeOK, Granted
    <3>3. QED
      BY <3>1, <3>2, ApproversSame DEF HoldsFor, Approving, Granted, table, Active, Certified
  <2>12. QED
    BY <2>1, <2>4, <2>5, <2>6, <2>7, <2>8, <2>9, <2>10, <2>11
       DEF Step, Propose, RecordVerdict, ApproveWrite, ActivateWrite, Abandon
<1>3. CASE VerdictsGrow
  BY <1>3, WaitingHolds DEF VerdictsGrow
<1>4. QED
  BY <1>1, <1>2, <1>3 DEF AnyNext

LEMMA GovernedStep ==
  ASSUME GateInv, Kept, [AnyNext]_vars, NEW v \in Version
  PROVE  Governed(v)'
<1> USE DEF GateInv, TypeInv
<1>1. CASE UNCHANGED table
  BY <1>1, ApproversSame DEF table, Governed
<1>2. CASE Next
  <2>1. PICK p \in Process : Step(p)
    BY <1>2 DEF Next
  <2>2. ASSUME NEW w \in Version, NEW proposal \in Proposal, Propose(p, w, proposal)
        PROVE  Governed(v)'
    <3>1. v # w => version'[v] = version[v]
      BY <2>2 DEF Propose, TypeOK
    <3>2. version[w].status \notin Certified /\ version'[w].status \notin Certified
      BY <2>2 DEF Propose, TypeOK, Row, Certified
    <3>3. verdicts' = verdicts /\ approvals' = approvals
      BY <2>2 DEF Propose
    <3>4. QED
      BY <3>1, <3>2, <3>3, ApproversSame DEF Governed
  <2>3. ASSUME NEW verdict \in Judged, RecordVerdict(p, verdict)
        PROVE  Governed(v)'
    BY <2>3, ApproversSame DEF RecordVerdict, Governed
  <2>4. CASE ApproveWrite(p)
    <3> DEFINE w == op[p].target
               a == [version |-> w, by |-> op[p].by]
    <3>1. w \in Version /\ op[p].by \in Person
      BY <2>4 DEF ApproveWrite, Named, Approving
    <3>2. a \in Approval
      BY <3>1 DEF Approval
    <3>3. Approvers(v)' = Approvers(v) \cup (IF w = v THEN {op[p].by} ELSE {})
      BY <2>4, <3>2, ApproversGrow DEF ApproveWrite
    <3>4. CASE v = w
      <4>1. Passed(v)
        BY <2>4, <3>4 DEF ApproveWrite, OpHolds, HoldsFor
      <4>2. /\ version'[v].status = "approved" /\ version'[v].approvedBy = op[p].by
            /\ version'[v].proposal = version[v].proposal
        BY <2>4, <3>4 DEF ApproveWrite, TypeOK, Row
      <4>3. verdicts' = verdicts
        BY <2>4 DEF ApproveWrite
      <4>4. QED
        BY <3>3, <3>4, <4>1, <4>2, <4>3 DEF Governed, Passed, Certified
    <3>5. CASE v # w
      <4>1. version'[v] = version[v] /\ verdicts' = verdicts
        BY <2>4, <3>5 DEF ApproveWrite, TypeOK
      <4>2. QED
        BY <3>3, <3>5, <4>1 DEF Governed
    <3>6. QED
      BY <3>4, <3>5
  <2>5. CASE ActivateWrite(p)
    <3>1. verdicts' = verdicts /\ approvals' = approvals
      BY <2>5 DEF ActivateWrite
    <3>2. CASE v = op[p].target
      <4>1. version[v].status \in Certified /\ op[p].by \in Approvers(v)
        BY <2>5, <3>2 DEF ActivateWrite, OpHolds, HoldsFor, Granted
      <4>2. /\ version'[v].status = "active" /\ version'[v].approvedBy = op[p].by
            /\ version'[v].proposal = version[v].proposal
        BY <2>5, <3>2, ZenonT(30) DEF ActivateWrite, TypeOK, Row
      <4>3. QED
        BY <3>1, <4>1, <4>2, ApproversSame DEF Governed, Certified
    <3>3. CASE v # op[p].target /\ v \in op[p].active
      <4>1. version[v].status \in Certified
        BY <2>5, <3>3 DEF ActivateWrite, OpHolds, HoldsFor
      <4>2. /\ version'[v].status = "retired" /\ version'[v].approvedBy = version[v].approvedBy
            /\ version'[v].proposal = version[v].proposal
        BY <2>5, <3>3 DEF ActivateWrite, TypeOK, Row
      <4>3. QED
        BY <3>1, <4>1, <4>2, ApproversSame DEF Governed, Certified
    <3>4. CASE v # op[p].target /\ v \notin op[p].active
      <4>1. version'[v] = version[v]
        BY <2>5, <3>4 DEF ActivateWrite
      <4>2. QED
        BY <3>1, <4>1, ApproversSame DEF Governed
    <3>5. QED
      BY <3>2, <3>3, <3>4
  <2>6. QED
    BY <1>1, <2>1, <2>2, <2>3, <2>4, <2>5
       DEF Step, BeginApprove, BeginActivate, ApproveVerdict, ActivateApproval,
           ActivatePrevious, ActivateSelect, Abandon
<1>3. CASE VerdictsGrow
  BY <1>3, ApproversSame DEF VerdictsGrow, Governed
<1>4. QED
  BY <1>1, <1>2, <1>3 DEF AnyNext, vars, table

LEMMA GateStep == GateInv /\ [AnyNext]_vars => GateInv'
<1> SUFFICES ASSUME GateInv, [AnyNext]_vars PROVE GateInv'
  OBVIOUS
<1>1. TypeInv'
  BY TypeStep DEF GateInv
<1>2. Kept
  BY StepKeeps DEF GateInv
<1>3. OpHolds'
  BY <1>1, <1>2, HoldsStep
<1>4. QED
  BY <1>1, <1>2, <1>3, GovernedStep DEF GateInv

\* However the commands of any number of processes are interleaved, nothing is approved,
\* active or retired without a passed verdict on the very proposal it came from and a
\* person who approved this version, although every transaction checks nothing: what a
\* command has checked before it is never taken back.
THEOREM GateHolds == Spec => []GovernedStatus
<1>1. GateInv => GovernedStatus
  BY DEF GateInv, Governed, GovernedStatus, Certified
<1>2. [Next]_vars => [AnyNext]_vars
  BY DEF AnyNext
<1>3. QED
  BY <1>1, <1>2, GateInit, GateStep, PTL DEF Spec
-----------------------------------------------------------------------------
(* The trails of the audit events and of the activations. *)

LEMMA LogEnds ==
  ASSUME TypeOK, NEW v \in Version, NEW from \in Status \cup {None}, NEW to \in Status
  PROVE  Log(v, from, to) # <<>> /\ Latest(Log(v, from, to)).to = to
<1>1. events[v] \in Seq(Event) /\ [from |-> from, to |-> to] \in Event
  BY DEF TypeOK, Event
<1>2. /\ Len(Log(v, from, to)) = Len(events[v]) + 1
      /\ Log(v, from, to)[Len(events[v]) + 1] = [from |-> from, to |-> to]
      /\ Len(events[v]) \in Nat
  BY <1>1, AppendProperties DEF Log
<1>3. QED
  BY <1>2 DEF Latest

Told(v) == version[v].status = IF events[v] = <<>> THEN "absent" ELSE Latest(events[v]).to

AuditInv == TypeInv /\ \A v \in Version : Told(v)

LEMMA AuditInit == Init => AuditInv
BY TypeInit DEF Init, AuditInv, Told, NoRow

LEMMA AuditStep == AuditInv /\ [AnyNext]_vars => AuditInv'
<1> SUFFICES ASSUME AuditInv, [AnyNext]_vars, NEW v \in Version PROVE Told(v)'
  BY TypeStep DEF AuditInv
<1> USE DEF AuditInv, TypeInv
<1>1. CASE UNCHANGED <<version, events>>
  BY <1>1 DEF Told
<1>2. CASE Next
  <2>1. PICK p \in Process : Step(p)
    BY <1>2 DEF Next
  <2>2. ASSUME version'[v] = version[v], events'[v] = events[v]
        PROVE  Told(v)'
    BY <2>2 DEF Told
  <2>3. ASSUME NEW from \in Status \cup {None}, NEW to \in Status,
               events'[v] = Log(v, from, to), version'[v].status = to
        PROVE  Told(v)'
    BY <2>3, LogEnds DEF Told
  <2>4. ASSUME NEW w \in Version, NEW proposal \in Proposal, Propose(p, w, proposal)
        PROVE  Told(v)'
    <3>1. CASE v = w
      <4>1. events'[v] = Log(v, None, "candidate") /\ version'[v].status = "candidate"
        BY <2>4, <3>1 DEF Propose, TypeOK, Row
      <4>2. QED
        BY <2>3, <4>1 DEF Status
    <3>2. CASE v # w
      BY <2>2, <2>4, <3>2 DEF Propose, TypeOK
    <3>3. QED
      BY <3>1, <3>2
  <2>5. CASE ApproveWrite(p)
    <3>1. op[p].target \in Version /\ op[p].status \in Status
      BY <2>5 DEF ApproveWrite, Named, Approving, TypeOK, Op
    <3>2. CASE v = op[p].target
      <4>1. events'[v] = Log(v, op[p].status, "approved") /\ version'[v].status = "approved"
        BY <2>5, <3>2 DEF ApproveWrite, TypeOK, Row
      <4>2. QED
        BY <2>3, <3>1, <4>1 DEF Status
    <3>3. CASE v # op[p].target
      BY <2>2, <2>5, <3>3 DEF ApproveWrite, TypeOK
    <3>4. QED
      BY <3>2, <3>3
  <2>6. CASE ActivateWrite(p)
    <3>1. op[p].status \in Status
      BY DEF TypeOK, Op
    <3>2. CASE v = op[p].target
      <4>1. events'[v] = Log(v, op[p].status, "active") /\ version'[v].status = "active"
        BY <2>6, <3>2 DEF ActivateWrite, TypeOK, Row
      <4>2. QED
        BY <2>3, <3>1, <4>1 DEF Status
    <3>3. CASE v # op[p].target /\ v \in op[p].active
      <4>1. events'[v] = Log(v, "active", "retired") /\ version'[v].status = "retired"
        BY <2>6, <3>3 DEF ActivateWrite, TypeOK, Row
      <4>2. QED
        BY <2>3, <4>1 DEF Status
    <3>4. CASE v # op[p].target /\ v \notin op[p].active
      BY <2>2, <2>6, <3>4 DEF ActivateWrite
    <3>5. QED
      BY <3>2, <3>3, <3>4
  <2>7. QED
    BY <1>1, <2>1, <2>4, <2>5, <2>6
       DEF Step, RecordVerdict, BeginApprove, BeginActivate, ApproveVerdict, ActivateApproval,
           ActivatePrevious, ActivateSelect, Abandon, table
<1>3. QED
  BY <1>1, <1>2 DEF AnyNext, VerdictsGrow, vars, table

\* The audit events of every version end in the status it has, whoever wrote last.
THEOREM AuditHolds == Spec => []AuditTellsStatus
<1>1. AuditInv => AuditTellsStatus
  BY DEF AuditInv, Told, AuditTellsStatus
<1>2. [Next]_vars => [AnyNext]_vars
  BY DEF AnyNext
<1>3. QED
  BY <1>1, <1>2, AuditInit, AuditStep, PTL DEF Spec

HistoryInv == GateInv /\ HistoryTellsActive

LEMMA HistoryInit == Init => HistoryInv
BY GateInit DEF Init, HistoryInv, HistoryTellsActive, Active, NoRow

LEMMA HistoryStep == HistoryInv /\ [AnyNext]_vars => HistoryInv'
<1> SUFFICES ASSUME HistoryInv, [AnyNext]_vars PROVE HistoryTellsActive'
  BY GateStep DEF HistoryInv
<1> USE DEF HistoryInv, GateInv, TypeInv
<1>1. Kept
  BY StepKeeps
<1>2. /\ history \in Seq(Activation)
      /\ DOMAIN history = 1 .. Len(history)
      /\ \A k \in DOMAIN history : history[k].version \in Version
  <2>1. history \in Seq(Activation)
    BY DEF TypeOK
  <2>2. \A k \in 1 .. Len(history) : history[k] \in Activation
    BY <2>1, ElementOfSeq
  <2>3. QED
    BY <2>1, <2>2, LenProperties DEF Activation
<1>3. ASSUME history' = history,
             \A v \in Version : version'[v].status = "active" =>
                                 version[v].status = "active" /\ version'[v] = version[v]
      PROVE  HistoryTellsActive'
  BY <1>1, <1>2, <1>3 DEF HistoryTellsActive, Active, Kept
<1>4. CASE UNCHANGED <<version, history>>
  BY <1>3, <1>4
<1>5. CASE Next
  <2>1. PICK p \in Process : Step(p)
    BY <1>5 DEF Next
  <2>2. ASSUME NEW w \in Version, NEW proposal \in Proposal, Propose(p, w, proposal)
        PROVE  HistoryTellsActive'
    <3>1. \A v \in Version : v = w \/ version'[v] = version[v]
      BY <2>2 DEF Propose, TypeOK
    <3>2. version'[w].status = "candidate" /\ history' = history
      BY <2>2 DEF Propose, TypeOK, Row
    <3>3. QED
      BY <1>3, <3>1, <3>2
  <2>3. CASE ApproveWrite(p)
    <3>1. op[p].target \in Version
      BY <2>3 DEF ApproveWrite, Named
    <3>2. \A v \in Version : v = op[p].target \/ version'[v] = version[v]
      BY <2>3 DEF ApproveWrite, TypeOK
    <3>3. version'[op[p].target].status = "approved" /\ history' = history
      BY <2>3, <3>1 DEF ApproveWrite, TypeOK, Row
    <3>4. QED
      BY <1>3, <3>1, <3>2, <3>3
  <2>4. CASE ActivateWrite(p)
    <3> DEFINE w == op[p].target
               a == [version |-> w, by |-> op[p].by, previous |-> op[p].previous]
    <3>1. /\ w \in Version /\ op[p].by \in Person
          /\ op[p].previous \in Version \cup {None}
          /\ op[p].by \in Approvers(w)
      BY <2>4 DEF ActivateWrite, Named, Granted, OpHolds, HoldsFor, TypeOK, Op
    <3>2. /\ Len(history) \in Nat
          /\ DOMAIN history' = 1 .. (Len(history) + 1)
          /\ \A k \in 1 .. Len(history) : history'[k] = history[k]
          /\ history'[Len(history) + 1] = a
      <4>1. a \in Activation
        BY <3>1 DEF Activation
      <4>2. history' = Append(history, a)
        BY <2>4 DEF ActivateWrite
      <4>3. QED
        BY <1>2, <4>1, <4>2, AppendProperties
    <3>3. \A k \in DOMAIN history' : k \in DOMAIN history \/ k = Len(history) + 1
      BY <1>2, <3>2
    <3>4. \A k \in DOMAIN history : k \in DOMAIN history'
      BY <1>2, <3>2
    <3>5. ASSUME NEW k \in DOMAIN history'
          PROVE  (history[k].by \in Approvers(history[k].version))'
      <4>1. CASE k = Len(history) + 1
        BY <1>1, <3>1, <3>2, <4>1 DEF Kept
      <4>2. CASE k \in DOMAIN history
        <5>1. history[k].by \in Approvers(history[k].version) /\ history[k].version \in Version
          BY <1>2, <4>2 DEF HistoryTellsActive
        <5>2. Approvers(history[k].version) \subseteq Approvers(history[k].version)'
          BY <1>1, <1>2, <3>2, <4>2, <5>1 DEF Kept
        <5>3. QED
          BY <1>2, <3>2, <4>2, <5>1, <5>2
      <4>3. QED
        BY <3>3, <4>1, <4>2
    <3>6. \A v \in Version :
            /\ v = w => ~version'[v].retiredAt
            /\ v # w /\ version'[v].status = "active" => version'[v] = version[v]
      BY <2>4 DEF ActivateWrite, TypeOK, Row
    <3>7. \A v \in Active' : ~version'[v].retiredAt
      BY <3>6 DEF HistoryTellsActive, Active
    <3>8. \A v \in Active' : \E k \in DOMAIN history' : history'[k].version = v
      <4>1. history'[Len(history) + 1].version = w /\ Len(history) + 1 \in DOMAIN history'
        BY <3>2
      <4>2. QED
        BY <1>2, <3>2, <3>4, <3>6, <4>1 DEF HistoryTellsActive, Active
    <3>9. QED
      BY <3>5, <3>7, <3>8 DEF HistoryTellsActive
  <2>5. QED
    BY <1>4, <2>1, <2>2, <2>3, <2>4
       DEF Step, RecordVerdict, BeginApprove, BeginActivate, ApproveVerdict, ActivateApproval,
           ActivatePrevious, ActivateSelect, Abandon, table
<1>6. QED
  BY <1>4, <1>5 DEF AnyNext, VerdictsGrow, vars, table

\* Every activation was recorded with a person who approved that version, and every
\* version that is active is in the history, even when two processes activate at once.
THEOREM HistoryHolds == Spec => []HistoryTellsActive
<1>1. [Next]_vars => [AnyNext]_vars
  BY DEF AnyNext
<1>2. QED
  BY <1>1, HistoryInit, HistoryStep, PTL DEF Spec, HistoryInv
-----------------------------------------------------------------------------
(* With one command at a time. *)

\* No two commands are between their first read and their write at once.  Commands of
\* one transaction (propose, record a verdict) may still come between.
Serial == \A p, q \in Process : pc[p] # "idle" /\ pc[q] # "idle" => p = q

\* Then what a command has read is still so when it writes: the status of its version,
\* the strategy it replaces, and the rows it retires.
Current(p) ==
  LET v == op[p].target IN
    /\ pc[p] # "idle" => op[p].status = version[v].status /\ op[p].status # "absent"
    /\ pc[p] \in Approving => op[p].status = "candidate"
    /\ pc[p] \in Granted => op[p].status = "approved"
    /\ pc[p] \in {"activateApproval", "activatePrevious"} => op[p].previous = None
    /\ pc[p] \in {"activateSelect", "activateWrite"} =>
         Active = IF op[p].previous = None THEN {} ELSE {op[p].previous}
    /\ pc[p] = "activateWrite" => op[p].active = Active \ {v}

\* AuditChain says of every version ...
ChainOf(v) ==
  \A k \in DOMAIN events[v] :
    events[v][k].from = IF k = 1 THEN None ELSE events[v][k - 1].to

Unborn(v) == version[v].status = "absent" => events[v] = <<>>

ChainInv ==
  /\ AuditInv
  /\ \A v \in Version : Unborn(v) /\ ChainOf(v)
  /\ HistoryChain
  /\ \A p \in Process : Current(p)

LEMMA ChainInit == Init => ChainInv
BY AuditInit DEF Init, ChainInv, Unborn, ChainOf, HistoryChain, Active, NoRow, Current,
                 Approving, Granted

\* An event that starts from the status of its version continues the chain.
LEMMA ChainGrows ==
  ASSUME ChainInv, NEW v \in Version, NEW to \in Status,
         NEW from \in Status \cup {None},
         from = IF version[v].status = "absent" THEN None ELSE version[v].status,
         events'[v] = Log(v, from, to)
  PROVE  ChainOf(v)'
<1> DEFINE n == Len(events[v])
<1>1. /\ n \in Nat /\ DOMAIN events[v] = 1 .. n
      /\ DOMAIN events'[v] = 1 .. (n + 1)
      /\ \A k \in 1 .. n : events'[v][k] = events[v][k]
      /\ events'[v][n + 1].from = from
      /\ n = 0 <=> events[v] = <<>>
  <2>1. events[v] \in Seq(Event) /\ [from |-> from, to |-> to] \in Event
    BY DEF ChainInv, AuditInv, TypeInv, TypeOK, Event
  <2>2. QED
    BY <2>1, AppendProperties, LenProperties, EmptySeq DEF Log
<1>2. ASSUME NEW k \in 1 .. n
      PROVE  events'[v][k].from = IF k = 1 THEN None ELSE events'[v][k - 1].to
  <2>1. k = 1 \/ k - 1 \in 1 .. n
    BY <1>1
  <2>2. events[v][k].from = IF k = 1 THEN None ELSE events[v][k - 1].to
    BY <1>1 DEF ChainInv, ChainOf
  <2>3. /\ events'[v][k] = events[v][k]
        /\ k # 1 => events'[v][k - 1] = events[v][k - 1]
    BY <1>1, <2>1
  <2>4. QED
    BY <2>2, <2>3
<1>3. from = IF n = 0 THEN None ELSE events[v][n].to
  BY <1>1 DEF ChainInv, AuditInv, Told, Unborn, Latest
<1>4. events'[v][n + 1].from = IF n + 1 = 1 THEN None ELSE events'[v][n].to
  BY <1>1, <1>3
<1>5. ASSUME NEW k \in 1 .. (n + 1)
      PROVE  events'[v][k].from = IF k = 1 THEN None ELSE events'[v][k - 1].to
  <2>1. k \in 1 .. n \/ (k = n + 1 /\ k - 1 = n)
    BY <1>1, <1>5
  <2>2. QED
    BY <1>2, <1>4, <2>1
<1>6. QED
  BY <1>1, <1>5 DEF ChainOf

\* The status an operator of Op may hold is a status.
LEMMA StatusOfOp ==
  ASSUME TypeOK, NEW p \in Process
  PROVE  op[p].status \in Status /\ op[p].active \subseteq Version
BY DEF TypeOK, Op

\* What a command has read stays current while the statuses stay as they are.
LEMMA WaitingIsCurrent ==
  ASSUME TypeInv, NEW q \in Process, Current(q), op'[q] = op[q], pc'[q] = pc[q],
         Active' = Active,
         pc[q] # "idle" => version'[op[q].target].status = version[op[q].target].status
  PROVE  Current(q)'
BY DEF Current, Approving, Granted

\* The activation history grows by the strategy that replaces the active one.
LEMMA HistoryGrows ==
  ASSUME ChainInv, NEW a \in Activation,
         Active = IF a.previous = None THEN {} ELSE {a.previous},
         history' = Append(history, a), Active' = {a.version}
  PROVE  HistoryChain'
<1> DEFINE n == Len(history)
<1>1. /\ n \in Nat /\ DOMAIN history = 1 .. n
      /\ DOMAIN history' = 1 .. (n + 1) /\ Len(history') = n + 1
      /\ \A k \in 1 .. n : history'[k] = history[k]
      /\ history'[n + 1] = a
      /\ n = 0 <=> history = <<>>
      /\ history' # <<>>
  <2>1. history \in Seq(Activation)
    BY DEF ChainInv, AuditInv, TypeInv, TypeOK
  <2>2. QED
    BY <2>1, AppendProperties, LenProperties, EmptySeq
<1>2. ASSUME NEW k \in 1 .. n
      PROVE  history'[k].previous = IF k = 1 THEN None ELSE history'[k - 1].version
  <2>1. k = 1 \/ k - 1 \in 1 .. n
    BY <1>1
  <2>2. QED
    BY <1>1, <2>1 DEF ChainInv, HistoryChain
<1>3. Active = IF n = 0 THEN {} ELSE {history[n].version}
  BY <1>1 DEF ChainInv, HistoryChain, Latest
<1>4. n # 0 => history[n].version # None
  <2>1. n # 0 => history[n].version \in Active
    BY <1>3
  <2>2. QED
    BY <2>1, RegistryAssumption DEF Active
<1>5. a.previous = IF n = 0 THEN None ELSE history[n].version
  BY <1>3, <1>4
<1>6. ASSUME NEW k \in 1 .. (n + 1)
      PROVE  history'[k].previous = IF k = 1 THEN None ELSE history'[k - 1].version
  <2>1. k \in 1 .. n \/ (k = n + 1 /\ k - 1 = n)
    BY <1>1, <1>6
  <2>2. n + 1 = 1 <=> n = 0
    BY <1>1
  <2>3. n # 0 => n \in 1 .. n
    BY <1>1
  <2>4. QED
    BY <1>1, <1>2, <1>5, <2>1, <2>2, <2>3
<1>7. QED
  BY <1>1, <1>6 DEF HistoryChain, Latest

\* What a transaction of a serial command does to the trails and to the others.
LEMMA OthersIdle ==
  ASSUME TypeInv, Serial, NEW p \in Process, pc[p] # "idle", Leave(p)
  PROVE  \A q \in Process : Current(q)'
<1>1. \A q \in Process : pc'[q] = "idle"
  BY DEF Serial, Leave, Goto, TypeInv, TypeOK
<1>2. QED
  BY <1>1 DEF Current, Approving, Granted

\* What the transaction of a serial approval does ...
LEMMA ApproveEffect ==
  ASSUME ChainInv, NEW p \in Process, ApproveWrite(p)
  PROVE  LET v == op[p].target IN
           /\ version[v].status = "candidate" /\ version'[v].status = "approved"
           /\ \A w \in Version \ {v} : version'[w] = version[w] /\ events'[w] = events[w]
           /\ events'[v] = Log(v, "candidate", "approved")
           /\ history' = history
<1> DEFINE v == op[p].target
<1> USE DEF ChainInv
<1>1. TypeOK /\ Named
  BY DEF AuditInv, TypeInv
<1>2. v \in Version /\ op[p].status = "candidate" /\ version[v].status = "candidate"
  BY <1>1 DEF ApproveWrite, Current, Approving, Named
<1>3. /\ version'[v].status = "approved"
      /\ \A w \in Version \ {v} : version'[w] = version[w] /\ events'[w] = events[w]
      /\ events'[v] = Log(v, "candidate", "approved")
      /\ history' = history
  BY <1>1, <1>2 DEF ApproveWrite, TypeOK, Row
<1>4. QED
  BY <1>2, <1>3

\* ... and that of a serial activation.
LEMMA ActivateEffect ==
  ASSUME ChainInv, NEW p \in Process, ActivateWrite(p)
  PROVE  LET v == op[p].target IN
           /\ version[v].status = "approved" /\ version'[v].status = "active"
           /\ \A w \in Active : version'[w].status = "retired"
           /\ \A w \in Version : w # v /\ w \notin Active => version'[w] = version[w]
<1> DEFINE v == op[p].target
<1> USE DEF ChainInv
<1>1. TypeOK /\ Named
  BY DEF AuditInv, TypeInv
<1>2. /\ v \in Version /\ version[v].status = "approved" /\ op[p].active = Active \ {v}
  BY <1>1 DEF ActivateWrite, Current, Granted, Named
<1>3. v \notin Active
  BY <1>2 DEF Active
<1>4. /\ version'[v].status = "active"
      /\ \A w \in Active : version'[w].status = "retired"
      /\ \A w \in Version : w # v /\ w \notin Active => version'[w] = version[w]
  <2>1. /\ version'[v] = [version[v] EXCEPT !.status = "active", !.approvedBy = op[p].by,
                                          !.retiredAt = FALSE]
        /\ \A w \in Active : version'[w] = [version[w] EXCEPT !.status = "retired",
                                                           !.retiredAt = TRUE]
        /\ \A w \in Version : w # v /\ w \notin Active => version'[w] = version[w]
    BY <1>2, <1>3 DEF ActivateWrite, Active
  <2>2. \A w \in Version : version[w] \in Row
    BY <1>1 DEF TypeOK
  <2>3. Active \subseteq Version
    BY DEF Active
  <2>4. version'[v].status = "active"
    <3>1. PICK r \in Row : r = version[v]
      BY <1>2, <2>2
    <3>2. version'[v] = [r EXCEPT !.status = "active", !.approvedBy = op[p].by,
                                  !.retiredAt = FALSE]
      BY <2>1, <3>1
    <3>3. [r EXCEPT !.status = "active", !.approvedBy = op[p].by,
                    !.retiredAt = FALSE].status = "active"
      BY DEF Row
    <3>4. QED
      BY <3>2, <3>3
  <2>5. ASSUME NEW w \in Active PROVE version'[w].status = "retired"
    <3>1. PICK r \in Row : r = version[w]
      BY <2>2, <2>3
    <3>2. version'[w] = [r EXCEPT !.status = "retired", !.retiredAt = TRUE]
      BY <2>1, <3>1
    <3>3. [r EXCEPT !.status = "retired", !.retiredAt = TRUE].status = "retired"
      BY DEF Row
    <3>4. QED
      BY <3>2, <3>3
  <2>6. QED
    BY <2>1, <2>4, <2>5
<1>5. QED
  BY <1>2, <1>4

LEMMA ChainStep == ChainInv /\ Serial /\ Serial' /\ [AnyNext]_vars => ChainInv'
<1> SUFFICES ASSUME ChainInv, Serial, Serial', [AnyNext]_vars PROVE ChainInv'
  OBVIOUS
<1> USE DEF ChainInv
<1>1. AuditInv' /\ TypeInv /\ TypeOK /\ Named
  BY AuditStep DEF AuditInv, TypeInv
\* Whatever leaves the tables leaves the trails.
<1>2. ASSUME version' = version, events' = events, history' = history,
             \A q \in Process : Current(q)'
      PROVE  ChainInv'
  BY <1>1, <1>2 DEF Unborn, ChainOf, HistoryChain, Active
<1>3. ASSUME version' = version, events' = events, history' = history,
             pc' = pc, op' = op
      PROVE  ChainInv'
  BY <1>1, <1>2, <1>3, WaitingIsCurrent DEF Active
<1>4. CASE UNCHANGED vars \/ VerdictsGrow
  BY <1>3, <1>4 DEF vars, table, VerdictsGrow
<1>5. CASE Next
  <2>1. PICK p \in Process : Step(p)
    BY <1>5 DEF Next
  \* A step of a command that only reads.
  <2>2. ASSUME UNCHANGED table, Current(p)',
               \A q \in Process \ {p} : op'[q] = op[q] /\ pc'[q] = pc[q]
        PROVE  ChainInv'
    <3>1. version' = version /\ events' = events /\ history' = history /\ Active' = Active
      BY <2>2 DEF table, Active
    <3>2. \A q \in Process : Current(q)'
      BY <1>1, <2>2, <3>1, WaitingIsCurrent
    <3>3. QED
      BY <1>2, <3>1, <3>2
  <2>3. ASSUME NEW v \in Version, NEW proposal \in Proposal, Propose(p, v, proposal)
        PROVE  ChainInv'
    <3>1. /\ version[v].status = "absent" /\ version'[v].status = "candidate"
          /\ \A w \in Version \ {v} : version'[w] = version[w] /\ events'[w] = events[w]
          /\ events'[v] = Log(v, None, "candidate")
          /\ history' = history /\ pc' = pc /\ op' = op
      BY <1>1, <2>3 DEF Propose, TypeOK, Row
    <3>2. Active' = Active
      BY <3>1 DEF Active
    <3>3. \A q \in Process : Current(q)'
      <4>1. \A q \in Process : pc[q] # "idle" => op[q].target \in Version \ {v}
        BY <1>1, <3>1 DEF Current, Named
      <4>2. QED
        BY <1>1, <3>1, <3>2, <4>1, WaitingIsCurrent
    <3>4. \A w \in Version : ChainOf(w)'
      <4>1. ChainOf(v)'
        BY <3>1, ChainGrows DEF Status
      <4>2. \A w \in Version \ {v} : ChainOf(w)'
        BY <3>1 DEF ChainOf
      <4>3. QED
        BY <4>1, <4>2
    <3>5. \A w \in Version : Unborn(w)'
      BY <3>1 DEF Unborn
    <3>6. HistoryChain'
      BY <3>1, <3>2 DEF HistoryChain
    <3>7. QED
      BY <1>1, <3>3, <3>4, <3>5, <3>6
  <2>4. ASSUME NEW verdict \in Judged, RecordVerdict(p, verdict)
        PROVE  ChainInv'
    BY <1>3, <2>4 DEF RecordVerdict
  <2>5. ASSUME NEW v \in Version, NEW person \in Person, BeginApprove(p, v, person)
        PROVE  ChainInv'
    <3>1. /\ version[v].status = "candidate" /\ UNCHANGED table
          /\ op'[p].target = v /\ op'[p].status = "candidate"
          /\ pc'[p] = "approveVerdict"
          /\ \A q \in Process \ {p} : op'[q] = op[q] /\ pc'[q] = pc[q]
      BY <1>1, <2>5 DEF BeginApprove, Goto, TypeOK, NoOp
    <3>2. Current(p)'
      BY <3>1 DEF Current, Approving, Granted, table
    <3>3. QED
      BY <2>2, <3>1, <3>2
  <2>6. ASSUME NEW v \in Version, BeginActivate(p, v)
        PROVE  ChainInv'
    <3>1. /\ version[v].status # "absent" /\ UNCHANGED table
          /\ op'[p].target = v /\ op'[p].status = version[v].status
          /\ op'[p].previous = None
          /\ pc'[p] = "activateApproval"
          /\ \A q \in Process \ {p} : op'[q] = op[q] /\ pc'[q] = pc[q]
      BY <1>1, <2>6 DEF BeginActivate, Goto, TypeOK, NoOp
    <3>2. Current(p)'
      BY <3>1 DEF Current, Approving, Granted, table
    <3>3. QED
      BY <2>2, <3>1, <3>2
  <2>7. CASE ApproveVerdict(p)
    <3>1. /\ UNCHANGED table /\ op' = op
          /\ pc[p] = "approveVerdict" /\ pc'[p] = "approveWrite"
          /\ \A q \in Process \ {p} : op'[q] = op[q] /\ pc'[q] = pc[q]
      BY <1>1, <2>7 DEF ApproveVerdict, Goto, TypeOK
    <3>2. Current(p)'
      BY <3>1 DEF Current, Approving, Granted, table
    <3>3. QED
      BY <2>2, <3>1, <3>2
  <2>8. CASE ActivateApproval(p)
    <3>1. PICK k : op' = [op EXCEPT ![p].by = approvals[k].by]
      BY <2>8 DEF ActivateApproval
    <3>2. /\ op'[p].target = op[p].target /\ op'[p].status = op[p].status
          /\ op'[p].previous = op[p].previous
          /\ \A q \in Process \ {p} : op'[q] = op[q]
      BY <1>1, <3>1 DEF TypeOK, Op
    <3>3. /\ UNCHANGED table /\ op[p].status = "approved"
          /\ pc[p] = "activateApproval" /\ pc'[p] = "activatePrevious"
          /\ \A q \in Process \ {p} : pc'[q] = pc[q]
      BY <1>1, <2>8 DEF ActivateApproval, Goto, TypeOK
    <3>4. Current(p)'
      BY <3>2, <3>3 DEF Current, Approving, Granted, table
    <3>5. QED
      BY <2>2, <3>2, <3>3, <3>4
  <2>9. CASE ActivatePrevious(p)
    <3>1. /\ UNCHANGED table
          /\ pc[p] = "activatePrevious" /\ pc'[p] = "activateSelect"
          /\ \A q \in Process \ {p} : pc'[q] = pc[q]
      BY <1>1, <2>9 DEF ActivatePrevious, Goto, TypeOK
    <3>2. op[p].previous = None /\ op[p].status = "approved"
      BY <3>1 DEF Current, Granted
    <3>3. CASE Active = {}
      <4>1. op' = op
        BY <2>9, <3>3 DEF ActivatePrevious
      <4>2. Current(p)'
        BY <3>1, <3>2, <3>3, <4>1 DEF Current, Approving, Granted, table, Active
      <4>3. QED
        BY <2>2, <3>1, <4>1, <4>2
    <3>4. CASE Active # {}
      <4>1. PICK v \in Active : op' = [op EXCEPT ![p].previous = v]
        BY <2>9, <3>4 DEF ActivatePrevious
      <4>2. /\ op'[p].target = op[p].target /\ op'[p].status = op[p].status
            /\ op'[p].previous = v
            /\ \A q \in Process \ {p} : op'[q] = op[q]
        BY <1>1, <4>1 DEF TypeOK, Op
      <4>3. Active = {v} /\ v # None
        BY <4>1, RegistryAssumption DEF HistoryChain, Active
      <4>4. Active' = Active
        BY <3>1 DEF table, Active
      <4>5. Current(p)'
        BY <3>1, <3>2, <4>2, <4>3, <4>4 DEF Current, Approving, Granted, table
      <4>6. QED
        BY <2>2, <3>1, <4>2, <4>5
    <3>5. QED
      BY <3>3, <3>4
  <2>10. CASE ActivateSelect(p)
    <3>1. /\ op'[p].target = op[p].target /\ op'[p].status = op[p].status
          /\ op'[p].previous = op[p].previous
          /\ op'[p].active = Active \ {op[p].target}
          /\ \A q \in Process \ {p} : op'[q] = op[q]
      BY <1>1, <2>10 DEF ActivateSelect, TypeOK, Op
    <3>2. /\ UNCHANGED table
          /\ pc[p] = "activateSelect" /\ pc'[p] = "activateWrite"
          /\ \A q \in Process \ {p} : pc'[q] = pc[q]
      BY <1>1, <2>10 DEF ActivateSelect, Goto, TypeOK
    <3>3. Active' = Active
      BY <3>2 DEF table, Active
    <3>4. Current(p)'
      BY <3>1, <3>2, <3>3 DEF Current, Approving, Granted, table
    <3>5. QED
      BY <2>2, <3>1, <3>2, <3>4
  <2>11. CASE Abandon(p)
    <3>1. \A q \in Process : Current(q)'
      BY <1>1, <2>11, OthersIdle DEF Abandon
    <3>2. QED
      BY <1>2, <2>11, <3>1 DEF Abandon, table
  <2>12. CASE ApproveWrite(p)
    <3> DEFINE v == op[p].target
    <3>1. v \in Version
      BY <1>1, <2>12 DEF ApproveWrite, Approving, Named
    <3>2. /\ version[v].status = "candidate" /\ version'[v].status = "approved"
          /\ \A w \in Version \ {v} : version'[w] = version[w] /\ events'[w] = events[w]
          /\ events'[v] = Log(v, "candidate", "approved")
          /\ history' = history
      BY <2>12, ApproveEffect
    <3>3. Active' = Active
      BY <3>1, <3>2 DEF Active
    <3>4. \A q \in Process : Current(q)'
      BY <1>1, <2>12, OthersIdle DEF ApproveWrite
    <3>5. ASSUME NEW w \in Version PROVE ChainOf(w)'
      <4>1. CASE w = v
        BY <3>1, <3>2, <4>1, ChainGrows DEF Status
      <4>2. CASE w # v
        BY <3>2, <4>2 DEF ChainOf
      <4>3. QED
        BY <4>1, <4>2
    <3>6. \A w \in Version : Unborn(w)'
      BY <3>2 DEF Unborn
    <3>7. HistoryChain'
      BY <3>2, <3>3 DEF HistoryChain
    <3>8. QED
      BY <1>1, <3>4, <3>5, <3>6, <3>7
  <2>13. CASE ActivateWrite(p)
    <3> DEFINE v == op[p].target
               a == [version |-> v, by |-> op[p].by, previous |-> op[p].previous]
    <3>1. /\ v \in Version /\ op[p].status = "approved" /\ version[v].status = "approved"
          /\ op[p].active = Active \ {v}
          /\ Active = IF op[p].previous = None THEN {} ELSE {op[p].previous}
      BY <1>1, <2>13 DEF ActivateWrite, Current, Granted, Named
    <3>2. a \in Activation
      BY <1>1, <2>13 DEF ActivateWrite, Granted, Named, TypeOK, Op, Activation
    <3>3. v \notin Active
      BY <3>1 DEF Active
    <3>4. /\ version'[v].status = "active"
          /\ \A w \in Active : version'[w].status = "retired"
          /\ \A w \in Version : w # v /\ w \notin Active => version'[w] = version[w]
      BY <2>13, ActivateEffect
    <3>5. /\ events'[v] = Log(v, "approved", "active")
          /\ \A w \in Active : events'[w] = Log(w, "active", "retired")
          /\ \A w \in Version : w # v /\ w \notin Active => events'[w] = events[w]
      BY <1>1, <2>13, <3>1, <3>3 DEF ActivateWrite, Active
    <3>6. Active' = {v}
      BY <3>1, <3>4 DEF Active
    <3>7. \A q \in Process : Current(q)'
      BY <1>1, <2>13, OthersIdle DEF ActivateWrite
    <3>8. ASSUME NEW w \in Version PROVE ChainOf(w)'
      <4>1. CASE w = v
        BY <3>1, <3>5, <4>1, ChainGrows DEF Status
      <4>2. CASE w \in Active
        <5>1. version[w].status = "active"
          BY <4>2 DEF Active
        <5>2. QED
          BY <3>5, <4>2, <5>1, ChainGrows DEF Status
      <4>3. CASE w # v /\ w \notin Active
        BY <3>5, <4>3 DEF ChainOf
      <4>4. QED
        BY <4>1, <4>2, <4>3
    <3>9. \A w \in Version : Unborn(w)'
      <4>1. \A w \in Version : w # v /\ w \notin Active => Unborn(w)'
        BY <3>4, <3>5 DEF Unborn
      <4>2. QED
        BY <3>4, <4>1 DEF Unborn
    <3>10. HistoryChain'
      BY <2>13, <3>1, <3>2, <3>6, HistoryGrows DEF ActivateWrite
    <3>11. QED
      BY <1>1, <3>7, <3>8, <3>9, <3>10
  <2>14. QED
    BY <2>1, <2>3, <2>4, <2>5, <2>6, <2>7, <2>8, <2>9, <2>10, <2>11, <2>12, <2>13 DEF Step
<1>6. QED
  BY <1>4, <1>5 DEF AnyNext

\* As long as no two commands that read first overlap, both trails are unbroken: every
\* audit event of a version starts from the status the one before it ended in, and the
\* activation history is a chain that ends in the strategy that is active.
THEOREM TrailsHold == Spec /\ []Serial => []TrailsUnbroken
<1>1. [Next]_vars => [AnyNext]_vars
  BY DEF AnyNext
<1>2. ChainInv => TrailsUnbroken
  BY DEF ChainInv, ChainOf, AuditChain, TrailsUnbroken
<1>3. QED
  BY <1>1, <1>2, ChainInit, ChainStep, PTL DEF Spec

\* Then at most one strategy is active, as docs/specs/alpha-research-loop.md says.
THEOREM OneActive == Spec /\ []Serial => []SingleActive
<1>1. [Next]_vars => [AnyNext]_vars
  BY DEF AnyNext
<1>2. ChainInv => SingleActive
  <2> SUFFICES ASSUME ChainInv PROVE Cardinality(Active) <= 1
    BY DEF SingleActive
  <2>1. Active = {} \/ Active = {Latest(history).version}
    BY DEF ChainInv, HistoryChain
  <2>2. Cardinality({}) = 0 /\ Cardinality({Latest(history).version}) = 1
    BY FS_EmptySet, FS_Singleton
  <2>3. CASE Active = {}
    BY <2>2, <2>3
  <2>4. CASE Active = {Latest(history).version}
    BY <2>2, <2>4
  <2>5. QED
    BY <2>1, <2>3, <2>4
<1>3. QED
  BY <1>1, <1>2, ChainInit, ChainStep, PTL DEF Spec
-----------------------------------------------------------------------------
(* With one command at a time the registry implements StrategyLifecycle. *)

LEMMA LifecycleInit == Init => Lifecycle!Init
BY DEF Init, Lifecycle!Init, NoRow

\* Every step is a move of one version, an activation, or no move at all.
LEMMA LifecycleStep ==
  ChainInv /\ [AnyNext]_vars => [Lifecycle!Next]_[v \in Version |-> version[v].status]
<1> DEFINE status == [v \in Version |-> version[v].status]
<1> SUFFICES ASSUME ChainInv, [AnyNext]_vars PROVE Lifecycle!Next \/ status' = status
  OBVIOUS
<1> USE DEF ChainInv
<1>1. TypeOK /\ Named
  BY DEF AuditInv, TypeInv
<1>2. ASSUME version' = version PROVE status' = status
  BY <1>2
<1>3. ASSUME NEW w \in Version, NEW to \in Status,
             version'[w].status = to,
             \A u \in Version \ {w} : version'[u] = version[u]
      PROVE  status' = [status EXCEPT ![w] = to]
  BY <1>3
<1>4. CASE Next
  <2>1. PICK p \in Process : Step(p)
    BY <1>4 DEF Next
  <2>2. ASSUME NEW v \in Version, NEW proposal \in Proposal, Propose(p, v, proposal)
        PROVE  Lifecycle!Next
    <3>1. /\ version[v].status = "absent" /\ version'[v].status = "candidate"
          /\ \A u \in Version \ {v} : version'[u] = version[u]
      BY <1>1, <2>2 DEF Propose, TypeOK, Row
    <3>2. Lifecycle!Move(v, "absent", "candidate")
      BY <1>3, <3>1 DEF Lifecycle!Move, Status
    <3>3. QED
      BY <3>2 DEF Lifecycle!Next
  <2>3. CASE ApproveWrite(p)
    <3>1. PICK v \in Version : v = op[p].target
      BY <1>1, <2>3 DEF ApproveWrite, Named
    <3>2. /\ version[v].status = "candidate" /\ version'[v].status = "approved"
          /\ \A u \in Version \ {v} : version'[u] = version[u]
      BY <2>3, <3>1, ApproveEffect
    <3>3. Lifecycle!Move(v, "candidate", "approved")
      BY <1>3, <3>2 DEF Lifecycle!Move, Status
    <3>4. QED
      BY <3>3 DEF Lifecycle!Next
  <2>4. CASE ActivateWrite(p)
    <3>1. PICK v \in Version : v = op[p].target
      BY <1>1, <2>4 DEF ActivateWrite, Named
    <3>2. /\ version[v].status = "approved" /\ version'[v].status = "active"
          /\ \A w \in Active : version'[w].status = "retired"
          /\ \A w \in Version : w # v /\ w \notin Active => version'[w] = version[w]
      BY <2>4, <3>1, ActivateEffect
    <3>3. \A w \in Version : version'[w].status = IF w = v THEN "active"
                                                  ELSE IF version[w].status = "active"
                                                    THEN "retired"
                                                  ELSE version[w].status
      BY <3>2 DEF Active
    <3>4. Lifecycle!Activate(v)
      BY <3>2, <3>3 DEF Lifecycle!Activate
    <3>5. QED
      BY <3>4 DEF Lifecycle!Next
  <2>5. CASE version' = version
    BY <1>2, <2>5
  <2>6. QED
    BY <2>1, <2>2, <2>3, <2>4, <2>5
       DEF Step, RecordVerdict, BeginApprove, BeginActivate, ApproveVerdict, ActivateApproval,
           ActivatePrevious, ActivateSelect, Abandon, table
<1>5. QED
  BY <1>2, <1>4 DEF AnyNext, VerdictsGrow, vars, table

\* As long as no two commands that read first overlap, every step of the registry is one
\* move of its lifecycle or none: no version is demoted or activated twice, and the
\* active one is retired only by the one that replaces it.
THEOREM LifecycleImplemented == Spec /\ []Serial => LifecycleSpec
<1>1. [Next]_vars => [AnyNext]_vars
  BY DEF AnyNext
<1>2. QED
  BY <1>1, ChainInit, ChainStep, LifecycleInit, LifecycleStep, PTL
     DEF Spec, LifecycleSpec, Lifecycle!Spec
-----------------------------------------------------------------------------
(* Research loops on top of the registry. *)

\* A verdict on record; one that passed has both metrics, or a person recorded it.
VerdictRow ==
  {j \in [proposal : Proposal, version : Version, gate : Gate, rankIc : Metric,
          spread : Metric] :
     /\ j # None
     /\ j.gate = "passed" => j \in ByHand \/ (j.rankIc \in Int /\ j.spread \in Int)}
\* What a verdict that passed owes to each metric of its champion.
Improves(verdict, champion) ==
  /\ champion.rankIc # None => verdict.rankIc >= champion.rankIc + Bounds.rankIcDelta
  /\ champion.spread # None => verdict.spread >= champion.spread + Bounds.spreadDelta
\* ComparedWithActive says of every attempt ...
Compared(a) ==
  a.active # None /\ a.verdict # None =>
    /\ a.champion # None
    /\ a.champion.gate = "passed"
    /\ a.champion.version = a.active
    /\ a.status = "passed" => Improves(a.verdict, a.champion)
    /\ None \in {a.champion.rankIc, a.champion.spread} => a.champion \in ByHand
\* An attempt names what it judged, and was compared.
Attempted ==
  {a \in [factor : Factor, status : Gate, active : Version \cup {None},
          champion : VerdictRow \cup {None}, verdict : VerdictRow \cup {None}] :
     /\ a.verdict = None => a.status = "blocked"
     /\ a.verdict # None => /\ a.status = a.verdict.gate
                            /\ a.verdict.version = VersionOf[a.factor]
                            /\ a.verdict.proposal = ProposalOf[a.factor]
     /\ Compared(a)}
Place == {"idle", "report", "active", "judge", "finish", "record"}
Desk == [at : Place, todo : Seq(Factor), done : Seq(Attempted), found : Found \cup {None},
         seen : Version \cup {None}, row : Nat, next : Nat \ {0}]
RunRow == {u \in [ready : BOOLEAN, attempts : Seq(Attempted), recorded : BOOLEAN] :
             u.ready = Ready(u.attempts)}
LoopTyped ==
  /\ desk \in [Researcher -> Desk]
  /\ log \in Seq(VerdictRow)
  /\ runs \in Seq(RunRow)
\* The verdicts of the attempts before the n-th are in the registry.
RecordedUpTo(attempts, n) ==
  \A i \in DOMAIN attempts :
    i < n /\ attempts[i].verdict # None => RowOf(attempts[i].verdict) \in verdicts
\* The strategy a researcher will be compared with has once passed, and what it is
\* recording is the run it has put on record.
DeskHolds(d) ==
  /\ d.at \in {"report", "active", "judge"} => d.todo # <<>>
  /\ d.at \in {"active", "judge"} => d.found \in Found
  /\ d.at = "judge" /\ d.seen # None => version[d.seen].status \in Certified
  /\ d.at \in {"report", "active"} => d.seen = None
  /\ d.at # "record" => d.next = 1
  /\ d.at = "record" => /\ d.row \in DOMAIN runs
                        /\ runs[d.row].attempts = d.done
                        /\ RecordedUpTo(d.done, d.next)

\* The log and the set of the verdicts tell the same.
Logged == \A j \in verdicts : \E k \in DOMAIN log : RowOf(log[k]) = j

\* What a run notes as recorded is in the registry.
RunsHold == \A k \in DOMAIN runs :
  runs[k].recorded => RecordedUpTo(runs[k].attempts, Len(runs[k].attempts) + 1)
LoopInv ==
  /\ GateInv /\ LoopTyped
  /\ \A r \in Researcher : DeskHolds(desk[r])
  /\ Logged /\ RunsHold
-----------------------------------------------------------------------------
(* The judge. *)

\* What a passed verdict says of its metrics: both are there, and neither is worse than
\* the champion's, if the champion has it, by less than the bounds ask for.
LEMMA PassedImproves ==
  ASSUME NEW proposal, NEW found \in Found, NEW champion,
         Reasons(proposal, found, champion, Bounds) = {}
  PROVE  /\ found.metrics.rankIc \in Int /\ found.metrics.spread \in Int
         /\ champion # None /\ champion.rankIc \in Metric /\ champion.spread \in Metric =>
              Improves(found.metrics, champion)
<1> DEFINE m == found.metrics
<1>1. m.rankIc \in Metric /\ m.spread \in Metric /\ None \notin Int
  BY LoopAssumption
<1>2. /\ Missing(m.rankIc, "rank_ic_mean_missing") = {}
      /\ Missing(m.spread, "quantile_spread_missing") = {}
      /\ ChampionReasons(m, Champion(champion), Bounds) = {}
  <2>1. \A A, B, C, D, E, F, G, H, I :
          A \cup B \cup C \cup D \cup E \cup F \cup G \cup H \cup I = {} =>
            A = {} /\ C = {} /\ H = {}
    OBVIOUS
  <2>2. QED
    BY <2>1 DEF Reasons
<1>3. m.rankIc \in Int /\ m.spread \in Int
  BY <1>1, <1>2 DEF Missing, Metric
<1>4. ASSUME champion # None, champion.rankIc \in Metric, champion.spread \in Metric
      PROVE  Improves(m, champion)
  <2> DEFINE c == [rankIc |-> champion.rankIc, spread |-> champion.spread]
  <2>1. CASE champion.rankIc = None /\ champion.spread = None
    BY <2>1 DEF Improves
  <2>2. CASE ~(champion.rankIc = None /\ champion.spread = None)
    <3>1. Champion(champion) = c
      BY <1>4, <2>2 DEF Champion
    <3>2. c # None
      <4>1. c \in [rankIc : Metric, spread : Metric]
        BY <1>4
      <4>2. QED
        BY <4>1, LoopAssumption
    <3>3. c.rankIc = champion.rankIc /\ c.spread = champion.spread
      OBVIOUS
    <3> HIDE DEF c
    <3>4. ChampionReasons(m, c, Bounds) = {}
      BY <1>2, <3>1
    <3>5. /\ champion.rankIc # None =>
                TooLow(m.rankIc, champion.rankIc + Bounds.rankIcDelta,
                       "challenger_rank_ic_not_improved") = {}
          /\ champion.spread # None =>
                TooLow(m.spread, champion.spread + Bounds.spreadDelta,
                       "challenger_quantile_spread_not_improved") = {}
      BY <3>2, <3>3, <3>4 DEF ChampionReasons
    <3>6. /\ champion.rankIc # None => ~(m.rankIc < champion.rankIc + Bounds.rankIcDelta)
          /\ champion.spread # None => ~(m.spread < champion.spread + Bounds.spreadDelta)
      BY <1>1, <1>3, <3>5 DEF TooLow
    <3>7. Bounds.rankIcDelta \in Int /\ Bounds.spreadDelta \in Int
      BY LoopAssumption DEF Thresholds
    <3>8. QED
      BY <1>3, <1>4, <3>6, <3>7 DEF Metric, Improves
  <2>3. QED
    BY <2>1, <2>2
<1>5. QED
  BY <1>3, <1>4
-----------------------------------------------------------------------------
(* The steps of a research loop. *)

LEMMA LoopStarts == LoopInit => LoopInv
<1> SUFFICES ASSUME LoopInit PROVE LoopInv
  OBVIOUS
<1>1. GateInv
  BY GateInit DEF LoopInit
<1>2. Idle \in Desk
  BY DEF Idle, Desk, Place
<1>3. LoopTyped
  BY <1>2 DEF LoopInit, LoopTyped
<1>4. \A r \in Researcher : DeskHolds(desk[r])
  BY DEF LoopInit, Idle, DeskHolds
<1>5. Logged /\ RunsHold
  BY DEF LoopInit, Init, Logged, RunsHold
<1>6. QED
  BY <1>1, <1>3, <1>4, <1>5 DEF LoopInv

\* A verdict on record is one the registry's commands may read.
LEMMA RowIsVerdict ==
  ASSUME NEW j \in VerdictRow
  PROVE  RowOf(j) \in JudgeVerdict
BY DEF VerdictRow, RowOf, JudgeVerdict

\* What a person records from a file is a verdict on record like any other.
LEMMA HandRow == ByHand \subseteq VerdictRow
BY LoopAssumption DEF VerdictRow

LEMMA NextAttempt ==
  ASSUME LoopTyped, NEW r \in Researcher, RecordAttempt(r)
  PROVE  LET d == desk[r] IN
           /\ d \in Desk /\ d.next \in DOMAIN d.done
           /\ d.done[d.next].verdict # None => d.done[d.next].verdict \in VerdictRow
<1> DEFINE d == desk[r]
<1>1. d \in Desk
  BY DEF LoopTyped
<1>2. d.next \in Nat \ {0} /\ d.done \in Seq(Attempted) /\ d.next <= Len(d.done)
  BY <1>1 DEF Desk, RecordAttempt
<1>3. CASE d.next \in 1 .. Len(d.done)
  <2>1. d.done[d.next] \in Attempted
    BY <1>2, <1>3, ElementOfSeq
  <2>2. QED
    BY <1>1, <1>2, <1>3, <2>1 DEF Attempted
<1>4. QED
  BY <1>1, <1>2, <1>3

\* To the registry a research loop is a program that records verdicts.
LEMMA LoopIsAny == LoopTyped /\ TypeOK /\ [LoopNext]_allVars => [AnyNext]_vars
<1> SUFFICES ASSUME LoopTyped, TypeOK, [LoopNext]_allVars PROVE AnyNext \/ UNCHANGED vars
  OBVIOUS
<1>1. CASE UNCHANGED allVars
  BY <1>1 DEF allVars
<1>2. ASSUME NEW p \in Process, RegistryStep(p)
      PROVE  Next
  <2>1. \A f \in Factor : VersionOf[f] \in Version /\ ProposalOf[f] \in Proposal
    BY LoopAssumption
  <2>2. Step(p)
    BY <1>2, <2>1 DEF RegistryStep, Step
  <2>3. QED
    BY <2>2 DEF Next
<1>2a. ASSUME NEW p \in Process, NEW verdict \in ByHand, RecordByHand(p, verdict)
       PROVE  VerdictsGrow
  <2>1. RowOf(verdict) \in JudgeVerdict
    BY HandRow, RowIsVerdict
  <2>2. verdicts \subseteq JudgeVerdict
    BY DEF TypeOK
  <2>3. QED
    BY <1>2a, <2>1, <2>2 DEF RecordByHand, RecordVerdict, VerdictsGrow
<1>3. ASSUME NEW r \in Researcher, RecordAttempt(r)
      PROVE  VerdictsGrow
  <2> DEFINE j == desk[r].done[desk[r].next].verdict
  <2>1. UNCHANGED <<version, proposals, approvals, history, events, pc, op>>
    BY <1>3 DEF RecordAttempt
  <2>2. \/ verdicts' = verdicts
        \/ j # None /\ verdicts' = verdicts \cup {RowOf(j)}
    BY <1>3 DEF RecordAttempt
  <2>3. j # None => RowOf(j) \in JudgeVerdict
    BY <1>3, NextAttempt, RowIsVerdict
  <2>4. verdicts \subseteq JudgeVerdict
    BY DEF TypeOK
  <2>5. QED
    BY <2>1, <2>2, <2>3, <2>4 DEF VerdictsGrow
<1>4. ASSUME NEW r \in Researcher, LoopStep(r), ~RecordAttempt(r)
      PROVE  UNCHANGED vars
  BY <1>4 DEF LoopStep, StartRun, MakeReport, ReadActive, JudgeProposal, FinishRun,
              EndRecording, BreakOff
<1>5. QED
  BY <1>1, <1>2, <1>2a, <1>3, <1>4 DEF LoopNext, AnyNext

\* An attempt that is done leaves a desk that goes on with the next factor or finishes.
LEMMA OnwardIsDesk ==
  ASSUME NEW d \in Desk, d.todo # <<>>, d.next = 1, NEW a \in Attempted
  PROVE  Onward(d, a) \in Desk /\ DeskHolds(Onward(d, a))
<1> DEFINE e == [d EXCEPT !.done = Append(@, a), !.todo = Tail(@), !.found = None, !.seen = None]
<1>1. Append(d.done, a) \in Seq(Attempted) /\ Tail(d.todo) \in Seq(Factor)
  <2>1. d.done \in Seq(Attempted) /\ d.todo \in Seq(Factor)
    BY DEF Desk
  <2>2. QED
    BY <2>1, AppendProperties, HeadTailProperties
<1>2. e \in Desk
  BY <1>1 DEF Desk
<1>3. PICK place \in {"finish", "report"} :
        /\ Onward(d, a) = [e EXCEPT !.at = place]
        /\ place = "report" => e.todo # <<>>
  BY DEF Onward
<1>4. /\ Onward(d, a) \in Desk
      /\ Onward(d, a).at = place /\ Onward(d, a).todo = e.todo
      /\ Onward(d, a).next = 1
  <2> HIDE DEF e
  <2>1. \A f \in Desk : /\ [f EXCEPT !.at = place] \in Desk
                        /\ [f EXCEPT !.at = place].at = place
                        /\ [f EXCEPT !.at = place].todo = f.todo
                        /\ [f EXCEPT !.at = place].next = f.next
    BY DEF Desk, Place
  <2>2. e.next = 1
    BY DEF e, Desk
  <2>3. QED
    BY <1>2, <1>3, <2>1, <2>2
<1>5. QED
  BY <1>3, <1>4 DEF DeskHolds

\* A researcher that only reads, or puts down what it has, disturbs nobody.
LEMMA DeskMoves ==
  ASSUME LoopInv, NEW r \in Researcher, NEW d \in Desk, DeskHolds(d), Set(r, d),
         UNCHANGED <<vars, log, runs>>
  PROVE  LoopTyped' /\ (\A q \in Researcher : DeskHolds(desk[q])') /\ Logged' /\ RunsHold'
<1>1. version' = version /\ verdicts' = verdicts /\ runs' = runs /\ log' = log
  BY DEF vars, table
<1>2. desk' = [desk EXCEPT ![r] = d] /\ desk \in [Researcher -> Desk]
  BY DEF Set, LoopInv, LoopTyped
<1>3. LoopTyped'
  BY <1>1, <1>2 DEF LoopInv, LoopTyped
<1>4. ASSUME NEW q \in Researcher PROVE DeskHolds(desk[q])'
  <2>1. DeskHolds(desk'[q])
    BY <1>2 DEF LoopInv
  <2>2. QED
    BY <1>1, <2>1 DEF DeskHolds, RecordedUpTo
<1>5. Logged' /\ RunsHold'
  BY <1>1 DEF LoopInv, Logged, RunsHold, RecordedUpTo
<1>6. QED
  BY <1>3, <1>4, <1>5

LEMMA NoProposalAttempt ==
  ASSUME NEW d \in Desk, d.todo # <<>>, d.seen = None
  PROVE  Attempt(d, None, None) \in Attempted
<1>1. Head(d.todo) \in Factor
  BY HeadTailProperties DEF Desk
<1>2. QED
  BY <1>1 DEF Attempt, Attempted, Compared, Gate

\* What the judge says of a report, however it comes out, is an attempt on record: the
\* strategy that was active had passed, so its verdict is found and compared with.
LEMMA JudgedAttempt ==
  ASSUME LoopInv, NEW r \in Researcher, desk[r].at = "judge",
         NEW champion \in ToSet(log) \cup {None}, IsChampion(desk[r].seen, champion)
  PROVE  Attempt(desk[r], Verdict(desk[r], champion), champion) \in Attempted
<1> DEFINE d == desk[r]
           f == Head(d.todo)
           v == Verdict(d, champion)
           proposal == [id |-> ProposalOf[f], version |-> VersionOf[f],
                        backtest |-> d.found.proposal]
           a == Attempt(d, v, champion)
<1> USE DEF LoopInv
<1>1. d \in Desk /\ DeskHolds(d)
  BY DEF LoopTyped
<1>2. d.todo # <<>> /\ d.found \in Found /\ d.seen \in Version \cup {None}
  BY <1>1 DEF DeskHolds, Desk
<1>3. f \in Factor
  BY <1>1, <1>2, HeadTailProperties DEF Desk
<1>4. /\ VersionOf[f] \in Version /\ ProposalOf[f] \in Proposal
      /\ d.found.metrics.rankIc \in Metric /\ d.found.metrics.spread \in Metric
  BY <1>2, <1>3, LoopAssumption
<1>5. log \in Seq(VerdictRow) /\ \A k \in DOMAIN log : log[k] \in VerdictRow
  <2>1. log \in Seq(VerdictRow)
    BY DEF LoopTyped
  <2>2. QED
    BY <2>1, ElementOfSeq, LenProperties
<1>6. champion \in VerdictRow \cup {None}
  BY <1>5 DEF ToSet
<1>7. v = [proposal |-> ProposalOf[f], version |-> VersionOf[f],
           gate |-> IF Reasons(proposal, d.found, champion, Bounds) = {} THEN "passed"
                    ELSE "blocked",
           rankIc |-> d.found.metrics.rankIc, spread |-> d.found.metrics.spread]
  BY DEF Verdict, Judge
<1>8. v.gate = "passed" => Reasons(proposal, d.found, champion, Bounds) = {}
  BY <1>7
<1> HIDE DEF v
<1>9. v # None => v \in VerdictRow
  <2>1. v.gate = "passed" => v.rankIc \in Int /\ v.spread \in Int
    BY <1>2, <1>7, <1>8, PassedImproves
  <2>2. QED
    BY <1>4, <1>7, <2>1 DEF VerdictRow, Gate
<1>10. ASSUME d.seen # None
       PROVE  /\ champion # None /\ champion \in VerdictRow
              /\ champion.gate = "passed" /\ champion.version = d.seen
  <2>1. d.seen \in Version /\ version[d.seen].status \in Certified
    BY <1>1, <1>2, <1>10 DEF DeskHolds
  <2>2. PICK j \in verdicts : /\ j.version = d.seen
                              /\ j.proposal = version[d.seen].proposal
                              /\ j.gate = "passed"
    BY <2>1 DEF GateInv, Governed
  <2>3. PICK k \in DOMAIN log : RowOf(log[k]) = j
    BY <2>2 DEF Logged
  <2>4. k \in PassedOf(d.seen)
    BY <2>2, <2>3 DEF PassedOf, RowOf
  <2>5. PICK i \in PassedOf(d.seen) : champion = log[i]
    BY <1>10, <2>4 DEF IsChampion
  <2>6. QED
    BY <1>5, <2>5 DEF PassedOf, VerdictRow
<1>11. /\ a = [factor |-> f, status |-> IF v = None THEN "blocked" ELSE v.gate,
               active |-> d.seen, champion |-> champion, verdict |-> v]
  BY DEF Attempt
<1>12. Compared(a)
  <2> SUFFICES ASSUME d.seen # None, v # None
               PROVE  /\ champion # None
                      /\ champion.gate = "passed"
                      /\ champion.version = d.seen
                      /\ v.gate = "passed" => Improves(v, champion)
                      /\ None \in {champion.rankIc, champion.spread} =>
                           champion \in ByHand
    BY <1>11 DEF Compared
  <2>1. /\ champion # None /\ champion.gate = "passed" /\ champion.version = d.seen
        /\ champion.rankIc \in Metric /\ champion.spread \in Metric
        /\ champion \in ByHand \/ (champion.rankIc \in Int /\ champion.spread \in Int)
    BY <1>10 DEF VerdictRow
  <2>2. ASSUME v.gate = "passed"
        PROVE  Improves(v, champion)
    <3>1. Improves(d.found.metrics, champion)
      BY <1>2, <1>8, <2>1, <2>2, PassedImproves
    <3>2. v.rankIc = d.found.metrics.rankIc /\ v.spread = d.found.metrics.spread
      BY <1>7
    <3>3. QED
      BY <3>1, <3>2 DEF Improves
  <2>3. None \notin Int
    BY LoopAssumption
  <2>4. QED
    BY <2>1, <2>2, <2>3
<1>13. v # None => v.gate \in Gate /\ v.version = VersionOf[f] /\ v.proposal = ProposalOf[f]
  BY <1>7 DEF Gate
<1>14. a \in [factor : Factor, status : Gate, active : Version \cup {None},
               champion : VerdictRow \cup {None}, verdict : VerdictRow \cup {None}]
  <2>1. (IF v = None THEN "blocked" ELSE v.gate) \in Gate
    BY <1>13 DEF Gate
  <2>2. v \in VerdictRow \cup {None}
    BY <1>9
  <2> HIDE DEF a, f, d
  <2>3. QED
    BY <1>2, <1>3, <1>6, <1>11, <2>1, <2>2
<1>15. /\ a.verdict = None => a.status = "blocked"
       /\ a.verdict # None => /\ a.status = a.verdict.gate
                              /\ a.verdict.version = VersionOf[a.factor]
                              /\ a.verdict.proposal = ProposalOf[a.factor]
  <2> HIDE DEF a, f, d
  <2>1. QED
    BY <1>11, <1>13
<1>16. a \in Attempted
  <2> HIDE DEF a
  <2>1. QED
    BY <1>12, <1>14, <1>15 DEF Attempted
<1>17. QED
  BY <1>16 DEF v

\* A run that is put on record keeps the attempts of the runs before it.
LEMMA RunsGrow ==
  ASSUME LoopInv, NEW u \in RunRow, runs' = Append(runs, u), ~u.recorded,
         UNCHANGED <<version, verdicts>>
  PROVE  /\ runs' \in Seq(RunRow) /\ Len(runs) + 1 \in DOMAIN runs'
         /\ runs'[Len(runs) + 1] = u
         /\ RunsHold'
         /\ \A d \in Desk : DeskHolds(d) => DeskHolds(d)'
<1>1. /\ runs' \in Seq(RunRow)
      /\ DOMAIN runs = 1 .. Len(runs) /\ Len(runs) \in Nat
      /\ DOMAIN runs' = 1 .. (Len(runs) + 1)
      /\ \A k \in 1 .. Len(runs) : runs'[k] = runs[k]
      /\ runs'[Len(runs) + 1] = u
  <2>1. runs \in Seq(RunRow)
    BY DEF LoopInv, LoopTyped
  <2>2. QED
    BY <2>1, AppendProperties, LenProperties
<1>2. \A k \in DOMAIN runs : k \in DOMAIN runs' /\ runs'[k] = runs[k]
  BY <1>1
<1>3. \A k \in DOMAIN runs' : k \in DOMAIN runs \/ runs'[k] = u
  BY <1>1
<1>4. RunsHold'
  BY <1>2, <1>3 DEF LoopInv, RunsHold, RecordedUpTo
<1>5. \A d \in Desk : DeskHolds(d) => DeskHolds(d)'
  BY <1>2 DEF DeskHolds, RecordedUpTo
<1>6. QED
  BY <1>1, <1>4, <1>5

LEMMA LoopFinishes ==
  ASSUME LoopInv, NEW r \in Researcher, FinishRun(r)
  PROVE  LoopTyped' /\ (\A q \in Researcher : DeskHolds(desk[q])') /\ Logged' /\ RunsHold'
<1>1. PICK d \in Desk : d = desk[r] /\ DeskHolds(d)
  BY DEF LoopInv, LoopTyped
<1>2. PICK n \in Nat : n = Len(runs)
  BY LenProperties DEF LoopInv, LoopTyped
<1> DEFINE e == [d EXCEPT !.at = "record", !.row = n + 1]
           u == [ready |-> Ready(d.done), attempts |-> d.done, recorded |-> FALSE]
<1>3. /\ runs' = Append(runs, u) /\ desk' = [desk EXCEPT ![r] = e]
      /\ UNCHANGED <<vars, log>>
      /\ d.at = "finish"
  BY <1>1, <1>2 DEF FinishRun, Set
<1>4. version' = version /\ verdicts' = verdicts /\ log' = log
  BY <1>3 DEF vars, table
<1>5. u \in RunRow /\ u.attempts = d.done /\ ~u.recorded
  BY DEF Desk, RunRow, Ready
<1>6. /\ e \in Desk /\ e.at = "record" /\ e.row = n + 1 /\ e.done = d.done /\ e.next = 1
  <2>1. d.next = 1
    BY <1>1, <1>3 DEF DeskHolds
  <2>2. e \in Desk
    <3>1. \A c \in Desk, k \in Nat : [c EXCEPT !.at = "record", !.row = k] \in Desk
      BY DEF Desk, Place
    <3>2. n + 1 \in Nat
      OBVIOUS
    <3>3. QED
      BY <3>1, <3>2
  <2>3. e.at = "record" /\ e.row = n + 1 /\ e.done = d.done /\ e.next = d.next
    BY DEF Desk
  <2>4. QED
    BY <2>1, <2>2, <2>3
<1> HIDE DEF e, u
<1>7. /\ runs' \in Seq(RunRow) /\ n + 1 \in DOMAIN runs'
      /\ runs'[n + 1] = u
      /\ RunsHold'
      /\ \A c \in Desk : DeskHolds(c) => DeskHolds(c)'
  BY <1>2, <1>3, <1>4, <1>5, RunsGrow
<1>8. DeskHolds(e)'
  <2>1. d.done \in Seq(Attempted)
    BY DEF Desk
  <2>2. DOMAIN d.done = 1 .. Len(d.done) /\ \A i \in 1 .. Len(d.done) : ~(i < 1)
    BY <2>1, LenProperties
  <2>3. RecordedUpTo(d.done, 1)'
    BY <2>2 DEF RecordedUpTo
  <2>4. QED
    BY <1>5, <1>6, <1>7, <2>3 DEF DeskHolds
<1>9. LoopTyped'
  BY <1>3, <1>4, <1>6, <1>7 DEF LoopInv, LoopTyped
<1>10. ASSUME NEW q \in Researcher PROVE DeskHolds(desk[q])'
  <2>1. PICK c \in Desk : c = desk[q] /\ DeskHolds(c)
    BY DEF LoopInv, LoopTyped
  <2>2. desk'[q] = c \/ desk'[q] = e
    BY <1>3, <2>1 DEF LoopInv, LoopTyped
  <2>3. DeskHolds(c)'
    BY <1>7, <2>1
  <2>4. QED
    BY <1>8, <2>2, <2>3 DEF DeskHolds
<1>11. Logged'
  BY <1>4 DEF LoopInv, Logged
<1>12. QED
  BY <1>7, <1>9, <1>10, <1>11

\* Recording the verdict of an attempt, or passing over one without a verdict.
LEMMA LoopRecords ==
  ASSUME LoopInv, NEW r \in Researcher, RecordAttempt(r)
  PROVE  LoopTyped' /\ (\A q \in Researcher : DeskHolds(desk[q])') /\ Logged' /\ RunsHold'
<1>1. PICK d \in Desk : d = desk[r] /\ DeskHolds(d)
  BY DEF LoopInv, LoopTyped
<1>2. d.next \in DOMAIN d.done /\ d.next \in Nat
  BY <1>1, NextAttempt DEF LoopInv, Desk
<1> DEFINE e == [d EXCEPT !.next = d.next + 1]
           j == d.done[d.next].verdict
<1>3. /\ desk' = [desk EXCEPT ![r] = e] /\ d.at = "record"
      /\ version' = version /\ runs' = runs
      /\ \/ j = None /\ log' = log /\ verdicts' = verdicts
         \/ /\ j # None
            /\ log' = Append(log, j) /\ verdicts' = verdicts \cup {RowOf(j)}
  BY <1>1 DEF RecordAttempt, Set
<1>4. j # None => j \in VerdictRow
  BY <1>1, NextAttempt DEF LoopInv
<1>5. /\ e \in Desk /\ e.at = "record" /\ e.row = d.row /\ e.done = d.done
      /\ e.next = d.next + 1
  <2>1. e \in Desk
    <3>1. \A c \in Desk, k \in Nat \ {0} : [c EXCEPT !.next = k] \in Desk
      BY DEF Desk
    <3>2. d.next + 1 \in Nat \ {0}
      BY <1>2
    <3>3. QED
      BY <3>1, <3>2
  <2>2. e.at = d.at /\ e.row = d.row /\ e.done = d.done /\ e.next = d.next + 1
    BY DEF Desk
  <2>3. QED
    BY <1>3, <2>1, <2>2
<1> HIDE DEF e
<1>6. verdicts \subseteq verdicts'
  BY <1>3
<1>7. log' \in Seq(VerdictRow) /\ Logged'
  <2>1. log \in Seq(VerdictRow)
    BY DEF LoopInv, LoopTyped
  <2>2. CASE log' = log /\ verdicts' = verdicts
    BY <2>1, <2>2 DEF LoopInv, Logged
  <2>3. CASE j # None /\ log' = Append(log, j) /\ verdicts' = verdicts \cup {RowOf(j)}
    <3> HIDE DEF j
    <3>1. /\ log' \in Seq(VerdictRow)
          /\ \A k \in DOMAIN log : k \in DOMAIN log' /\ log'[k] = log[k]
          /\ Len(log) + 1 \in DOMAIN log' /\ log'[Len(log) + 1] = j
      BY <1>4, <2>1, <2>3, AppendProperties, LenProperties
    <3>2. QED
      BY <2>3, <3>1 DEF LoopInv, Logged
  <2>4. QED
    BY <1>3, <2>2, <2>3
<1>8. LoopTyped'
  BY <1>3, <1>5, <1>7 DEF LoopInv, LoopTyped
<1>9. RunsHold'
  BY <1>3, <1>6 DEF LoopInv, RunsHold, RecordedUpTo
<1>10. \A c \in Desk : DeskHolds(c) => DeskHolds(c)'
  BY <1>3, <1>6 DEF DeskHolds, RecordedUpTo
<1>11. RecordedUpTo(d.done, d.next + 1)'
  <2>1. RecordedUpTo(d.done, d.next)
    BY <1>1, <1>3 DEF DeskHolds
  <2>2. ASSUME NEW i \in DOMAIN d.done, i < d.next + 1, d.done[i].verdict # None
        PROVE  RowOf(d.done[i].verdict) \in verdicts'
    <3>1. d.done \in Seq(Attempted)
      BY DEF Desk
    <3>2. DOMAIN d.done = 1 .. Len(d.done) /\ Len(d.done) \in Nat
      BY <3>1, LenProperties
    <3>3. i < d.next \/ i = d.next
      BY <1>2, <2>2, <3>2
    <3>4. QED
      BY <1>3, <1>6, <2>1, <2>2, <3>3 DEF RecordedUpTo
  <2>3. QED
    BY <2>2 DEF RecordedUpTo
<1>12. DeskHolds(e)'
  BY <1>1, <1>3, <1>5, <1>11 DEF DeskHolds
<1>13. ASSUME NEW q \in Researcher PROVE DeskHolds(desk[q])'
  <2>1. PICK c \in Desk : c = desk[q] /\ DeskHolds(c)
    BY DEF LoopInv, LoopTyped
  <2>2. desk'[q] = c \/ desk'[q] = e
    BY <1>3, <2>1 DEF LoopInv, LoopTyped
  <2>3. DeskHolds(c)'
    BY <1>10, <2>1
  <2>4. QED
    BY <1>12, <2>2, <2>3 DEF DeskHolds
<1>14. QED
  BY <1>7, <1>8, <1>9, <1>13

\* The end of a recording, when every attempt has been looked at.
LEMMA LoopEnds ==
  ASSUME LoopInv, NEW r \in Researcher, EndRecording(r)
  PROVE  LoopTyped' /\ (\A q \in Researcher : DeskHolds(desk[q])') /\ Logged' /\ RunsHold'
<1>1. PICK d \in Desk : d = desk[r] /\ DeskHolds(d)
  BY DEF LoopInv, LoopTyped
<1>2. /\ d.at = "record" /\ d.next > Len(d.done) /\ d.next \in Nat
      /\ desk' = [desk EXCEPT ![r] = Idle]
      /\ runs' = [runs EXCEPT ![d.row].recorded = TRUE]
      /\ version' = version /\ verdicts' = verdicts /\ log' = log
  BY <1>1 DEF EndRecording, Set, vars, table, Desk
<1>3. /\ d.row \in DOMAIN runs /\ runs[d.row].attempts = d.done
      /\ RecordedUpTo(d.done, d.next)
  BY <1>1, <1>2 DEF DeskHolds
<1>4. runs \in Seq(RunRow) /\ \A k \in DOMAIN runs : runs[k] \in RunRow
  <2>1. runs \in Seq(RunRow)
    BY DEF LoopInv, LoopTyped
  <2>2. QED
    BY <2>1, ElementOfSeq, LenProperties
<1>5. DOMAIN runs' = DOMAIN runs /\ runs' \in Seq(RunRow)
      /\ \A k \in DOMAIN runs :
           /\ runs'[k].attempts = runs[k].attempts
           /\ k # d.row => runs'[k] = runs[k]
  <2>1. \A u \in RunRow : /\ [u EXCEPT !.recorded = TRUE] \in RunRow
                          /\ [u EXCEPT !.recorded = TRUE].attempts = u.attempts
    BY DEF RunRow
  <2>2. runs' = [runs EXCEPT ![d.row] = [runs[d.row] EXCEPT !.recorded = TRUE]]
    BY <1>2
  <2>3. QED
    BY <1>3, <1>4, <2>1, <2>2, ExceptSeq
<1>6. RecordedUpTo(d.done, Len(d.done) + 1)'
  <2>1. d.done \in Seq(Attempted)
    BY DEF Desk
  <2>2. DOMAIN d.done = 1 .. Len(d.done) /\ Len(d.done) \in Nat
    BY <2>1, LenProperties
  <2>3. \A i \in DOMAIN d.done : i < d.next
    BY <1>2, <2>2
  <2>4. QED
    BY <1>2, <1>3, <2>3 DEF RecordedUpTo
<1>7. RunsHold'
  <2>1. ASSUME NEW k \in DOMAIN runs', runs'[k].recorded
        PROVE  RecordedUpTo(runs[k].attempts, Len(runs[k].attempts) + 1)'
    <3>1. CASE k = d.row
      BY <1>3, <1>5, <1>6, <3>1 DEF RecordedUpTo
    <3>2. CASE k # d.row
      BY <1>2, <1>5, <2>1, <3>2 DEF LoopInv, RunsHold, RecordedUpTo
    <3>3. QED
      BY <3>1, <3>2
  <2>2. QED
    BY <2>1 DEF RunsHold
<1>8. Idle \in Desk /\ DeskHolds(Idle)'
  BY DEF Idle, Desk, Place, DeskHolds
<1>9. LoopTyped'
  BY <1>2, <1>5, <1>8 DEF LoopInv, LoopTyped
<1>10. ASSUME NEW q \in Researcher PROVE DeskHolds(desk[q])'
  <2>1. PICK c \in Desk : c = desk[q] /\ DeskHolds(c)
    BY DEF LoopInv, LoopTyped
  <2>2. desk'[q] = c \/ desk'[q] = Idle
    BY <1>2, <2>1 DEF LoopInv, LoopTyped
  <2>3. DeskHolds(c)'
    BY <1>2, <1>5, <2>1 DEF DeskHolds, RecordedUpTo
  <2>4. QED
    BY <1>8, <2>2, <2>3 DEF DeskHolds
<1>11. Logged'
  BY <1>2 DEF LoopInv, Logged
<1>12. QED
  BY <1>7, <1>9, <1>10, <1>11

\* A verdict that a person records beside the loops is one more on record.
LEMMA LoopByHand ==
  ASSUME LoopInv, NEW p \in Process, NEW verdict \in ByHand, RecordByHand(p, verdict)
  PROVE  LoopTyped' /\ (\A q \in Researcher : DeskHolds(desk[q])') /\ Logged' /\ RunsHold'
<1>1. /\ log' = Append(log, verdict) /\ verdicts' = verdicts \cup {RowOf(verdict)}
      /\ UNCHANGED <<version, desk, runs>>
  BY DEF RecordByHand, RecordVerdict
<1>2. log \in Seq(VerdictRow) /\ verdict \in VerdictRow
  BY HandRow DEF LoopInv, LoopTyped
<1>3. /\ log' \in Seq(VerdictRow)
      /\ \A k \in DOMAIN log : k \in DOMAIN log' /\ log'[k] = log[k]
      /\ Len(log) + 1 \in DOMAIN log' /\ log'[Len(log) + 1] = verdict
  BY <1>1, <1>2, AppendProperties, LenProperties
<1>4. LoopTyped'
  BY <1>1, <1>3 DEF LoopInv, LoopTyped
<1>5. Logged'
  BY <1>1, <1>3 DEF LoopInv, Logged
<1>6. RunsHold'
  BY <1>1 DEF LoopInv, RunsHold, RecordedUpTo
<1>7. ASSUME NEW q \in Researcher PROVE DeskHolds(desk[q])'
  BY <1>1 DEF LoopInv, DeskHolds, RecordedUpTo
<1>8. QED
  BY <1>4, <1>5, <1>6, <1>7

LEMMA LoopMoves ==
  ASSUME LoopInv, [LoopNext]_allVars
  PROVE  LoopInv'
<1> USE DEF LoopInv
<1>1. [AnyNext]_vars
  BY LoopIsAny DEF GateInv, TypeInv
<1>2. GateInv' /\ Kept
  BY <1>1, GateStep, StepKeeps DEF GateInv
<1>3. SUFFICES LoopTyped' /\ (\A q \in Researcher : DeskHolds(desk[q])') /\ Logged' /\ RunsHold'
  BY <1>2
\* The registry's commands write no verdict, and take no certificate back.
<1>4. ASSUME UNCHANGED <<desk, log, runs, verdicts>>
      PROVE  LoopTyped' /\ (\A q \in Researcher : DeskHolds(desk[q])') /\ Logged' /\ RunsHold'
  <2>1. LoopTyped' /\ Logged' /\ RunsHold'
    BY <1>4 DEF LoopTyped, Logged, RunsHold, RecordedUpTo
  <2>2. ASSUME NEW q \in Researcher PROVE DeskHolds(desk[q])'
    <3>1. PICK c \in Desk : c = desk[q] /\ DeskHolds(c)
      BY DEF LoopTyped
    <3>2. c.seen # None => c.seen \in Version
      BY DEF Desk
    <3>3. QED
      BY <1>2, <1>4, <3>1, <3>2 DEF DeskHolds, Kept, RecordedUpTo
  <2>3. QED
    BY <2>1, <2>2
<1>5. CASE UNCHANGED allVars
  BY <1>4, <1>5 DEF allVars, vars, table, loopVars
<1>6. ASSUME NEW p \in Process, RegistryStep(p)
      PROVE  UNCHANGED <<desk, log, runs, verdicts>>
  BY <1>6 DEF RegistryStep, loopVars, Propose, BeginApprove, BeginActivate, ApproveVerdict,
              ApproveWrite, ActivateApproval, ActivatePrevious, ActivateSelect,
              ActivateWrite, Abandon, table
<1>7. ASSUME NEW r \in Researcher, LoopStep(r)
      PROVE  LoopTyped' /\ (\A q \in Researcher : DeskHolds(desk[q])') /\ Logged' /\ RunsHold'
  <2>1. PICK d \in Desk : d = desk[r] /\ DeskHolds(d)
    BY DEF LoopTyped
  <2>2. Idle \in Desk /\ DeskHolds(Idle)
    BY DEF Idle, Desk, Place, DeskHolds
  <2>3. ASSUME NEW factors \in Lists, StartRun(r, factors)
        PROVE  LoopTyped' /\ (\A q \in Researcher : DeskHolds(desk[q])') /\ Logged' /\ RunsHold'
    <3> DEFINE e == [Idle EXCEPT !.at = "report", !.todo = factors]
    <3>1. factors \in Seq(Factor) /\ factors # <<>>
      BY LoopAssumption
    <3>2. /\ e \in Desk
          /\ e.at = "report" /\ e.todo = factors /\ e.seen = None /\ e.next = 1
      <4>1. \A c \in Desk : [c EXCEPT !.at = "report", !.todo = factors] \in Desk
        BY <3>1 DEF Desk, Place
      <4>2. Idle.seen = None /\ Idle.next = 1
        BY DEF Idle
      <4>3. \A c \in Desk : c.seen = None /\ c.next = 1 =>
              /\ [c EXCEPT !.at = "report", !.todo = factors].at = "report"
              /\ [c EXCEPT !.at = "report", !.todo = factors].todo = factors
              /\ [c EXCEPT !.at = "report", !.todo = factors].seen = None
              /\ [c EXCEPT !.at = "report", !.todo = factors].next = 1
        BY DEF Desk
      <4>4. QED
        BY <2>2, <4>1, <4>2, <4>3
    <3>3. e \in Desk /\ DeskHolds(e)
      <4> HIDE DEF e
      <4>1. QED
        BY <3>1, <3>2 DEF DeskHolds
    <3>4. Set(r, e) /\ UNCHANGED <<vars, log, runs>>
      BY <2>3 DEF StartRun
    <3> HIDE DEF e
    <3>5. QED
      BY <3>3, <3>4, DeskMoves
  <2>4. ASSUME NEW found \in Found, MakeReport(r, found)
        PROVE  LoopTyped' /\ (\A q \in Researcher : DeskHolds(desk[q])') /\ Logged' /\ RunsHold'
    <3>1. d.at = "report" /\ d.todo # <<>> /\ d.next = 1 /\ d.seen = None
      BY <2>1, <2>4 DEF MakeReport, DeskHolds
    <3>2. CASE found.proposal = None
      <4> DEFINE e == Onward(d, Attempt(d, None, None))
      <4>1. Attempt(d, None, None) \in Attempted
        BY <3>1, NoProposalAttempt
      <4>2. e \in Desk /\ DeskHolds(e)
        BY <3>1, <4>1, OnwardIsDesk
      <4>3. Set(r, e) /\ UNCHANGED <<vars, log, runs>>
        BY <2>1, <2>4, <3>2 DEF MakeReport
      <4> HIDE DEF e
      <4>4. QED
        BY <4>2, <4>3, DeskMoves
    <3>3. CASE found.proposal # None
      <4> DEFINE e == [d EXCEPT !.found = found, !.at = "active"]
      <4>1. e \in Desk /\ DeskHolds(e)
        <5>1. e \in Desk
          BY DEF Desk, Place
        <5>2. /\ e.at = "active" /\ e.todo = d.todo /\ e.found = found /\ e.seen = d.seen
              /\ e.next = d.next
          BY DEF Desk
        <5> HIDE DEF e
        <5>3. QED
          BY <3>1, <5>1, <5>2 DEF DeskHolds
      <4>2. Set(r, e) /\ UNCHANGED <<vars, log, runs>>
        BY <2>1, <2>4, <3>3 DEF MakeReport
      <4> HIDE DEF e
      <4>3. QED
        BY <4>1, <4>2, DeskMoves
    <3>4. QED
      BY <3>2, <3>3
  <2>5. CASE ReadActive(r)
    <3>1. d.at = "active" /\ d.todo # <<>> /\ d.next = 1 /\ d.found \in Found
      BY <2>1, <2>5 DEF ReadActive, DeskHolds
    <3>2. PICK v \in Active \cup {None} : Set(r, [d EXCEPT !.at = "judge", !.seen = v])
      <4>1. CASE Active = {}
        <5>1. [d EXCEPT !.at = "judge", !.seen = None] = [d EXCEPT !.at = "judge"]
          <6>1. d.seen = None
            BY <2>1, <3>1 DEF DeskHolds
          <6>2. QED
            BY <6>1 DEF Desk
        <5>2. Set(r, [d EXCEPT !.at = "judge"])
          BY <2>1, <2>5, <4>1 DEF ReadActive
        <5>3. QED
          BY <5>1, <5>2
      <4>2. CASE Active # {}
        BY <2>1, <2>5, <4>2 DEF ReadActive
      <4>3. QED
        BY <4>1, <4>2
    <3> DEFINE e == [d EXCEPT !.at = "judge", !.seen = v]
    <3>3. v # None => v \in Version /\ version[v].status \in Certified
      BY DEF Active, Certified
    <3>4. e \in Desk /\ DeskHolds(e)
      <4>1. e \in Desk
        BY <3>3 DEF Desk, Place
      <4>2. /\ e.at = "judge" /\ e.todo = d.todo /\ e.found = d.found /\ e.seen = v
            /\ e.next = d.next
        BY DEF Desk
      <4> HIDE DEF e
      <4>3. QED
        BY <3>1, <3>3, <4>1, <4>2 DEF DeskHolds
    <3>5. UNCHANGED <<vars, log, runs>>
      BY <2>5 DEF ReadActive
    <3> HIDE DEF e
    <3>6. QED
      BY <3>2, <3>4, <3>5, DeskMoves DEF e
  <2>6. CASE JudgeProposal(r)
    <3>1. d.at = "judge" /\ d.todo # <<>> /\ d.next = 1
      BY <2>1, <2>6 DEF JudgeProposal, DeskHolds
    <3>2. PICK champion \in ToSet(log) \cup {None} :
            /\ IsChampion(d.seen, champion)
            /\ Set(r, Onward(d, Attempt(d, Verdict(d, champion), champion)))
      BY <2>1, <2>6 DEF JudgeProposal
    <3> DEFINE a == Attempt(d, Verdict(d, champion), champion)
               e == Onward(d, a)
    <3>3. a \in Attempted
      BY <2>1, <3>1, <3>2, JudgedAttempt
    <3>4. e \in Desk /\ DeskHolds(e)
      BY <3>1, <3>3, OnwardIsDesk
    <3>5. Set(r, e) /\ UNCHANGED <<vars, log, runs>>
      BY <2>6, <3>2 DEF JudgeProposal
    <3> HIDE DEF e
    <3>6. QED
      BY <3>4, <3>5, DeskMoves
  <2>7. CASE BreakOff(r)
    BY <2>2, <2>7, DeskMoves DEF BreakOff
  <2>8. QED
    BY <1>7, <2>3, <2>4, <2>5, <2>6, <2>7, LoopFinishes, LoopRecords, LoopEnds DEF LoopStep
<1>8. QED
  BY <1>4, <1>5, <1>6, <1>7, LoopByHand DEF LoopNext

LEMMA LoopStepHolds ==
  LoopInv /\ [LoopNext]_allVars => LoopInv' /\ [AnyNext]_vars
BY LoopMoves, LoopIsAny DEF LoopInv, GateInv, TypeInv

LEMMA TypedRuns ==
  ASSUME LoopTyped, NEW k \in DOMAIN runs, NEW i \in DOMAIN runs[k].attempts
  PROVE  runs[k] \in RunRow /\ runs[k].attempts[i] \in Attempted
<1>1. runs \in Seq(RunRow) /\ k \in 1 .. Len(runs)
  BY LenProperties DEF LoopTyped
<1>2. runs[k] \in RunRow
  BY <1>1, ElementOfSeq
<1>3. runs[k].attempts \in Seq(Attempted)
  BY <1>2 DEF RunRow
<1>4. i \in 1 .. Len(runs[k].attempts)
  BY <1>3, LenProperties
<1>5. QED
  BY <1>2, <1>3, <1>4, ElementOfSeq

\* With any number of researchers and of registry commands at work at once, every
\* proposal that is judged while a strategy is active is compared with a verdict that
\* strategy passed with, and passes only if it improves on each metric that verdict has;
\* only a verdict a person recorded can lack one.  The active strategy that was read had
\* passed the gate, and verdicts are never taken back.
THEOREM ComparedHolds == LoopSpec => []ComparedWithActive
<1>1. LoopInv => ComparedWithActive
  <2> SUFFICES ASSUME LoopInv, NEW k \in DOMAIN runs, NEW i \in DOMAIN runs[k].attempts
               PROVE  Compared(runs[k].attempts[i])
    BY DEF ComparedWithActive, Compared, Improves
  <2>1. QED
    BY TypedRuns DEF LoopInv, Attempted
<1>2. QED
  BY <1>1, LoopStarts, LoopStepHolds, PTL DEF LoopSpec

\* Whatever broke off in between, a run on record as ready whose recording came to its
\* end has the passed verdict that lets a person approve its strategy.
THEOREM ReadyHolds == LoopSpec => []ReadyCanBeApproved
<1>1. LoopInv => ReadyCanBeApproved
  <2> SUFFICES ASSUME LoopInv, NEW k \in DOMAIN runs, runs[k].ready, runs[k].recorded
               PROVE  \E i \in DOMAIN runs[k].attempts :
                        LET a == runs[k].attempts[i] IN
                          /\ a.status = "passed"
                          /\ [version |-> VersionOf[a.factor],
                              proposal |-> ProposalOf[a.factor],
                              gate |-> "passed"] \in verdicts
    BY DEF ReadyCanBeApproved
  <2> USE DEF LoopInv
  <2>1. runs[k] \in RunRow
    BY ElementOfSeq, LenProperties DEF LoopTyped
  <2>2. PICK i \in DOMAIN runs[k].attempts : runs[k].attempts[i].status = "passed"
    BY <2>1 DEF RunRow, Ready
  <2> DEFINE a == runs[k].attempts[i]
  <2>3. a \in Attempted
    BY TypedRuns
  <2>4. /\ a.verdict # None /\ a.verdict.gate = "passed"
        /\ a.verdict.version = VersionOf[a.factor]
        /\ a.verdict.proposal = ProposalOf[a.factor]
    BY <2>2, <2>3 DEF Attempted
  <2>5. i < Len(runs[k].attempts) + 1
    <3>1. runs[k].attempts \in Seq(Attempted)
      BY <2>1 DEF RunRow
    <3>2. i \in 1 .. Len(runs[k].attempts) /\ Len(runs[k].attempts) \in Nat
      BY <3>1, LenProperties
    <3>3. QED
      BY <3>2
  <2>6. RowOf(a.verdict) \in verdicts
    BY <2>4, <2>5 DEF RunsHold, RecordedUpTo
  <2>7. QED
    BY <2>2, <2>4, <2>6 DEF RowOf
<1>2. QED
  BY <1>1, LoopStarts, LoopStepHolds, PTL DEF LoopSpec

\* Research loops that record verdicts next to the registry's commands leave its gate,
\* its audit and its activation history as they were proved without them.
THEOREM LoopsKeepTheGate ==
  LoopSpec => [](GovernedStatus /\ AuditTellsStatus /\ HistoryTellsActive)
<1>1. LoopInit => AuditInv /\ HistoryInv
  BY AuditInit, HistoryInit DEF LoopInit
<1>2. HistoryInv /\ AuditInv => GovernedStatus /\ AuditTellsStatus /\ HistoryTellsActive
  BY DEF HistoryInv, GateInv, Governed, GovernedStatus, Certified, AuditInv, Told,
         AuditTellsStatus
<1>3. QED
  BY <1>1, <1>2, LoopStarts, LoopStepHolds, AuditStep, HistoryStep, PTL DEF LoopSpec

\* And as long as no two commands that read first overlap, the trails stay unbroken and
\* the registry implements its lifecycle, however many loops run.
THEOREM LoopsKeepTheLifecycle ==
  LoopSpec /\ []Serial => []TrailsUnbroken /\ LifecycleSpec
<1>1. LoopInit => ChainInv /\ Lifecycle!Init
  BY ChainInit, LifecycleInit DEF LoopInit
<1>2. ChainInv => TrailsUnbroken
  BY DEF ChainInv, ChainOf, AuditChain, TrailsUnbroken
<1>3. QED
  BY <1>1, <1>2, LoopStarts, LoopStepHolds, ChainStep, LifecycleStep, PTL
     DEF LoopSpec, LifecycleSpec, Lifecycle!Spec
=============================================================================
