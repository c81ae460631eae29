---------------------------- MODULE AgentHandoff ----------------------------
(***************************************************************************)
(* The agent handoff queue of SqliteTaskChainRepository: the tables        *)
(* task_chain_agent_handoffs, task_chain_agent_handoff_events and          *)
(* task_chain_agent_handoff_outputs, driven by `task_chain.py handoff`.    *)
(*                                                                         *)
(* A command reads the wall clock first and opens its transaction later    *)
(* (BEGIN IMMEDIATE may wait 30 s for the write lock), so the "now" it     *)
(* compares leases with may be old when it commits. An agent is the        *)
(* process that acts under one owner id, one command at a time.            *)
(***************************************************************************)
EXTENDS Naturals, Sequences, Missing

CONSTANTS
  Agent,     \* owner ids
  Handoff,   \* handoff rows, one for each idempotency key
  Legacy,    \* rows migrated from the P1a schema: their key starts with "legacy:"
  Role,      \* agent roles
  RoleOf,    \* the role of each row
  Ttl,       \* --lease-ttl-seconds of claim-next
  ClaimTtl,  \* --lease-ttl-seconds of claim; 0 when it is not given
  MaxClock   \* bound: the last instant of the clock

ASSUME HandoffAssumption == /\ None \notin Agent
                            /\ Legacy \subseteq Handoff
                            /\ RoleOf \in [Handoff -> Role]
                            /\ Ttl \in Nat \ {0}  \* claim_next rejects ttl <= 0
                            /\ ClaimTtl \subseteq Nat
                            /\ MaxClock \in Nat

VARIABLES
  clock,    \* wall clock
  row,      \* the handoff rows
  events,   \* the audit events of each row, in commit order
  outputs,  \* the output rows of each handoff
  at,       \* the "now" of each agent's open command
  busy      \* the agents with an open command

vars == <<clock, row, events, outputs, at, busy>>

Status == {"absent", "pending", "claimed", "completed", "failed"}
Verdict == {"completed", "failed"}
Live == {"pending", "claimed"}
ClaimType == {"claimed", "reclaimed"}
EventType == ClaimType \cup Verdict \cup {"enqueued"}

\* expires = 0: lease_expires_at is NULL.
Row == [status : Status, owner : Agent \cup {None}, expires : Nat, created : Nat]
Event == [type : EventType, owner : Agent \cup {None}, until : Nat, at : Nat]
Output == [agent : Agent, at : Nat]

NoRow == [status |-> "absent", owner |-> None, expires |-> 0, created |-> 0]

TypeOK ==
  /\ clock \in Nat
  /\ row \in [Handoff -> Row]
  /\ events \in [Handoff -> Seq(Event)]
  /\ outputs \in [Handoff -> Seq(Output)]
  /\ at \in [Agent -> Nat]
  /\ busy \subseteq Agent
-----------------------------------------------------------------------------
\* Mutant: every claimed row can be taken over.
Claimable_AnyClaimed(h, t) == row[h].status \in Live

\* The WHERE clause of claim_next_agent_handoff, its role apart.
Claimable(h, t) ==
  \/ row[h].status = "pending"
  \/ row[h].status = "claimed" /\ row[h].expires # 0 /\ row[h].expires <= t

\* ORDER BY priority, created_at: the command line gives no priority.
NextOf(role, t) ==
  LET candidate == {h \in Handoff : RoleOf[h] = role /\ Claimable(h, t)}
  IN {h \in candidate : \A k \in candidate : row[h].created <= row[k].created}

\* Mutant: the owner of the lease is not compared.
LeaseHeld_AnyOwner(h, a, t) == row[h].status = "claimed" /\ row[h].expires > t

\* Mutant: the lease is not compared with the time.
LeaseHeld_Expired(h, a, t) ==
  row[h].status = "claimed" /\ row[h].owner = a /\ row[h].expires # 0

\* _validate_handoff_lease.
LeaseHeld(h, a, t) ==
  /\ row[h].status = "claimed"
  /\ row[h].owner = a
  /\ row[h].expires # 0
  /\ t < row[h].expires

Until(t, ttl) == IF ttl = 0 THEN 0 ELSE t + ttl

\* _record_agent_handoff_event, in the transaction of the change it records.
Record(h, type, owner, until, t) ==
  events' = [events EXCEPT ![h] =
               Append(@, [type |-> type, owner |-> owner, until |-> until, at |-> t])]

\* The command of agent a ends, and its "now" with it.
Leave(a) ==
  /\ busy' = busy \ {a}
  /\ at' = [at EXCEPT ![a] = 0]

\* Mutant: a claim leaves the lease of the row as it was.
Take_KeepLease(h, a, type, until) ==
  /\ row' = [row EXCEPT ![h].status = "claimed", ![h].owner = a]
  /\ Record(h, type, a, until, at[a])
  /\ Leave(a)
  /\ UNCHANGED <<clock, outputs>>

Take(h, a, type, until) ==
  /\ row' = [row EXCEPT ![h].status = "claimed", ![h].owner = a, ![h].expires = until]
  /\ Record(h, type, a, until, at[a])
  /\ Leave(a)
  /\ UNCHANGED <<clock, outputs>>

\* claimed_by and lease_expires_at of a closed row stay as they are.
Close(h, a, owner, verdict) ==
  /\ row' = [row EXCEPT ![h].status = verdict]
  /\ Record(h, verdict, owner, 0, at[a])
  /\ Leave(a)
  /\ UNCHANGED clock
-----------------------------------------------------------------------------
\* initialize() migrates rows that P1a left pending or claimed without a lease.
Init ==
  /\ clock = 0
  /\ \E holder \in [Legacy -> Agent \cup {None}] :
       row = [h \in Handoff |->
                IF h \in Legacy
                  THEN [NoRow EXCEPT !.owner = holder[h],
                                     !.status = IF holder[h] = None THEN "pending"
                                                                    ELSE "claimed"]
                  ELSE NoRow]
  /\ events = [h \in Handoff |-> <<>>]
  /\ outputs = [h \in Handoff |-> <<>>]
  /\ at = [a \in Agent |-> 0]
  /\ busy = {}

Tick ==
  /\ clock < MaxClock
  /\ clock' = clock + 1
  /\ UNCHANGED <<row, events, outputs, at, busy>>

\* A command starts: the CLI computes "now".
Call(a) ==
  /\ a \notin busy
  /\ at' = [at EXCEPT ![a] = clock]
  /\ busy' = busy \cup {a}
  /\ UNCHANGED <<clock, row, events, outputs>>

\* A command that finds nothing, fails a validation of its lease or its output,
\* repeats an idempotency key, or dies: it writes nothing.
Refuse(a) ==
  /\ a \in busy
  /\ Leave(a)
  /\ UNCHANGED <<clock, row, events, outputs>>

\* enqueue_agent_handoff with a key that is not there yet.
Enqueue(a, h) ==
  /\ a \in busy
  /\ row[h].status = "absent"
  /\ row' = [row EXCEPT ![h] = [status |-> "pending", owner |-> None, expires |-> 0,
                                created |-> at[a]]]
  /\ Record(h, "enqueued", None, 0, at[a])
  /\ Leave(a)
  /\ UNCHANGED <<clock, outputs>>

\* claim_agent_handoff: pending rows only, with or without a lease.
Claim(a, h, ttl) ==
  /\ a \in busy
  /\ row[h].status = "pending"
  /\ Take(h, a, "claimed", Until(at[a], ttl))

ClaimNext(a, role) ==
  /\ a \in busy
  /\ \E h \in NextOf(role, at[a]) :
       Take(h, a, IF row[h].status = "claimed" THEN "reclaimed" ELSE "claimed",
            Until(at[a], Ttl))

\* complete_agent_handoff with an owner id; the output passed its validation.
CompleteOwned(a, h) ==
  /\ a \in busy
  /\ LeaseHeld(h, a, at[a])
  /\ outputs' = [outputs EXCEPT ![h] = Append(@, [agent |-> a, at |-> at[a]])]
  /\ Close(h, a, a, "completed")

FailOwned(a, h) ==
  /\ a \in busy
  /\ LeaseHeld(h, a, at[a])
  /\ Close(h, a, a, "failed")
  /\ UNCHANGED outputs

\* complete_ and fail_agent_handoff without an owner id: legacy rows only.
CloseLegacy(a, h, verdict) ==
  /\ a \in busy
  /\ h \in Legacy
  /\ row[h].status \in Live
  /\ Close(h, a, None, verdict)
  /\ UNCHANGED outputs

Step(a) ==
  \/ Call(a) \/ Refuse(a)
  \/ \E h \in Handoff : \/ Enqueue(a, h) \/ CompleteOwned(a, h) \/ FailOwned(a, h)
                        \/ \E ttl \in ClaimTtl : Claim(a, h, ttl)
                        \/ \E verdict \in Verdict : CloseLegacy(a, h, verdict)
  \/ \E role \in Role : ClaimNext(a, role)

Next == Tick \/ \E a \in Agent : Step(a)

Spec == Init /\ [][Next]_vars
-----------------------------------------------------------------------------
LastEvent(s) == s[Len(s)]
Claims(h) == {k \in DOMAIN events[h] : events[h][k].type \in ClaimType}

\* What the last event of a row says of its status.
StatusAfter == [type \in EventType |->
                  CASE type = "enqueued" -> "pending"
                    [] type \in ClaimType -> "claimed"
                    [] OTHER -> type]

\* The audit log of a row enqueued through the queue tells its whole state: the
\* last event gives its status, the last claim its owner and lease.
EventsTellRow ==
  \A h \in Handoff \ Legacy :
    IF events[h] = <<>>
      THEN row[h].status = "absent"
      ELSE /\ row[h].status = StatusAfter[LastEvent(events[h]).type]
           /\ \A k \in Claims(h) : (\A j \in Claims(h) : j <= k) =>
                /\ row[h].owner = events[h][k].owner
                /\ row[h].expires = events[h][k].until

\* A verdict ends the log of such a row, and directly follows a claim by the
\* same owner whose lease had not run out at the verdict's time.
VerdictInLease ==
  \A h \in Handoff \ Legacy : \A k \in DOMAIN events[h] :
    events[h][k].type \in Verdict =>
      /\ k = Len(events[h])
      /\ k > 1
      /\ events[h][k - 1].type \in ClaimType
      /\ events[h][k - 1].owner = events[h][k].owner
      /\ events[h][k].at < events[h][k - 1].until

\* Replay sorts events by created_at, not by commit: from the first claim on the
\* two orders agree (only "enqueued" may be listed after a claim).
ReplayOrder ==
  \A h \in Handoff \ Legacy : \A j, k \in DOMAIN events[h] :
    1 < j /\ j < k => events[h][j].at <= events[h][k].at

\* Nobody takes a claimed row from its owner while the lease runs, however old
\* the taker's own "now" is.
NoSteal ==
  [][\A h \in Handoff :
       row[h].status = "claimed" /\ row'[h].owner # row[h].owner
       => row[h].expires # 0 /\ row[h].expires <= clock]_vars
=============================================================================
