-------------------------- MODULE StrategyLifecycle --------------------------
(***************************************************************************)
(* What the strategy registry promises its readers: the status of every    *)
(* strategy version moves candidate -> approved -> active -> retired, each *)
(* move is atomic, and activating a version retires the one that was       *)
(* active.  SqliteStrategyRegistry is compared with it in StrategyRegistry.*)
(***************************************************************************)
CONSTANT Version

VARIABLE status

Init == status = [v \in Version |-> "absent"]

Move(v, from, to) ==
  /\ status[v] = from
  /\ status' = [status EXCEPT ![v] = to]

Activate(v) ==
  /\ status[v] = "approved"
  /\ status' = [w \in Version |-> IF w = v THEN "active"
                                  ELSE IF status[w] = "active" THEN "retired"
                                  ELSE status[w]]

Next == \E v \in Version : \/ Move(v, "absent", "candidate")
                           \/ Move(v, "candidate", "approved")
                           \/ Activate(v)

Spec == Init /\ [][Next]_status
=============================================================================
