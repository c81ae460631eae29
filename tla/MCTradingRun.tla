---------------------------- MODULE MCTradingRun ----------------------------
(* Instances of TradingRun for TLC. *)
EXTENDS TradingRun, TLC

CONSTANTS p1, p2

MCRequest == <<"HK.00700", "HK.00005">>
MCOneCode == <<"HK.00700">>
MCCost == [c \in Code |-> IF c = "HK.00700" THEN 2 ELSE 1]

LockedTick == {[tick |-> TRUE, locks |-> TRUE]}
TickOrDirect == LockedTick \cup {[tick |-> FALSE, locks |-> FALSE]}

ProcessSymmetry == Permutations(Process)
=============================================================================
