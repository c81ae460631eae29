-------------------------- MODULE MCDailyWarehouse --------------------------
(* Instance of DailyWarehouse for TLC. *)
EXTENDS DailyWarehouse, TLC

CONSTANTS q1, r1, r2, c1

\* A share's history up to yesterday, or with today's bar; nothing of an ETF.
MCWindow == [s \in Symbol |-> IF s \in Etf THEN {} ELSE {{1}, {1, 2}}]

ThreadSymmetry == Permutations(Refresh)
=============================================================================
