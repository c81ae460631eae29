---------------------------- MODULE MCTaskChain ----------------------------
(* Instances of TaskChain for TLC. *)
EXTENDS TaskChain

CONSTANTS w1, w2

\* Minutes collapse into one instant; an hour and a day stay longer.
MCAfter == [s \in Span |-> CASE s \in {"1m", "2m", "3m", "5m"} -> 0
                             [] s \in {"15m", "30m", "1h"}      -> 1
                             [] s = "1d"                         -> 2]

\* The same with every successor due at once: chains run without waiting.
MCAtOnce == [s \in Span |-> 0]

MCTaskId == 1..7
MCTaskId11 == 1..11
MCRunId4 == 1..4
MCRunId5 == 1..5
MCAlways == 0..3
MCWindow == {1, 2, 3}
ChainRoots == {"hourly_report", "kol_scan", "strategy_analysis"}

LaneRoots == {"post_market_research"}
LeafRoots == {"strategy_iteration"}
Now == {0}
=============================================================================
