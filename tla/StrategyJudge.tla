--------------------------- MODULE StrategyJudge ---------------------------
(***************************************************************************)
(* StrategyJudgeService: the gate a strategy proposal passes before a      *)
(* person may approve it.  Metrics are integers (a fixed number of         *)
(* decimals); None is a metric that is missing or not finite.              *)
(***************************************************************************)
EXTENDS Integers, Sequences

CONSTANT None

\* The defaults of the command line, in the unit of the metrics, are the caller's.
Thresholds == [rankIc : Int, spread : Int, turnover : Int, observations : Nat,
               rankIcDelta : Int, spreadDelta : Int,
               totalReturn : Int, drawdown : Int, periods : Nat, allowGaps : BOOLEAN]

\* A reason per metric: missing, or on the wrong side of its bound.
Missing(x, reason) == {r \in {reason} : x = None}
TooLow(x, bound, reason) == {r \in {reason} : x # None /\ x < bound}

\* Mutant: a champion verdict without one of the metrics is no champion.
Champion_Both(verdict) ==
  IF verdict = None \/ verdict.rankIc = None \/ verdict.spread = None THEN None
  ELSE [rankIc |-> verdict.rankIc, spread |-> verdict.spread]

\* _champion: a champion verdict without the two metrics is no champion.
Champion(verdict) ==
  IF verdict = None \/ (verdict.rankIc = None /\ verdict.spread = None) THEN None
  ELSE [rankIc |-> verdict.rankIc, spread |-> verdict.spread]

\* _champion_reasons: each metric the champion has must be there and improve.
ChampionReasons(m, champion, t) ==
  IF champion = None THEN {}
  ELSE (IF champion.rankIc = None THEN {}
        ELSE Missing(m.rankIc, "challenger_rank_ic_missing")
             \cup TooLow(m.rankIc, champion.rankIc + t.rankIcDelta,
                         "challenger_rank_ic_not_improved"))
       \cup
       (IF champion.spread = None THEN {}
        ELSE Missing(m.spread, "challenger_quantile_spread_missing")
             \cup TooLow(m.spread, champion.spread + t.spreadDelta,
                         "challenger_quantile_spread_not_improved"))

\* _backtest_reasons: the summary in the proposal's evidence.
BacktestReasons(b, t) ==
  IF b = None THEN {r \in {"backtest_summary_missing"} : t.periods > 0}
  ELSE TooLow(b.periods, t.periods, "insufficient_backtest_periods")
       \cup Missing(b.totalReturn, "backtest_total_return_missing")
       \cup TooLow(b.totalReturn, t.totalReturn, "backtest_total_return_below_threshold")
       \cup Missing(b.drawdown, "backtest_drawdown_missing")
       \cup TooLow(b.drawdown, t.drawdown, "backtest_drawdown_above_threshold")

\* _reasons, with the roles the loop has already checked to be distinct.
Reasons(proposal, evaluation, champion, t) ==
  LET m == evaluation.metrics IN
    Missing(m.rankIc, "rank_ic_mean_missing")
    \cup TooLow(m.rankIc, t.rankIc, "rank_ic_mean_below_threshold")
    \cup Missing(m.spread, "quantile_spread_missing")
    \cup TooLow(m.spread, t.spread, "quantile_spread_below_threshold")
    \cup {r \in {"turnover_above_threshold"} :
            m.turnover # None /\ m.turnover > t.turnover}
    \cup TooLow(evaluation.observations, t.observations, "insufficient_observations")
    \cup {r \in {"data_gaps_present"} : evaluation.gaps # {} /\ ~t.allowGaps}
    \cup ChampionReasons(m, Champion(champion), t)
    \cup BacktestReasons(proposal.backtest, t)

\* judge: the verdict row that may be recorded, passed when nothing speaks against it.
\* What is recorded of the reasons is only read by people.
Judge(proposal, evaluation, champion, t) ==
  [proposal |-> proposal.id, version |-> proposal.version,
   gate |-> IF Reasons(proposal, evaluation, champion, t) = {} THEN "passed" ELSE "blocked",
   rankIc |-> evaluation.metrics.rankIc, spread |-> evaluation.metrics.spread]
=============================================================================
