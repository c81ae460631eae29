---------------------------- MODULE WatchSnapshot ----------------------------
(***************************************************************************)
(* The answer of WatchPollingService for one symbol, as functions of what  *)
(* its sources returned and of the snapshot it is compared with: the       *)
(* quote with its fallback to the last daily bar, the status, the delta    *)
(* and the alerts.                                                         *)
(*                                                                         *)
(* Prices are integers, volume ratios are in tenths and turnover rates in  *)
(* basis points.  Fields that neither the delta nor an alert nor the       *)
(* status reads are left out.                                              *)
(***************************************************************************)
EXTENDS Integers, Missing

\* What the sources return for a symbol: the realtime quote and the daily bars,
\* each may be None; whether no fundamental figure is missing; and the days to
\* the next earnings, which are only looked for on the us market.
\*   quote: price, high, low, turnover, volumeRatio
\*   daily: bars (how many), close, high and low of the last one, the high and the
\*          low of the 20 before it, its volume ratio, the analyzer's, and its trend

NoQuote == [price |-> None, high |-> None, low |-> None, turnover |-> None,
            volumeRatio |-> None, mode |-> "unavailable"]

\* _compute_volume_ratio needs six bars.
DailyVolumeRatio(d) == IF d.bars < 6 THEN None ELSE d.ratio

\* _build_quote_payload: the realtime quote, else the last daily bar, else nothing.
QuotePayload(f) ==
  IF f.quote # None /\ f.quote.price # None
    THEN [price |-> f.quote.price, high |-> f.quote.high, low |-> f.quote.low,
          turnover |-> f.quote.turnover, volumeRatio |-> f.quote.volumeRatio,
          mode |-> "realtime"]
  ELSE IF f.daily = None THEN NoQuote
  ELSE [price |-> f.daily.close, high |-> f.daily.high, low |-> f.daily.low,
        turnover |-> None, volumeRatio |-> DailyVolumeRatio(f.daily),
        mode |-> "daily_fallback"]

\* _detect_breakout_state.
Breakout(d, quoted) ==
  LET price == IF quoted = None THEN d.close ELSE quoted IN
    IF d.bars <= 20 \/ price = None THEN "none"
    ELSE IF d.recentHigh \notin {None, 0} /\ price > d.recentHigh THEN "up"
    ELSE IF d.recentLow # None /\ price < d.recentLow THEN "down"
    ELSE "none"

\* _build_technical_payload.
Technical(f, q) ==
  IF f.daily = None \/ (f.daily # None /\ f.daily.bars < 20)
    THEN [trend |-> "unknown", breakout |-> "none", volumeRatio |-> q.volumeRatio]
    ELSE [trend |-> f.daily.trend, breakout |-> Breakout(f.daily, q.price),
          volumeRatio |-> IF q.volumeRatio = None THEN f.daily.analyzed ELSE q.volumeRatio]

\* _build_earnings_watch: earnings that are over count as unknown.
EarningsDays(f, us) == IF us /\ f.earnings # None /\ f.earnings >= 0 THEN f.earnings ELSE None

\* The status of _build_current_snapshot.
Grade(f, us, q) ==
  IF q.price = None /\ f.daily = None THEN "failed"
  ELSE IF \/ q.price = None
          \/ q.mode = "daily_fallback"
          \/ ~f.complete
          \/ us /\ EarningsDays(f, us) = None
    THEN "partial"
  ELSE "ok"

\* Mutant: the time of a fallback is the day of its bar, not the time of the poll.
Snapshot_BarTime(f, us, at) ==
  LET q == QuotePayload(f)
      t == Technical(f, q)
  IN [at |-> IF q.mode = "daily_fallback" THEN 0 ELSE at, status |-> Grade(f, us, q),
      mode |-> q.mode, price |-> q.price, high |-> q.high, low |-> q.low,
      turnover |-> q.turnover, volumeRatio |-> t.volumeRatio, trend |-> t.trend,
      breakout |-> t.breakout, earnings |-> EarningsDays(f, us)]

\* _build_current_snapshot, taken at the time `at`.
Snapshot(f, us, at) ==
  LET q == QuotePayload(f)
      t == Technical(f, q)
  IN [at |-> at, status |-> Grade(f, us, q), mode |-> q.mode,
      price |-> q.price, high |-> q.high, low |-> q.low, turnover |-> q.turnover,
      volumeRatio |-> t.volumeRatio, trend |-> t.trend, breakout |-> t.breakout,
      earnings |-> EarningsDays(f, us)]
-----------------------------------------------------------------------------
\* Two values can be compared, and a price move needs a price to start from.
Both(a, b) == a # None /\ b # None
Movable(price, previous) == price # None /\ previous \notin {None, 0}

\* _build_delta.
Delta(current, previous) ==
  IF previous = None THEN [status |-> "initial", fields |-> {}]
  ELSE
    LET fields ==
          {f \in {"price"} : /\ Movable(current.price, previous.price)
                             /\ current.price # previous.price}
          \cup {f \in {"volume_ratio"} : /\ Both(current.volumeRatio, previous.volumeRatio)
                                         /\ current.volumeRatio # previous.volumeRatio}
          \cup {f \in {"turnover_rate"} : /\ Both(current.turnover, previous.turnover)
                                          /\ current.turnover # previous.turnover}
          \cup {f \in {"technical_state"} : \/ current.trend # previous.trend
                                            \/ current.breakout # previous.breakout}
    IN [status |-> IF fields = {} THEN "unchanged" ELSE "updated", fields |-> fields]

\* PRICE_JUMP_THRESHOLD, 2%: the direction of the move from one price to another.
Jump(price, previous) ==
  IF ~Movable(price, previous) THEN "none"
  ELSE IF 100 * (price - previous) >= 2 * previous THEN "up"
  ELSE IF 100 * (price - previous) <= -(2 * previous) THEN "down"
  ELSE "none"

\* The alerts of _build_alerts that compare with the previous snapshot.
SwitchAlerts(current, previous) ==
  {code \in {"price_jump_up"} : Jump(current.price, previous.price) = "up"}
  \cup {code \in {"price_jump_down"} : Jump(current.price, previous.price) = "down"}
  \cup {code \in {"turnover_spike"} : /\ Both(current.turnover, previous.turnover)
                                      /\ current.turnover - previous.turnover >= 100}
  \cup {code \in {"breakout_up"} : current.breakout = "up" /\ previous.breakout # "up"}
  \cup {code \in {"breakout_down"} : current.breakout = "down" /\ previous.breakout # "down"}

Distance(a, b) == IF a > b THEN a - b ELSE b - a

\* The other alerts: VOLUME_SPIKE_THRESHOLD is 1.8, NEAR_DAY_EXTREME_THRESHOLD 1%
\* (of the high, and of the price), EARNINGS_SOON_DAYS 7.
StateAlerts(s) ==
  {code \in {"volume_spike"} : s.volumeRatio # None /\ s.volumeRatio >= 18}
  \cup {code \in {"near_day_high"} : /\ s.price # None
                                     /\ s.high \notin {None, 0}
                                     /\ 100 * Distance(s.high, s.price) <= s.high}
  \cup {code \in {"near_day_low"} : /\ s.price # None
                                    /\ s.low \notin {None, 0}
                                    /\ 100 * Distance(s.price, s.low) <= s.price}
  \cup {code \in {"earnings_soon"} : s.earnings # None /\ s.earnings <= 7}

\* near_day_low divides by the price.
DividesByZero(s) == s.price = 0 /\ s.low \notin {None, 0}

\* _build_alerts.
Alerts(current, previous) ==
  StateAlerts(current) \cup IF previous = None THEN {} ELSE SwitchAlerts(current, previous)
=============================================================================
