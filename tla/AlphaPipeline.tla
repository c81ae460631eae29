---------------------------- MODULE AlphaPipeline ----------------------------
(***************************************************************************)
(* The alpha pipeline, from the daily bars of the warehouse to the daily   *)
(* report: universe, features and scan, factor evaluation, portfolio       *)
(* backtest and strategy proposal.  It only reads, so it is a set of       *)
(* functions of the bars.                                                  *)
(*                                                                         *)
(* data[s] is what the warehouse holds for symbol s: the closes, one per   *)
(* day from day `first` (None is a close that is not a number), whether it *)
(* is an ETF, and `adjust`, the points its score gets for volume,          *)
(* volatility and valuation.  Returns are in units of 1/Scale, rounded     *)
(* down; a rank correlation keeps its sign only, which is all of it for    *)
(* the two symbols of a day.                                               *)
(***************************************************************************)
EXTENDS Integers, Sequences, FiniteSets, SequencesExt, Missing

CONSTANTS
  Scale,     \* one in the unit of returns
  MinBars,   \* MIN_HISTORY_BARS: 5
  ShortWindow, LongWindow,  \* momentum of 5 and of 20 days in the score
  Lookback   \* the factors' windows: momentum_5d 5, momentum_20d 20

ASSUME PipelineAssumption == /\ Scale \in Nat \ {0}
                             /\ \A f \in DOMAIN Lookback : Lookback[f] \in Nat \ {0}

Featured == DOMAIN Lookback

\* The smallest and largest of a finite set of integers, or None.
Least(S) == IF S = {} THEN None ELSE CHOOSE x \in S : \A y \in S : x <= y
Most(S) == IF S = {} THEN None ELSE CHOOSE x \in S : \A y \in S : y <= x

Total(s) == FoldLeft(LAMBDA a, x : a + x, 0, s)

\* _mean over what is finite.
Mean(s) == LET finite == SelectSeq(s, LAMBDA x : x # None) IN
             IF finite = <<>> THEN None ELSE Total(finite) \div Len(finite)

Return(from, to) ==
  IF from \in {None, 0} \/ to = None THEN None ELSE ((to - from) * Scale) \div from

Set2Seq(S) == SetToSortSeq(S, LAMBDA x, y : x < y)

\* sorted(..., reverse=True): equal keys keep their order; None comes last.
Descending(s, Key(_)) ==
  LET Before(i, j) == \/ Key(s[i]) # None /\ Key(s[j]) = None
                      \/ Key(s[i]) # None /\ Key(s[j]) # None /\ Key(s[i]) > Key(s[j])
                      \/ Key(s[i]) = Key(s[j]) /\ i < j
  IN [k \in DOMAIN s |->
        s[CHOOSE i \in DOMAIN s : Cardinality({j \in DOMAIN s : Before(j, i)}) = k - 1]]

Firsts(s, n) == SubSeq(s, 1, IF n < Len(s) THEN n ELSE Len(s))
-----------------------------------------------------------------------------
(* Universe, features, scan. *)

\* build_universe: the symbols asked for, or the catalogue's that have bars.
Universe(data, asked, kind, catalog) ==
  LET rows == IF asked # <<>> THEN asked
              ELSE IF kind = "watchlist" THEN <<>>
              ELSE SelectSeq(catalog, LAMBDA s : data[s].closes # <<>>)
  IN SelectSeq(rows, LAMBDA s : (kind = "etf" => data[s].etf) /\ (kind = "stock" => ~data[s].etf))

\* _window_return.
WindowReturn(closes, window) ==
  IF Len(closes) <= window THEN None
  ELSE Return(closes[Len(closes) - window], closes[Len(closes)])

Or(x, default) == IF x = None THEN default ELSE x

\* build_features: no score without MIN_HISTORY_BARS bars.
Feature(d) ==
  LET n == Len(d.closes) IN
    IF n = 0 THEN [score |-> None, quality |-> "missing"]
    ELSE IF n < MinBars THEN [score |-> None, quality |-> "partial"]
    ELSE [quality |-> "ok",
          score |-> 50 * Scale + 100 * Or(WindowReturn(d.closes, ShortWindow), 0)
                      + 50 * Or(WindowReturn(d.closes, LongWindow), 0) + d.adjust]

\* scan: ranked by score; its status speaks of the candidates that are returned.
Scan(data, asked, kind, catalog, top) ==
  LET universe == Universe(data, asked, kind, catalog)
      items == Firsts(Descending([i \in DOMAIN universe |->
                                  [symbol |-> universe[i]] @@ Feature(data[universe[i]])],
                               LAMBDA c : c.score), top)
  IN [items |-> items,
      status |-> IF universe = <<>> THEN "empty"
                 ELSE IF \E i \in DOMAIN items : items[i].quality # "ok" THEN "partial"
                 ELSE "ok"]
-----------------------------------------------------------------------------
(* Evaluation. *)

Day(d, i) == d.first + i - 1

\* Mutant: the days whose forward returns are not known yet are kept.
EffectiveEnd_Requested(d, windows, end) == end

\* _effective_end: the last day whose longest forward return is known, or the
\* requested end; a history shorter than the window is not cut.
EffectiveEnd(d, windows, end) ==
  LET n == Len(d.closes)
      w == Most(windows)
  IN IF n <= w THEN end
     ELSE IF end = None THEN Day(d, n - w)
     ELSE Least({end, Day(d, n - w)})

\* The rows of _symbol_observations before those without a factor are dropped.
Selected(d, windows, start, end) ==
  LET last == EffectiveEnd(d, windows, end) IN
    {i \in DOMAIN d.closes : /\ start = None \/ Day(d, i) >= start
                             /\ last = None \/ Day(d, i) <= last}

FactorAt(d, f, i) == IF i <= Lookback[f] THEN None
                     ELSE Return(d.closes[i - Lookback[f]], d.closes[i])

ForwardAt(d, w, i) == IF i + w > Len(d.closes) THEN None
                      ELSE Return(d.closes[i], d.closes[i + w])

Observed(d, f, windows, start, end) ==
  {i \in Selected(d, windows, start, end) : FactorAt(d, f, i) # None}

\* _build_observation_frame: the observations of all symbols.
Frame(data, symbols, f, windows, start, end) ==
  UNION {{[day |-> Day(data[s], i), symbol |-> s, factor |-> FactorAt(data[s], f, i),
           forward |-> [w \in windows |-> ForwardAt(data[s], w, i)]] :
            i \in Observed(data[s], f, windows, start, end)} : s \in symbols}

\* ... and its gaps, by kind.
Gaps(data, symbols, f, windows, start, end) ==
  UNION {LET rows == Observed(data[s], f, windows, start, end) IN
           IF data[s].closes = <<>> THEN {<<"missing_daily_history", s>>}
           ELSE {<<"missing_factor", x>> : x \in {y \in {s} : rows = {}}}
                \cup {<<"missing_forward_return", w>> : w \in
                        {v \in windows : \A i \in rows : ForwardAt(data[s], v, i) = None}}
                \cup {<<"partial_missing_forward_return", w>> : w \in
                        {v \in windows : /\ \E i \in rows : ForwardAt(data[s], v, i) = None
                                         /\ \E i \in rows : ForwardAt(data[s], v, i) # None}}
         : s \in symbols}

Days(frame) == {o.day : o \in frame}
OnDay(frame, day) == {o \in frame : o.day = day}
Known(frame, w) == {o \in frame : o.forward[w] # None}

\* The sign of the covariance of factor and return over a day's pairs of symbols.
Agreement(group, w) ==
  LET Pairs(rel) == Cardinality({p \in group \X group :
        p[1].factor < p[2].factor /\ (IF rel THEN p[1].forward[w] < p[2].forward[w]
                                             ELSE p[1].forward[w] > p[2].forward[w])})
      net == Pairs(TRUE) - Pairs(FALSE)
  IN IF net > 0 THEN Scale ELSE IF net < 0 THEN -Scale ELSE 0

\* _daily_correlations: days with at least two factor values; a constant return
\* has no correlation.
Correlations(frame, w) ==
  LET days == Set2Seq({d \in Days(frame) :
                 LET g == OnDay(frame, d) IN
                   /\ Cardinality({o.factor : o \in g}) >= 2
                   /\ Cardinality({o.forward[w] : o \in g}) >= 2})
  IN [k \in DOMAIN days |-> Agreement(OnDay(frame, days[k]), w)]

\* rank(method="first") of an observation among those of its day, by factor.
Rank(group, order, o) ==
  Cardinality({x \in group : \/ x.factor < o.factor
                             \/ x.factor = o.factor /\ order[x.symbol] < order[o.symbol]}) + 1

\* pd.qcut of the ranks 1..n into q: bin k ends at rank 1 + (n - 1) * k / q.
Bin(rank, n, q) == Least({k \in 1..q : (rank - 1) * q <= k * (n - 1)})

\* _with_quantiles for one day: each observation's quantile, or nothing.
Quantiles(group, order, quantiles) ==
  LET q == Least({quantiles, Cardinality({o.factor : o \in group}), Cardinality(group)}) IN
    IF q < 2 THEN {}
    ELSE {[o |-> o, quantile |-> Bin(Rank(group, order, o), Cardinality(group), q)] : o \in group}

\* _quantile_spread: top against bottom quantile over all days.
Spread(frame, order, quantiles, w) ==
  LET rows == UNION {Quantiles(OnDay(frame, d), order, quantiles) : d \in Days(frame)}
      used == {r.quantile : r \in rows}
      Avg(k) == LET s == SetToSeq({r \in rows : r.quantile = k})
                IN Mean([i \in DOMAIN s |-> s[i].o.forward[w]])
  IN IF Cardinality(used) < 2 THEN None ELSE Avg(Most(used)) - Avg(Least(used))

Share(part, whole) == (part * Scale) \div whole

\* How much of a list of holdings is exchanged on average from one day to the next.
Exchanged(holdings) ==
  Mean([k \in 1 .. Len(holdings) - 1 |->
          Scale - Share(Cardinality(holdings[k] \cap holdings[k + 1]), Cardinality(holdings[k]))])

\* _turnover of the top quantile.
Turnover(frame, order, quantiles) ==
  LET days == Set2Seq({d \in Days(frame) : Quantiles(OnDay(frame, d), order, quantiles) # {}})
      Top(d) == LET rows == Quantiles(OnDay(frame, d), order, quantiles) IN
                  {r.o.symbol : r \in {x \in rows : x.quantile = Most({y.quantile : y \in rows})}}
  IN IF days = <<>> THEN None ELSE Exchanged([k \in DOMAIN days |-> Top(days[k])])

Ceil(a, b) == (a + b - 1) \div b

\* _sample_split: the days of the frame, 60 / 20 / 20, and never an empty train.
SampleSplit(frame) ==
  LET days == Set2Seq(Days(frame))
      n == Len(days)
      train == IF Ceil(n * 6, 10) > 1 THEN Ceil(n * 6, 10) ELSE 1
      validation == IF Ceil(n * 8, 10) > train THEN Ceil(n * 8, 10) ELSE train
      Part(a, b) == {o \in frame : \E k \in a..b : k <= n /\ days[k] = o.day}
  IN IF n = 0 THEN [train |-> {}, validation |-> {}, outOfSample |-> {}]
     ELSE [train |-> Part(1, train), validation |-> Part(train + 1, validation),
           outOfSample |-> Part(validation + 1, n)]

\* evaluate.
Evaluate(data, symbols, order, f, windows, start, end, quantiles) ==
  LET frame == Frame(data, symbols, f, windows, start, end)
      gaps == Gaps(data, symbols, f, windows, start, end)
      byWindow == Set2Seq(windows)
      all == FoldLeft(LAMBDA a, w : a \o Correlations(Known(frame, w), w), <<>>, byWindow)
      first == byWindow[1]
  IN [observations |-> Cardinality(frame),
      gaps |-> IF symbols = {} THEN {<<"empty_universe", None>>} ELSE gaps,
      status |-> IF symbols = {} THEN "empty"
                 ELSE IF gaps # {} \/ frame = {} THEN "partial" ELSE "ok",
      effectiveEnd |-> Most(Days(frame)),
      split |-> SampleSplit(frame),
      metrics |-> [rankIc |-> Mean(all),
                   spread |-> Spread(Known(frame, first), order, quantiles, first),
                   turnover |-> Turnover(frame, order, quantiles)]]
-----------------------------------------------------------------------------
(* Backtest. *)

\* What is held after a day: the n best by factor (sort_values leaves the order of
\* equal factors open; here the later symbol goes first).
Best(group, order, n) ==
  {o \in group : Cardinality(group) - Rank(group, order, o) < n}

\* The period whose holdings the trades of period k start from.
Before(k) == k - 1

\* _periods: one portfolio per day, equally weighted, its turnover paid for.
Periods(frame, order, n, w, cost) ==
  LET known == Known(frame, w)
      days == Set2Seq(Days(known))
      Portfolio(k) == Best(OnDay(known, days[k]), order, n)
      Held(k) == {o.symbol : o \in Portfolio(k)}
  IN [k \in DOMAIN days |->
       LET before == IF k = 1 THEN {} ELSE Held(Before(k))
           turnover == IF k = 1 THEN Scale
                       ELSE Scale - Share(Cardinality(before \cap Held(k)), Cardinality(before))
           best == SetToSeq(Portfolio(k))
           gross == Mean([i \in DOMAIN best |-> best[i].forward[w]])
       IN [day |-> days[k], held |-> Held(k), turnover |-> turnover,
           buys |-> Cardinality(Held(k) \ before), sells |-> Cardinality(before \ Held(k)),
           net |-> gross - (turnover * cost) \div 10000]]

\* The equity after each period, from one.
Equity(periods) ==
  LET equity[k \in 0 .. Len(periods)] ==
        IF k = 0 THEN Scale ELSE (equity[k - 1] * (Scale + periods[k].net)) \div Scale
  IN [k \in DOMAIN periods |-> equity[k]]

\* _max_drawdown: the peak starts at the first period's equity, not at one.
MaxDrawdown(equity) ==
  IF equity = <<>> THEN None
  ELSE FoldLeft(LAMBDA a, v :
                  LET peak == IF v > a.peak THEN v ELSE a.peak
                      fall == IF peak = 0 THEN 0 ELSE Share(v, peak) - Scale
                  IN [peak |-> peak, worst |-> IF fall < a.worst THEN fall ELSE a.worst],
                [peak |-> equity[1], worst |-> 0], equity).worst

\* backtest and _summary.
Backtest(data, symbols, order, f, start, end, n, holding, cost) ==
  LET periods == Periods(Frame(data, symbols, f, {holding}, start, end), order, n, holding, cost)
      equity == Equity(periods)
  IN [periods |-> Len(periods),
      orders |-> Total([k \in DOMAIN periods |-> periods[k].buys + periods[k].sells]),
      totalReturn |-> IF periods = <<>> THEN None ELSE equity[Len(equity)] - Scale,
      drawdown |-> MaxDrawdown(equity),
      turnover |-> Mean([k \in DOMAIN periods |-> periods[k].turnover])]
-----------------------------------------------------------------------------
(* The daily report. *)

\* report: the scan's candidates are what is evaluated and backtested; a proposal
\* needs a candidate and an observation.  The report's date bounds neither.
Report(data, catalog, asked, kind, f, windows, start, end, top, quantiles, cost) ==
  LET scan == Scan(data, asked, kind, catalog, top)
      candidates == [i \in DOMAIN scan.items |-> scan.items[i].symbol]
      listed == IF candidates # <<>> THEN candidates ELSE Universe(data, asked, kind, catalog)
      symbols == ToSet(listed)
      order == [s \in symbols |-> Least({i \in DOMAIN listed : listed[i] = s})]
      evaluation == Evaluate(data, symbols, order, f, windows, start, end, quantiles)
      backtest == Backtest(data, symbols, order, f, start, end, top, Least(windows), cost)
  IN [status |-> IF scan.status = "empty" THEN "empty"
                 ELSE IF "partial" \in {scan.status, evaluation.status} THEN "partial" ELSE "ok",
      candidates |-> candidates,
      evaluation |-> evaluation,
      backtest |-> backtest,
      proposes |-> candidates # <<>> /\ evaluation.observations > 0]
=============================================================================
