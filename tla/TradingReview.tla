----------------------------- MODULE TradingReview -----------------------------
(***************************************************************************)
(* The programs that look back at simulated trading.                       *)
(*                                                                         *)
(* trading_strategy_review_cli and trading_daily_summary_cli read the runs *)
(* of a day, then all orders, then the risk decisions of each run, every   *)
(* time in a connection of its own, while rounds may be writing.  The      *)
(* rounds are here what the ledger sees of them; their lock, keys and      *)
(* retries are in TradingRun.                                              *)
(*                                                                         *)
(* trading_strategy_backtest_cli replays the strategy on K-line bars.      *)
(* The quantity of an order is one, prices are integers.                   *)
(***************************************************************************)
EXTENDS Integers, FiniteSets, Sequences, SequencesExt, Missing

CONSTANTS
  Rounds,        \* the ids of the rounds, numbers in the order they start
  ReviewCodes,   \* --codes
  BuyAbove,      \* the threshold of each code
  ReviewPrices,  \* the prices a snapshot or a bar may tell
  ReviewQuotes,  \* what a source may answer for a code: [price, lag], how old the quote is
  OrderLimit,    \* --max-order-notional
  DayLength,     \* instants in a day
  ReviewEnd,     \* the last instant
  MinRuns,       \* --min-runs
  MaxRejected    \* --max-rejection-rate, in percent

ASSUME ReviewAssumption ==
  /\ Rounds \subseteq Nat /\ IsFiniteSet(Rounds)
  /\ ReviewPrices \subseteq Nat
  /\ ReviewQuotes \subseteq [price : ReviewPrices \cup {None}, lag : Nat \cup {None}]
  /\ ReviewCodes \subseteq DOMAIN BuyAbove
  /\ \A c \in ReviewCodes : BuyAbove[c] \in Int \cup {None}
  /\ {OrderLimit, DayLength, ReviewEnd, MinRuns, MaxRejected} \subseteq Nat /\ DayLength > 0
  /\ None \notin Int /\ None \notin [price : ReviewPrices \cup {None}, asOf : Int \cup {None}]
  /\ None \notin [ReviewCodes -> [price : ReviewPrices \cup {None}, asOf : Int \cup {None}] \cup {None}]

VARIABLES
  reviewTime,  \* the clock
  book,        \* the ledger: the run row of each round, its decisions and its orders
  rounds,      \* the processes of the rounds
  review,      \* the review under way
  kline        \* the bars of a backtest, in the order they were given

reviewVars == <<reviewTime, book, rounds, review, kline>>

Price == ReviewPrices \cup {None}
LedgerDay(t) == t \div DayLength

NoRun == [status |-> "absent", started |-> None, snapshots |-> None, decisions |-> {}, orders |-> {}]
NoRound == [step |-> "start", quotes |-> None, rich |-> TRUE, todo |-> {}, sent |-> None]

ReviewInit ==
  /\ reviewTime = 0
  /\ book = [r \in Rounds |-> NoRun]
  /\ rounds = [r \in Rounds |-> NoRound]
  /\ review = [step |-> "runs", date |-> None, runs |-> {}, toRead |-> {},
               rows |-> [r \in Rounds |-> NoRun], orders |-> {}, decisions |-> {}]
  /\ kline = <<>>
-----------------------------------------------------------------------------
(* run_once, as far as the ledger tells it. *)

\* start_run.
RoundStarts(r) ==
  /\ rounds[r].step = "start"
  /\ \A q \in Rounds : q < r => book[q].status # "absent"
  /\ book' = [book EXCEPT ![r].status = "running", ![r].started = reviewTime]
  /\ rounds' = [rounds EXCEPT ![r].step = "quote"]
  /\ UNCHANGED <<reviewTime, review, kline>>

\* FixedThresholdStrategy.generate.
SignalsOf(quotes, positions) ==
  {c \in ReviewCodes \ positions : /\ quotes[c] # None /\ quotes[c].price # None
                                  /\ BuyAbove[c] # None /\ quotes[c].price >= BuyAbove[c]}

Decided == UNION {{d.code : d \in {e \in book[q].decisions : e.status = "accepted"}} : q \in Rounds}
Ordered(c) == \E q \in Rounds : \E o \in book[q].orders : o.code = c

\* _map_snapshot, _load_snapshots_json: the time of a snapshot is its quote's own, or missing.
Snapshot(quote) ==
  [price |-> quote.price, asOf |-> IF quote.lag = None THEN None ELSE reviewTime - quote.lag]

\* The snapshots of the codes that the source knows, the account and the positions, of
\* which the broker may have some that were ordered.
RoundQuotes(r, answer, rich, positions) ==
  LET quotes == [c \in ReviewCodes |-> IF answer[c] = None THEN None ELSE Snapshot(answer[c])]
  IN /\ rounds[r].step = "quote"
     /\ rounds' = [rounds EXCEPT ![r] = [step |-> "decide", quotes |-> quotes, rich |-> rich,
                                         todo |-> SignalsOf(quotes, positions), sent |-> None]]
     /\ UNCHANGED <<reviewTime, book, review, kline>>

\* MaxNotionalRiskPolicy.evaluate.
RiskStatus(r, c) ==
  IF Ordered(c) \/ rounds[r].quotes[c].price > OrderLimit \/ ~rounds[r].rich THEN "rejected" ELSE "accepted"

\* record_risk_decision; an accepted order is then sent.
RoundDecides(r, c) ==
  /\ rounds[r].step = "decide"
  /\ c \in rounds[r].todo
  /\ book' = [book EXCEPT ![r].decisions = @ \cup {[run |-> r, code |-> c, status |-> RiskStatus(r, c)]}]
  /\ rounds' = [rounds EXCEPT ![r].todo = @ \ {c},
                              ![r].step = IF RiskStatus(r, c) = "accepted" THEN "order" ELSE "decide",
                              ![r].sent = c]
  /\ UNCHANGED <<reviewTime, review, kline>>

\* record_order.
RoundOrders(r) ==
  LET c == rounds[r].sent IN
    /\ rounds[r].step = "order"
    /\ book' = [book EXCEPT ![r].orders = @ \cup {[run |-> r, code |-> c, price |-> rounds[r].quotes[c].price]}]
    /\ rounds' = [rounds EXCEPT ![r].step = "decide"]
    /\ UNCHANGED <<reviewTime, review, kline>>

\* finish_run: only a round that went well leaves its snapshots.
RoundEnds(r, status) ==
  /\ rounds[r].step \in {"quote", "decide", "order"}
  /\ status = "ok" => rounds[r].step = "decide" /\ rounds[r].todo = {}
  /\ book' = [book EXCEPT ![r].status = status,
                          ![r].snapshots = IF status = "ok" THEN rounds[r].quotes ELSE None]
  /\ rounds' = [rounds EXCEPT ![r] = [NoRound EXCEPT !.step = "over"]]
  /\ UNCHANGED <<reviewTime, review, kline>>

\* The process dies: its run stays "running".
RoundDies(r) ==
  /\ rounds[r].step \in {"quote", "decide", "order"}
  /\ rounds' = [rounds EXCEPT ![r] = [NoRound EXCEPT !.step = "over"]]
  /\ UNCHANGED <<reviewTime, book, review, kline>>

ReviewTimePasses ==
  /\ reviewTime < ReviewEnd
  /\ reviewTime' = reviewTime + 1
  /\ UNCHANGED <<book, rounds, review, kline>>
-----------------------------------------------------------------------------
(* build_daily_summary. *)

\* _run_matches_date: started on that day, or with a snapshot of it.
MatchesDate(row, date) ==
  /\ row.status # "absent"
  /\ \/ LedgerDay(row.started) = date
     \/ /\ row.snapshots # None
        /\ \E c \in ReviewCodes : /\ row.snapshots[c] # None /\ row.snapshots[c].asOf # None
                                 /\ LedgerDay(row.snapshots[c].asOf) = date

\* list_runs, the rows of the day.
ReviewReadsRuns(date) ==
  LET runs == {r \in Rounds : MatchesDate(book[r], date)}
  IN /\ review.step = "runs"
     /\ review' = [review EXCEPT !.step = "orders", !.date = date, !.runs = runs, !.toRead = runs,
                                 !.rows = [r \in Rounds |-> IF r \in runs THEN book[r] ELSE NoRun]]
     /\ UNCHANGED <<reviewTime, book, rounds, kline>>

\* list_orders, those of the runs it has read.
ReviewReadsOrders ==
  /\ review.step = "orders"
  /\ review' = [review EXCEPT !.step = "decisions",
                              !.orders = UNION {book[r].orders : r \in review.runs}]
  /\ UNCHANGED <<reviewTime, book, rounds, kline>>

\* list_risk_decisions, for one run after the other in the order of their start.
ReviewReadsDecisions ==
  /\ review.step = "decisions"
  /\ \E r \in review.toRead :
       /\ \A q \in review.toRead : r <= q
       /\ review' = [review EXCEPT !.toRead = @ \ {r}, !.decisions = @ \cup book[r].decisions]
  /\ UNCHANGED <<reviewTime, book, rounds, kline>>

ReviewEnded == review.step = "decisions" /\ review.toRead = {}

\* The snapshots of a code that the review has.
Priced(c) == {r \in review.runs : review.rows[r].snapshots # None /\ review.rows[r].snapshots[c] # None}
Quoted(r, c) == review.rows[r].snapshots[c]

\* Mutant: snapshots without a time come last.
SortsBefore_NoneLast(c, q, r) ==
  LET a == Quoted(q, c).asOf
      b == Quoted(r, c).asOf
  IN IF a = b THEN q < r ELSE IF a = None THEN FALSE ELSE b = None \/ a < b

\* _sort_snapshots, of a code by as_of: those without a time come first, and the sort keeps
\* the order of the runs otherwise.
SortsBefore(c, q, r) ==
  LET a == Quoted(q, c).asOf
      b == Quoted(r, c).asOf
  IN IF a = b THEN q < r ELSE IF b = None THEN FALSE ELSE a = None \/ a < b

\* _summarize_market: the last snapshot of each code.
LatestRun(c) == CHOOSE r \in Priced(c) : \A q \in Priced(c) \ {r} : SortsBefore(c, q, r)
LatestPrice(c) == IF Priced(c) = {} THEN None ELSE Quoted(LatestRun(c), c).price

\* build_ledger_backtest: the gain of an order at the latest price.
MarkedGain(o) == IF LatestPrice(o.code) = None \/ o.price = 0 THEN None ELSE LatestPrice(o.code) - o.price

Rejected == {d \in review.decisions : d.status = "rejected"}

\* _gate_reasons.
GateReasons ==
  {g \in {"insufficient_runs"} : Cardinality(review.runs) < MinRuns}
  \cup {g \in {"rejection_rate_exceeds_limit"} :
          100 * Cardinality(Rejected) > MaxRejected * Cardinality(review.decisions)}
  \cup {g \in {"missing_market_replay"} : \A c \in ReviewCodes : Priced(c) = {}}
-----------------------------------------------------------------------------
(* trading_strategy_backtest_cli. *)

\* The bars come in any order and each has its time.
BarArrives(time, close) ==
  /\ \A k \in DOMAIN kline : kline[k].time # time
  /\ kline' = Append(kline, [time |-> time, close |-> close])
  /\ UNCHANGED <<reviewTime, book, rounds, review>>

\* _backtest_one_code.
BacktestCode(rows, threshold) ==
  LET bars == ToSet(rows)
      hits == {b \in bars : b.close # None /\ b.close >= threshold}
      entry == CHOOSE b \in hits : \A h \in hits : b.time <= h.time
      exit == (CHOOSE b \in bars : \A h \in bars : h.time <= b.time).close
  IN IF threshold = None THEN [status |-> "skipped", reason |-> "missing_threshold"]
     ELSE IF hits = {} THEN [status |-> "skipped", reason |-> "no_signal"]
     ELSE IF entry.close > OrderLimit
       THEN [status |-> "rejected", reason |-> "order_notional_exceeds_limit", entry |-> entry]
     ELSE [status |-> "accepted", entry |-> entry,
           gain |-> IF exit = None \/ entry.close = 0 THEN None ELSE exit - entry.close]
-----------------------------------------------------------------------------
ReviewNext ==
  \/ \E r \in Rounds :
       \/ RoundStarts(r)
       \/ \E answer \in [ReviewCodes -> ReviewQuotes \cup {None}], rich \in BOOLEAN :
            \E positions \in SUBSET Decided : RoundQuotes(r, answer, rich, positions)
       \/ \E c \in ReviewCodes : RoundDecides(r, c)
       \/ RoundOrders(r)
       \/ \E status \in {"ok", "failed"} : RoundEnds(r, status)
       \/ RoundDies(r)
  \/ ReviewTimePasses
  \/ \E date \in 0 .. LedgerDay(reviewTime) : ReviewReadsRuns(date)
  \/ ReviewReadsOrders
  \/ ReviewReadsDecisions

BacktestNext == \E time \in 0 .. ReviewEnd : \E close \in Price : BarArrives(time, close)

ReviewSpec == ReviewInit /\ [][ReviewNext \/ BacktestNext]_reviewVars
-----------------------------------------------------------------------------
\* A review beside rounds at work tells a run that had ended in full, and shows no order
\* without the decision that let it through.  An order of a run that ended well was bought
\* at the price of its run's own snapshot of the code; when that has a time, the price the
\* order is marked at has one too and is no older.  (When it has none, it sorts before
\* every snapshot with a time, and an older price may mark the order.)  An order is left
\* unmarked only when its own or the last price says nothing.
\* A gate that lets the strategy pass has seen a run that ended well.
\* (build_daily_summary, _sort_snapshots, build_ledger_backtest, _gate_reasons)
ReviewTold ==
  ReviewEnded =>
    /\ \A r \in review.runs : review.rows[r].status \in {"ok", "failed"} =>
         /\ book[r].orders \subseteq review.orders
         /\ book[r].decisions \subseteq review.decisions
    /\ \A o \in review.orders : [run |-> o.run, code |-> o.code, status |-> "accepted"] \in review.decisions
    /\ \A o \in review.orders : review.rows[o.run].status = "ok" =>
         LET bought == Quoted(o.run, o.code)
             mark == Quoted(LatestRun(o.code), o.code)
         IN /\ bought # None /\ bought.price = o.price
            /\ bought.asOf # None => mark.asOf # None /\ mark.asOf >= bought.asOf
            /\ MarkedGain(o) = None => LatestPrice(o.code) = None \/ o.price = 0
    /\ GateReasons = {} => \E r \in review.runs : review.rows[r].status = "ok"

\* What the backtest buys is the first order that rounds on the same bars would send.
\* It buys no more, and buys less only where a bar above the limit came first: the rounds
\* go on after it, the backtest does not.
\* (_backtest_one_code against FixedThresholdStrategy and MaxNotionalRiskPolicy)
BacktestLikeRounds ==
  \A c \in ReviewCodes :
    LET bought == {b \in ToSet(kline) : /\ b.close # None
                                        /\ BuyAbove[c] # None /\ b.close >= BuyAbove[c]
                                        /\ b.close <= OrderLimit}
        test == BacktestCode(kline, BuyAbove[c])
    IN /\ test.status = "accepted" => test.entry \in bought /\ \A b \in bought : test.entry.time <= b.time
       /\ test.status = "rejected" => \A b \in bought : test.entry.time < b.time
       /\ test.status = "skipped" => bought = {}

\* Both ways to look back tell what the rounds do.
LookBack == ReviewTold /\ BacktestLikeRounds
=============================================================================
