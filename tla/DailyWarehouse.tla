--------------------------- MODULE DailyWarehouse ---------------------------
(***************************************************************************)
(* The A-share part of the local SQLite warehouse: the symbol table        *)
(* cn_symbols with its coverage summary (daily_start_date,                 *)
(* daily_end_date), the bars of cn_daily that it summarises, and the three *)
(* kinds of writers that share them without a common transaction: request  *)
(* threads of the API (DailyDataReadService), the daily refresh thread of  *)
(* SymbolSnapshotRefreshService and the sync-market-data process           *)
(* (DailyDataWriteService).  Every `with self.connect()` block of          *)
(* MarketDataRepository is one step here.                                  *)
(***************************************************************************)
EXTENDS Naturals, FiniteSets

CONSTANTS
  Symbol,    \* listed shares and ETFs
  Etf,       \* the symbols whose market is "ETF": no part of the sync universe
  LastDate,  \* trade dates are numbered up to this one
  Window,    \* Window[s]: the sets of dates that a source may return for s
  Request,   \* threads of the API's pool
  Refresh,   \* threads that _spawn_refresh_thread may start
  Cli,       \* sync-market-data processes
  NoRow,     \* a symbol without a row
  NoCover,   \* both summary columns are NULL
  NoSymbol,  \* a writer that works on no symbol
  MaxBusy    \* bound on the writers that are busy at the same time

Date == 1..LastDate

Worker == Request \cup Refresh \cup Cli

ASSUME DateAssumption == LastDate \in Nat /\ Window \in [Symbol -> SUBSET SUBSET Date]
ASSUME SymbolAssumption == Etf \subseteq Symbol /\ NoSymbol \notin Symbol
ASSUME BoundAssumption == MaxBusy \in Nat
ASSUME WorkerAssumption == /\ Request \cap Refresh = {}
                           /\ Request \cap Cli = {}
                           /\ Refresh \cap Cli = {}
                           /\ IsFiniteSet(Worker)

VARIABLES
  rows,      \* the symbol table: the summary of each row
  bars,      \* the trade dates of each symbol in the daily table
  inFlight,  \* in_flight of the market
  checked,   \* last_checked_date of the market is today
  pc,        \* where each writer is
  job,       \* what it does there
  sym,       \* the symbol it works on
  held,      \* the rows it holds in memory and will upsert: their summaries
  span,      \* the MIN and MAX it has selected
  todo,      \* candidates that a sync has left
  late,      \* refresh threads whose market_date is over
  stranded,  \* history: a thread did not start and left in_flight set
  excused    \* history: symbols whose summary may be wrong, and why (Excuse)

table == <<rows, bars>>
flags == <<inFlight, checked, late, stranded>>
writer == <<pc, job, sym, held, span, todo>>
vars == <<table, flags, writer, excused>>

\* Places of a writer at work on one symbol, on the whole table, and elsewhere.
OnSymbol == {"resolve", "search", "rematch", "create", "enrich", "reread",
             "record", "bars", "select", "cover", "reload"}
OnTable == {"compare", "summaries", "delete", "insert", "backfill", "plan"}
Place == OnSymbol \cup OnTable \cup {"idle", "starting", "preflight", "fetch", "seal", "next"}
Job == {"none", "request", "direct", "all", "seed", "sync"}

Cover == [lo : Date, hi : Date]
CoverOrNone == Cover \cup {NoCover}

ASSUME RowAssumption == NoRow \notin CoverOrNone

\* Rows in memory: their summaries by symbol.
Held == UNION {[S -> CoverOrNone] : S \in SUBSET Symbol}
Nothing == [s \in {} |-> NoCover]

Init ==
  /\ rows = [s \in Symbol |-> NoRow]
  /\ bars = [s \in Symbol |-> {}]
  /\ inFlight = FALSE
  /\ checked = FALSE
  /\ late = {}
  /\ stranded = FALSE
  /\ pc = [w \in Worker |-> "idle"]
  /\ job = [w \in Worker |-> "none"]
  /\ sym = [w \in Worker |-> NoSymbol]
  /\ held = [w \in Worker |-> Nothing]
  /\ span = [w \in Worker |-> NoCover]
  /\ todo = [w \in Worker |-> {}]
  /\ excused = {}

----------------------------------------------------------------------------
(* Tables *)

Listed == {s \in Symbol : rows[s] # NoRow}

\* SELECT MIN(trade_date), MAX(trade_date)
Span(dates) ==
  IF dates = {} THEN NoCover
  ELSE [lo |-> CHOOSE d \in dates : \A e \in dates : d <= e,
        hi |-> CHOOSE d \in dates : \A e \in dates : e <= d]

\* The summary in a symbol's row, if there is one.
RowCover(s) == IF rows[s] = NoRow THEN NoCover ELSE rows[s]

\* upsert_symbols of rows with these summaries: COALESCE(excluded, stored).
UpsertSymbols(h) ==
  rows' = [s \in Symbol |->
             IF s \notin DOMAIN h THEN rows[s]
             ELSE IF h[s] = NoCover THEN RowCover(s) ELSE h[s]]

----------------------------------------------------------------------------
(* Writers *)

MayStart(w) ==
  /\ pc[w] = "idle"
  /\ Cardinality({v \in Worker : pc[v] # "idle"}) < MaxBusy

GoTo(w, step) == pc' = [pc EXCEPT ![w] = step]
Hold(w, h) == held' = [held EXCEPT ![w] = h]

\* A snapshot of the sources, all rows without a summary.
Live(S) == [s \in S |-> NoCover]

\* Threads and processes in W forget what they were doing.
Reset(W) ==
  /\ pc' = [w \in Worker |-> IF w \in W THEN "idle" ELSE pc[w]]
  /\ job' = [w \in Worker |-> IF w \in W THEN "none" ELSE job[w]]
  /\ sym' = [w \in Worker |-> IF w \in W THEN NoSymbol ELSE sym[w]]
  /\ held' = [w \in Worker |-> IF w \in W THEN Nothing ELSE held[w]]
  /\ span' = [w \in Worker |-> IF w \in W THEN NoCover ELSE span[w]]
  /\ todo' = [w \in Worker |-> IF w \in W THEN {} ELSE todo[w]]

\* What _fetch_cn_market_snapshot may return: without a share it fails, and
\* without an ETF it is a success with partial = True.
Snapshot == {S \in SUBSET Symbol : S \ Etf # {}}

----------------------------------------------------------------------------
(* The refresh thread of a day *)

\* Mutant: the lock does not protect in_flight.
MaybeScheduleMarketRefresh_Again(r) ==
  /\ MayStart(r)
  /\ ~checked
  /\ inFlight' = TRUE
  /\ late' = late \ {r}
  /\ GoTo(r, "starting")
  /\ UNCHANGED <<table, checked, stranded, job, sym, held, span, todo>>

\* The middleware of any request, up to the end of the lock: at most one thread, until a
\* check succeeds.  The date is read before the lock: it may be yesterday's by then.
MaybeScheduleMarketRefresh(r) ==
  /\ MayStart(r)
  /\ ~inFlight
  /\ \/ ~checked /\ late' = late \ {r}
     \/ late' = late \cup {r}
  /\ inFlight' = TRUE
  /\ GoTo(r, "starting")
  /\ UNCHANGED <<table, checked, stranded, job, sym, held, span, todo>>

\* Thread.start, after the lock: when it raises, nobody clears the flag.
SpawnRefreshThread(r) ==
  /\ pc[r] = "starting"
  /\ \/ /\ GoTo(r, "preflight")
        /\ UNCHANGED <<flags, job, sym, held, span, todo>>
     \/ /\ stranded' = TRUE
        /\ late' = late \ {r}
        /\ Reset({r})
        /\ UNCHANGED <<inFlight, checked>>
  /\ UNCHANGED table

\* The `finally` block: last_checked_date is the day the thread was started on.
Finish(r, success) ==
  /\ inFlight' = FALSE
  /\ checked' = IF success THEN r \notin late ELSE checked
  /\ late' = late \ {r}
  /\ UNCHANGED stranded
  /\ Reset({r})

\* A stored snapshot of today or a closed market end the check with success, a
\* calendar that does not answer without; an open market asks for the snapshot.
Preflight(r) ==
  /\ pc[r] = "preflight"
  /\ \/ \E success \in BOOLEAN : Finish(r, success)
     \/ /\ GoTo(r, "fetch")
        /\ UNCHANGED <<flags, job, sym, held, span, todo>>
  /\ UNCHANGED table

Seal(r) ==
  /\ pc[r] = "seal"
  /\ Finish(r, TRUE)
  /\ UNCHANGED table

----------------------------------------------------------------------------
(* refresh_market_snapshot_result and replace_symbols *)

Summaries(S) == [s \in S |-> RowCover(s)]

\* Mutant: summaries are not carried over.
Fetched_Forget(w) ==
  \E S \in Snapshot : /\ Hold(w, Live(S))
                      /\ GoTo(w, "delete")

\* First transaction of replace_symbols: the stored summaries of the snapshot's
\* symbols are copied.  Fetching the snapshot reads no table.
Fetched(w) ==
  \E S \in Snapshot : /\ Hold(w, Summaries(S))
                      /\ GoTo(w, "delete")

\* Without a snapshot a refresh gives up, and resolve_symbol goes on.
FetchMarketSnapshot(w) ==
  /\ pc[w] = "fetch"
  /\ \/ /\ Fetched(w)
        /\ UNCHANGED <<flags, job, sym, span, todo>>
     \/ /\ w \in Refresh
        /\ Finish(w, FALSE)
     \/ /\ w \notin Refresh
        /\ GoTo(w, "rematch")
        /\ UNCHANGED <<flags, job, sym, held, span, todo>>
  /\ UNCHANGED table

\* The same transaction for the snapshot that a sync has fetched before.
ReadSummaries(w) ==
  /\ pc[w] = "summaries"
  /\ Hold(w, Summaries(DOMAIN held[w]))
  /\ GoTo(w, "delete")
  /\ UNCHANGED <<table, flags, job, sym, span, todo>>

\* Second transaction: DELETE FROM.
DeleteSymbols(w) ==
  /\ pc[w] = "delete"
  /\ rows' = [s \in Symbol |-> NoRow]
  /\ GoTo(w, "insert")
  /\ UNCHANGED <<bars, flags, job, sym, held, span, todo>>

\* Third transaction, and where the caller goes on.
InsertSymbols(w) ==
  /\ pc[w] = "insert"
  /\ UpsertSymbols(held[w])
  /\ Hold(w, Nothing)
  /\ GoTo(w, IF w \in Refresh THEN "seal"
             ELSE IF sym[w] = NoSymbol THEN "backfill" ELSE "rematch")
  /\ UNCHANGED <<bars, flags, job, sym, span, todo>>

----------------------------------------------------------------------------
(* resolve_symbol *)

\* The record in hand, or no record: get_stock_info ends here, everything else is
\* on its way to the daily bars.
Resolved(w, h) ==
  /\ Hold(w, h)
  /\ \/ /\ job[w] = "request"
        /\ GoTo(w, "next")
     \/ GoTo(w, IF job[w] = "direct" THEN "bars" ELSE "record")

Record(s) == [t \in {s} |-> RowCover(s)]

\* A share whose row has no name of its own is looked up and written again.
ResolveSymbol(w) ==
  /\ pc[w] = "resolve"
  /\ \/ /\ sym[w] \in Listed
        /\ \/ Resolved(w, Record(sym[w]))
           \/ /\ sym[w] \notin Etf
              /\ Hold(w, Record(sym[w]))
              /\ GoTo(w, "enrich")
     \/ /\ sym[w] \notin Listed
        /\ GoTo(w, "search")
        /\ UNCHANGED held
  /\ UNCHANGED <<table, flags, job, sym, span, todo>>

\* search_symbols, before and after it has refreshed the snapshot.
SearchSymbols(w) ==
  /\ pc[w] \in {"search", "rematch"}
  /\ \/ /\ sym[w] \in Listed
        /\ Resolved(w, Record(sym[w]))
     \/ /\ sym[w] \notin Listed
        /\ GoTo(w, IF pc[w] = "search" THEN "fetch" ELSE "create")
        /\ UNCHANGED held
  /\ UNCHANGED <<table, flags, job, sym, span, todo>>

\* stock_basic or the fallback row: neither knows a summary.
CreateRow(w) ==
  /\ pc[w] = "create"
  /\ UpsertSymbols(Live({sym[w]}))
  /\ GoTo(w, "reread")
  /\ UNCHANGED <<bars, flags, job, sym, held, span, todo>>

EnrichRow(w) ==
  /\ pc[w] = "enrich"
  /\ UpsertSymbols(held[w])
  /\ GoTo(w, "reread")
  /\ UNCHANGED <<bars, flags, job, sym, held, span, todo>>

\* get_symbol_record: a replace may have dropped the row again.
RereadRow(w) ==
  /\ pc[w] = "reread"
  /\ Resolved(w, IF sym[w] \in Listed THEN Record(sym[w]) ELSE Nothing)
  /\ UNCHANGED <<table, flags, job, sym, span, todo>>

----------------------------------------------------------------------------
(* sync_symbol_daily and upsert_daily_bars *)

\* The resolved record is written back as it was read.
UpsertRecord(w) ==
  /\ pc[w] = "record"
  /\ UpsertSymbols(held[w])
  /\ Hold(w, Nothing)
  /\ GoTo(w, IF job[w] = "seed" THEN "backfill" ELSE "bars")
  /\ UNCHANGED <<bars, flags, job, sym, span, todo>>

UpsertDailyBars(w) ==
  /\ pc[w] = "bars"
  /\ \E dates \in Window[sym[w]] :
       bars' = [bars EXCEPT ![sym[w]] = @ \cup dates]
  /\ Hold(w, Nothing)
  /\ GoTo(w, "select")
  /\ UNCHANGED <<rows, flags, job, sym, span, todo>>

\* No source has bars in the window: rows 0.
NoDailyBars(w) ==
  /\ pc[w] = "bars"
  /\ job[w] # "direct"
  /\ GoTo(w, IF job[w] = "request" THEN "reload" ELSE "next")
  /\ UNCHANGED <<table, flags, job, sym, held, span, todo>>

\* get_stock_daily: with nothing in the warehouse it asks the data manager, whose
\* answer, if any, it resolves and persists itself.
Reload(w) ==
  /\ pc[w] = "reload"
  /\ \/ /\ GoTo(w, "next")
        /\ UNCHANGED job
     \/ /\ bars[sym[w]] = {} /\ Window[sym[w]] # {}
        /\ job' = [job EXCEPT ![w] = "direct"]
        /\ GoTo(w, "resolve")
  /\ UNCHANGED <<table, flags, sym, held, span, todo>>

\* Mutant: the summary reaches up to the date that was asked for.
SelectCoverage_AskedDate(w) ==
  /\ pc[w] = "select"
  /\ span' = [span EXCEPT ![w] = Span(bars[sym[w]] \cup {LastDate})]
  /\ GoTo(w, "cover")
  /\ UNCHANGED <<table, flags, job, sym, held, todo>>

\* refresh_symbol_daily_coverage: the SELECT ...
SelectCoverage(w) ==
  /\ pc[w] = "select"
  /\ span' = [span EXCEPT ![w] = Span(bars[sym[w]])]
  /\ GoTo(w, "cover")
  /\ UNCHANGED <<table, flags, job, sym, held, todo>>

\* ... and the UPDATE, which opens the transaction.
UpdateCoverage(w) ==
  /\ pc[w] = "cover"
  /\ rows' = [s \in Symbol |-> IF s = sym[w] /\ s \in Listed
                               THEN span[w] ELSE rows[s]]
  /\ span' = [span EXCEPT ![w] = NoCover]
  /\ GoTo(w, "next")
  /\ UNCHANGED <<bars, flags, job, sym, held, todo>>

----------------------------------------------------------------------------
(* Requests and the sync process *)

\* get_stock_info only resolves; get_stock_daily of a stale symbol writes.
HandleRequest(w) ==
  /\ MayStart(w)
  /\ \E s \in Symbol : sym' = [sym EXCEPT ![w] = s]
  /\ job' = [job EXCEPT ![w] = "request"]
  /\ GoTo(w, "resolve")
  /\ UNCHANGED <<table, flags, held, span, todo>>

\* sync_market_data with scope "all", or "symbol" with one symbol.
SyncMarketData(w) ==
  /\ MayStart(w)
  /\ \/ /\ job' = [job EXCEPT ![w] = "all"]
        /\ GoTo(w, "compare")
        /\ UNCHANGED sym
     \/ /\ job' = [job EXCEPT ![w] = "seed"]
        /\ GoTo(w, "resolve")
        /\ \E s \in Symbol : sym' = [sym EXCEPT ![w] = s]
  /\ UNCHANGED <<table, flags, held, span, todo>>

\* The table is replaced only when the live snapshot lists other symbols.
CompareSnapshot(w) ==
  /\ pc[w] = "compare"
  /\ \/ /\ \E S \in Snapshot \ {Listed} : Hold(w, Live(S))
        /\ GoTo(w, "summaries")
     \/ /\ GoTo(w, "backfill")
        /\ UNCHANGED held
  /\ UNCHANGED <<table, flags, job, sym, span, todo>>

\* backfill_symbol_daily_coverage: one statement for all rows.
BackfillCoverage(w) ==
  /\ pc[w] = "backfill"
  /\ rows' = [s \in Symbol |-> IF s \in Listed
                               THEN Span(bars[s]) ELSE NoRow]
  /\ GoTo(w, "plan")
  /\ UNCHANGED <<bars, flags, job, sym, held, span, todo>>

\* _build_sync_candidates: a symbol without bars is always a candidate, another
\* one by its dates; the whole run may be skipped.
BuildSyncCandidates(w) ==
  /\ pc[w] = "plan"
  /\ LET stocks == IF job[w] = "all" THEN Listed \ Etf ELSE Listed \cap {sym[w]} IN
       \E S \in SUBSET stocks :
         /\ S = {} \/ \A s \in stocks : bars[s] = {} => s \in S
         /\ todo' = [todo EXCEPT ![w] = S]
  /\ job' = [job EXCEPT ![w] = "sync"]
  /\ GoTo(w, "next")
  /\ UNCHANGED <<table, flags, sym, held, span>>

\* The next candidate of a sync, or the end of the request or the process.
NextSymbol(w) ==
  /\ pc[w] = "next"
  /\ \/ /\ todo[w] = {}
        /\ Reset({w})
     \/ /\ \E s \in todo[w] : /\ sym' = [sym EXCEPT ![w] = s]
                              /\ todo' = [todo EXCEPT ![w] = @ \ {s}]
        /\ Hold(w, Nothing)
        /\ GoTo(w, "resolve")
        /\ UNCHANGED <<job, span>>
  /\ UNCHANGED <<table, flags>>

----------------------------------------------------------------------------
(* Faults *)

\* An exception or the death of a sync process.  A refresh thread's `finally` and
\* the sync loop's `except` go on, a request and any other process end.
Raise(w) ==
  /\ pc[w] # "idle"
  /\ \/ /\ w \in Refresh /\ pc[w] # "starting"
        /\ Finish(w, FALSE)
        /\ UNCHANGED table
     \/ /\ w \in Request \cup Cli
        /\ Reset({w})
        /\ UNCHANGED <<table, flags>>
     \/ /\ job[w] = "sync" /\ sym[w] # NoSymbol
        /\ GoTo(w, "next")
        /\ Hold(w, Nothing)
        /\ span' = [span EXCEPT ![w] = NoCover]
        /\ UNCHANGED <<table, flags, job, sym, todo>>

\* The API server dies with its threads, flags and dates.
CrashServer ==
  /\ Reset(Request \cup Refresh)
  /\ inFlight' = FALSE
  /\ checked' = FALSE
  /\ late' = {}
  /\ stranded' = FALSE
  /\ UNCHANGED table

\* The market's date changes.
Midnight ==
  /\ checked' = FALSE
  /\ late' = {r \in Refresh : pc[r] # "idle"}
  /\ UNCHANGED <<table, inFlight, stranded, writer>>

----------------------------------------------------------------------------
(* History: whose summary may be wrong, and why *)

\* The symbols whose rows a writer reads or writes at its step.
Touched(w) ==
  CASE pc[w] \in OnTable  -> Symbol
    [] pc[w] \in OnSymbol -> {sym[w]}
    [] OTHER              -> {}

Overlap == {s \in Symbol : Cardinality({w \in Worker : s \in Touched(w)}) > 1}

\* Summaries of `fixed` are right again, those of `broken` no longer; symbols with
\* two writers at once stay in doubt.
Excuse(fixed, broken) ==
  excused' = (excused \ (fixed \ Overlap)) \cup broken \cup Overlap'

\* A writer that stops halfway loses all rows, or the summary of its symbol.
Halfway(w) == CASE pc[w] = "insert" -> Symbol
                [] pc[w] \in {"select", "cover"} -> {sym[w]}
                [] OTHER -> {}

----------------------------------------------------------------------------
(* Specification *)

Step(w) ==
  \/ FetchMarketSnapshot(w)
  \/ ReadSummaries(w)
  \/ InsertSymbols(w)
  \/ ResolveSymbol(w)
  \/ SearchSymbols(w)
  \/ CreateRow(w)
  \/ EnrichRow(w)
  \/ RereadRow(w)
  \/ UpsertRecord(w)
  \/ UpsertDailyBars(w)
  \/ UpdateCoverage(w)
  \/ NoDailyBars(w)
  \/ Reload(w)
  \/ SelectCoverage(w)
  \/ CompareSnapshot(w)
  \/ BuildSyncCandidates(w)
  \/ NextSymbol(w)

ThreadStep(r) ==
  \/ MaybeScheduleMarketRefresh(r)
  \/ SpawnRefreshThread(r)
  \/ Preflight(r)
  \/ Seal(r)

Next ==
  \/ /\ \/ \E w \in Worker : Step(w)
        \/ \E r \in Refresh : ThreadStep(r)
        \/ \E w \in Request : HandleRequest(w)
        \/ \E w \in Cli : SyncMarketData(w)
        \/ Midnight
     /\ Excuse({}, {})
  \/ \E w \in Worker :
       \/ DeleteSymbols(w) /\ Excuse({}, Listed \ DOMAIN held[w])
       \/ BackfillCoverage(w) /\ Excuse(Listed, {})
       \/ Raise(w) /\ Excuse({}, Halfway(w))
  \/ CrashServer /\ Excuse({}, UNION {Halfway(w) : w \in Request \cup Refresh})

Spec == Init /\ [][Next]_vars

----------------------------------------------------------------------------
(* Properties *)

TypeOK ==
  /\ rows \in [Symbol -> CoverOrNone \cup {NoRow}]
  /\ bars \in [Symbol -> SUBSET Date]
  /\ inFlight \in BOOLEAN
  /\ checked \in BOOLEAN
  /\ late \subseteq Refresh
  /\ stranded \in BOOLEAN
  /\ pc \in [Worker -> Place]
  /\ job \in [Worker -> Job]
  /\ sym \in [Worker -> Symbol \cup {NoSymbol}]
  /\ held \in [Worker -> Held]
  /\ span \in [Worker -> CoverOrNone]
  /\ todo \in [Worker -> SUBSET Symbol]
  /\ excused \subseteq Symbol

\* Both ends of a summary are dates of bars that have landed.
Landed(cover, s) == cover = NoCover \/ (cover.lo \in bars[s] /\ cover.hi \in bars[s])

\* However reads go stale, replaces overlap and writers die, the coverage summary
\* never claims a date that is not in the daily table: the coarse screening of a
\* sync may take a symbol for worse than it is, never for better.
CoverageLanded == \A s \in Listed : Landed(rows[s], s)

\* Once nobody works on a symbol, its summary is the first and the last trade date
\* of its bars, unless two writers worked on it at once, one stopped halfway, or a
\* replace by a snapshot without it had dropped its row, and no sync has
\* backfilled it since.
CoverageExplained ==
  \A s \in Listed : \/ \E w \in Worker : s \in Touched(w)
                    \/ rows[s] = Span(bars[s])
                    \/ s \in excused

\* in_flight means that one refresh thread is alive or about to be started, after
\* exceptions, failed checks and restarts too: the day's later requests can try again
\* and never refresh twice at once.  Only a thread that could not be started leaves the
\* flag behind, and then none runs until the server is restarted.
FlagHasThread ==
  /\ inFlight <=> stranded \/ \E r \in Refresh : pc[r] # "idle"
  /\ stranded => \A r \in Refresh : pc[r] = "idle"
  /\ \A q, r \in Refresh : pc[q] # "idle" /\ pc[r] # "idle" => q = r
=============================================================================
