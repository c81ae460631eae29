-------------------------------- MODULE SyncRuns --------------------------------
(***************************************************************************)
(* The runs of `sync-market-data` and the table sync_runs that remembers   *)
(* them: what a run finds missing, whether it may skip, what it fetches,   *)
(* and what it says of the market afterwards.  Runs of one mode follow one *)
(* another; in between, requests of the API land bars of their own.        *)
(*                                                                         *)
(* Days are numbers, and the exchange opens on each.  The window of the    *)
(* runs is within the COLD_START_DAYS, 400, of a first request, and of the *)
(* bars only those of the window are kept.  The universe is fixed: how the *)
(* symbol table is refreshed is DailyWarehouse's.                          *)
(***************************************************************************)
EXTENDS Integers, FiniteSets, FiniteSetsExt, Missing

CONSTANTS
  SyncSymbols,  \* the symbols of the run
  Trades,       \* the days on which each symbol trades
  Halts,        \* the days for which suspend_d lists it
  StartDay,     \* --start-date
  Grace,        \* STALE_GRACE_DAYS and FRESHNESS_DAYS, both 7
  Backtrack,    \* REFRESH_BACKTRACK_DAYS, 30
  LastDay       \* bound of the calendar

ASSUME SyncAssumption == /\ {Trades, Halts} \subseteq [SyncSymbols -> SUBSET Nat]
                         /\ \A s \in SyncSymbols : Trades[s] \cap Halts[s] = {}
                         /\ {StartDay, LastDay, Backtrack} \subseteq Nat /\ Grace \in Nat \ {0}

VARIABLES
  syncMarket,  \* "cn" or "hk"
  syncDay,     \* today
  held,        \* the days of each symbol in the daily table
  valued,      \* those with a total_mv
  syncing,     \* the run in progress, None between runs
  latest,      \* the last row of sync_runs in this mode
  synced       \* history: the symbols that the last completed run has fetched

syncVars == <<syncMarket, syncDay, held, valued, syncing, latest, synced>>

FirstBar(s) == Min(held[s])
LastBar(s) == Max(held[s])

\* _resolve_trade_window: only cn has a calendar, and only while Tushare answers.
SyncTarget(calendar) == IF syncMarket = "cn" /\ calendar THEN syncDay ELSE None

\* _compute_stale_cutoff and the comparison with it.
Behind(s, target) ==
  target # None /\ held[s] # {} /\ LastBar(s) < target - Grace

\* Only for these is suspend_d asked.
Asked(target) == {s \in SyncSymbols : Behind(s, target)}

\* _find_suspension_exempt_symbols: any suspended day after the last bar will do.
\* `answered` are the symbols that suspend_d answers for.
Exempt(s, target, answered) ==
  s \in answered /\ \E d \in Halts[s] : LastBar(s) < d /\ d <= target

\* list_symbols_missing_standardized_daily_fields.
Unvalued ==
  {s \in SyncSymbols : syncMarket = "cn" /\ \E d \in held[s] : d >= StartDay /\ d \notin valued[s]}

\* _summarize_sync_state.
SyncState(target, answered) ==
  LET days == UNION {held[s] : s \in SyncSymbols}
      missing == {s \in SyncSymbols : \A d \in held[s] : d < StartDay}
      stale == {s \in SyncSymbols : Behind(s, target) /\ ~Exempt(s, target, answered)}
  IN [target |-> target,
      first |-> IF days = {} THEN None ELSE Min(days),
      last |-> IF days = {} THEN None ELSE Max(days),
      missing |-> Cardinality(missing),
      stale |-> Cardinality(stale),
      rows |-> Cardinality(UNION {{s} \X held[s] : s \in SyncSymbols}),
      current |-> days # {} /\ Min(days) <= StartDay /\ missing = {} /\ stale = {}]

\* _build_sync_candidates.
Candidates(target, answered) ==
  {s \in SyncSymbols : \/ s \in Unvalued
                       \/ held[s] = {}
                       \/ FirstBar(s) > StartDay
                       \/ /\ Behind(s, target)
                          /\ ~Exempt(s, target, answered)}

\* Mutant: a run that had failures counts as one to repeat.
ShouldSkip_AfterFailures(state, candidates) ==
  \/ /\ candidates = {} /\ state.current
     /\ latest # None => latest.status # "running" /\ latest.state.current
  \/ /\ candidates # {}
     /\ latest # None /\ latest.status \in {"completed", "partial"}
     /\ [latest.state EXCEPT !.current = state.current] = state
     /\ latest.processed = Cardinality(candidates)

\* _should_skip_run: nothing to do, or the same state as after a run that fetched as
\* many symbols.
ShouldSkip(state, candidates) ==
  \/ /\ candidates = {} /\ state.current
     /\ latest # None => latest.status # "running" /\ latest.state.current
  \/ /\ candidates # {}
     /\ latest # None /\ latest.status = "completed"
     /\ [latest.state EXCEPT !.current = state.current] = state
     /\ latest.processed = Cardinality(candidates)
-----------------------------------------------------------------------------
SyncInit ==
  /\ syncMarket \in {"cn", "hk"}
  /\ syncDay = StartDay
  /\ held = [s \in SyncSymbols |-> {}] /\ valued = held
  /\ syncing = None /\ latest = None /\ synced = {}

Midnight ==
  /\ syncDay < LastDay
  /\ syncDay' = syncDay + 1
  /\ UNCHANGED <<syncMarket, held, valued, syncing, latest, synced>>

\* start_sync_run.
StartRun(path, target, left) ==
  /\ syncing' = [path |-> path, target |-> target, left |-> left, done |-> {}, failed |-> {}]
  /\ latest' = [status |-> "running", processed |-> 0, state |-> None]
  /\ UNCHANGED <<syncMarket, syncDay, held, valued, synced>>

\* sync_market_data up to its run: the state and the candidates each ask suspend_d.  Its
\* reads are one step here: bars that a request lands between two of them are left out.
BeginSync(calendar, answered, answeredAgain) ==
  LET target == SyncTarget(calendar)
      state == SyncState(target, answered)
      candidates == Candidates(target, answeredAgain)
  IN /\ syncing = None
     /\ answered \cup answeredAgain \subseteq Asked(target)
     /\ IF Unvalued # {} /\ state.current THEN StartRun("daily_basic", target, Unvalued)
        ELSE IF ShouldSkip(state, candidates) THEN StartRun("skip", target, {})
        ELSE StartRun("daily", target, candidates)

\* sync_symbol_daily: the window's days up to one, or none.
WindowDays(s, from, upTo) == {d \in Trades[s] : from <= d /\ d <= upTo}

\* fetch_daily_with_extras brings total_mv from daily_basic; the bars of another source
\* have none, and upsert_daily_bars overwrites the column with NULL.
Landed(s, days, tushare) ==
  /\ held' = [held EXCEPT ![s] = @ \cup days]
  /\ valued' = [valued EXCEPT ![s] = IF tushare THEN @ \cup days ELSE @ \ days]

\* update_sync_run_progress.
Progress(processed) == latest' = [latest EXCEPT !.processed = processed]

\* One turn of the loop over the candidates.
SyncSymbol(s, upTo, tushare) ==
  LET days == WindowDays(s, StartDay, upTo) IN
    /\ syncing # None /\ syncing.path = "daily" /\ s \in syncing.left
    /\ syncing' = [syncing EXCEPT !.left = @ \ {s},
                                  !.done = IF days = {} THEN @ ELSE @ \cup {s},
                                  !.failed = IF days = {} THEN @ \cup {s} ELSE @]
    /\ Landed(s, days, tushare)
    /\ Progress(latest.processed + 1)
    /\ UNCHANGED <<syncMarket, syncDay, synced>>

\* bulk_update_cn_daily_basic.
FillBasic(filled) == valued' = [s \in SyncSymbols |-> IF s \in filled THEN held[s] ELSE valued[s]]

\* _backfill_cn_daily_basic_only: rows came for `touched`, with every total_mv for `filled`.
BackfillBasic(touched, filled) ==
  /\ syncing # None /\ syncing.path = "daily_basic" /\ syncing.left # {}
  /\ touched \subseteq syncing.left /\ filled \subseteq touched
  /\ syncing' = [syncing EXCEPT !.left = {}, !.done = touched, !.failed = syncing.left \ touched]
  /\ Progress(Cardinality(touched))
  /\ FillBasic(filled)
  /\ UNCHANGED <<syncMarket, syncDay, held, synced>>

\* The status of the run that ends.
RunStatus == CASE syncing.path = "skip" -> "skipped"
               [] syncing.path # "skip" /\ syncing.failed = {} -> "completed"
               [] OTHER -> "partial"

\* finish_sync_run with the state of the market now.
FinishSync(answered) ==
  /\ syncing # None /\ syncing.left = {} /\ answered \subseteq Asked(syncing.target)
  /\ latest' = [status |-> RunStatus,
                processed |-> Cardinality(syncing.done \cup syncing.failed),
                state |-> SyncState(syncing.target, answered)]
  /\ synced' = IF RunStatus = "completed" THEN syncing.done ELSE synced
  /\ syncing' = None
  /\ UNCHANGED <<syncMarket, syncDay, held, valued>>

\* The process dies, or an exception ends the run: its row stays "running".
SyncDies ==
  /\ syncing # None
  /\ syncing' = None
  /\ UNCHANGED <<syncMarket, syncDay, held, valued, latest, synced>>

\* A request asks for the days it has not, and for some that it has.
ReadFrom(s) ==
  IF held[s] = {} \/ LastBar(s) < StartDay + Backtrack THEN StartDay ELSE LastBar(s) - Backtrack

\* DailyDataReadService.get_stock_daily: a request lands the last days of a symbol whose
\* bars are not fresh, from whatever source answers, with or without a bar of today.
ReadThrough(s, upTo, tushare) ==
  /\ held[s] # {} => LastBar(s) < syncDay - Grace
  /\ Landed(s, WindowDays(s, ReadFrom(s), upTo), tushare)
  /\ UNCHANGED <<syncMarket, syncDay, syncing, latest, synced>>

SyncNext ==
  \/ Midnight
  \/ \E calendar \in BOOLEAN, answered, answeredAgain \in SUBSET SyncSymbols :
       BeginSync(calendar, answered, answeredAgain)
  \/ \E s \in SyncSymbols, tushare \in BOOLEAN :
       \/ \E upTo \in {StartDay - 1, syncDay - 1, syncDay} : SyncSymbol(s, upTo, tushare)
       \/ \E upTo \in {syncDay - 1, syncDay} : ReadThrough(s, upTo, tushare)
  \/ \E touched, filled \in SUBSET SyncSymbols : BackfillBasic(touched, filled)
  \/ \E answered \in SUBSET SyncSymbols : FinishSync(answered)
  \/ SyncDies

SyncSpec == SyncInit /\ [][SyncNext]_syncVars
-----------------------------------------------------------------------------
(* AlphaUniverseSeedStatusService.inspect. *)

\* _resolve_effective_start_date: the first day on or after the start that any symbol has.
EffectiveStart ==
  LET days == {d \in UNION {held[s] : s \in SyncSymbols} : d >= StartDay} IN
    IF days = {} THEN StartDay ELSE Min(days)

\* _build_item.
SeedBucket(s, staleBefore) ==
  CASE held[s] = {} -> "missing"
    [] held[s] # {} /\ FirstBar(s) > EffectiveStart -> "incomplete"
    [] held[s] # {} /\ FirstBar(s) <= EffectiveStart /\ LastBar(s) < staleBefore -> "stale"
    [] OTHER -> "ok"

\* _build_sync_plan: the symbols of the command it suggests.
SeedPlan(staleBefore) == {s \in SyncSymbols : SeedBucket(s, staleBefore) # "ok"}
-----------------------------------------------------------------------------
(* Properties. *)

\* The bars of the window that a symbol should have by now.
MissingBars(s, upTo) == WindowDays(s, StartDay, upTo) \ held[s]

\* A skipped run hides no missing bars: a symbol that the seed status would have synced,
\* and that misses a bar older than the grace, is one that the run before, for the same
\* target day, has just fetched, or it has bars and is excused: suspended on some day since
\* its last bar, or of a market without a target day (hk and us, or cn while the calendar
\* does not answer).
\* (_should_skip_run, _build_sync_candidates, AlphaUniverseSeedStatusService._build_item)
SkipHidesNoBars ==
  syncing = None /\ latest # None /\ latest.status = "skipped" =>
    LET target == latest.state.target
        staleBefore == (IF target = None THEN syncDay ELSE target) - Grace
    IN \A s \in SeedPlan(staleBefore) :
         \/ s \in synced
         \/ MissingBars(s, staleBefore) = {}
         \/ held[s] # {} /\ (target = None \/ Exempt(s, target, SyncSymbols))
=============================================================================
