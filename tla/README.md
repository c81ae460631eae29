# TLA+ models of stock-analysis-api

Specifications of this repository's core: the task chain and its agent handoffs, the
strategy registry and the research loop that feeds it, simulated trading and the programs
that look back at it, the watch list and its workers, the data manager with its circuit
breakers, the local warehouse with its daily refresh and its syncs, and the services that
turn what providers answer into reports. Every module is written from the code
(`src/src/...`, seen from the repository's root: `src/...`); the lines each definition
stands for are in `PROJECT.json` under `map`, about a third of the implementation.

Contents: [inventory](#inventory), [modules and their code](#modules-and-their-code),
[runs](#runs), [bounds](#bounds), [fairness](#fairness), [proofs](#proofs),
[where code and documents differ](#where-code-and-documents-differ),
[not modelled](#not-modelled), [plan](#plan).

## Inventory

The program is one FastAPI service and a set of command-line scripts. launchd and cron run
some of the scripts every minute, agents and people run the others at any time. They do not
talk to each other: they share SQLite files, each opened by a connection per method call,
and the external services (data providers, public web pages, the Futu broker).

| Component | State it keeps | Operations | Hard behaviour | What makes it correct |
|---|---|---|---|---|
| Task chain (`task_chain_repository.py`, `task_chain_service.py`) | tables of tasks, runs, summaries | `bootstrap`, `tick` | a tick is up to nine commits; leases that run out under a slow tick; crashes between commits; re-runs | an active lease is never re-entered, no successor is lost, the chain never dies without a failure, every due task ends |
| Agent handoff queue (same repository) | handoffs, events, outputs | `enqueue`, `claim`, `claim-next`, `complete`, `fail`, `replay` | a "now" taken before the wait for the write lock; takeovers; rows of an older schema | only the holder of a live lease gives a verdict, once; the audit log tells the row |
| Strategy registry (`strategy_registry_repository.py`) | versions, proposals, verdicts, approvals, history, events | `propose`, `judge`, `approve`, `activate` | check in one connection, unguarded write in another | nothing is active without verdict and approval; one active strategy; unbroken audit chains |
| Alpha research (`alpha_*.py`, `strategy_judge_service.py`, `alpha_research_loop_service.py`) | runs and verdicts in the registry | scan, evaluate, backtest, judge, research loop | a run judges against a champion that may change under it, and records in several transactions; labels that look ahead | what an evaluation observed is final; a proposal is judged beside the active strategy's figures; a ready run can be approved |
| Simulated trading (`trading_automation_service.py`, `trading_ledger_repository.py`, the two CLIs) | tick row, lock row, runs, decisions, orders; the broker's orders and cash | scheduler tick, one round | broker and ledger cannot commit together; lock that expires; crash in a round | a lock holder keeps its lock; the ledger accounts for every order; no order twice |
| Trading reviews and backtests (`trading_ledger_analysis.py`, the review, summary and backtest CLIs) | none | review of a day, backtest on K-lines | a review reads in three connections beside rounds at work | it tells a finished run in full and marks an order at a price no older than its own, if snapshots tell their times; the backtest buys what rounds would buy |
| Data manager (`data_provider/manager.py`) | breaker of each source | `get_*` with fallback | request threads share the breakers without a lock | no trip lost, no breaker stuck, a tripped source is tried again |
| Symbol refresh (`symbol_snapshot_refresh_service.py`) | in-flight flag and date of each market | schedule, refresh thread | date rollover, exceptions and restarts during a refresh | at most one refresh per market, stuck only when a thread could not be started |
| Daily warehouse (`market_data_repository.py`, `daily_data_write_service.py`, `daily_data_read_service.py`, `symbol_catalog_service.py`) | symbols with coverage summaries, bars, sync runs | sync, replace symbols, read path that writes back | read, delete and insert in three transactions; summaries written back late; a dead sync; runs that skip | a summary never claims bars that are not there; a skipped run hides no missing bars |
| Watch polling and watch worker (`watch_polling_service.py`, `watch_worker_service.py`) | baselines in memory; tick row | poll, tick | concurrent polls of one symbol share a dictionary; overlapping ticks | a delta is taken from what the client was last told; ticks keep their interval |
| Grey market watch (`grey_market_watch_cli.py`) | tick row | tick | overlapping ticks | as above |
| Realtime quotes (`realtime_quote_polling_service.py`) | none | poll | fallback of each symbol | every failure that costs a quote is told |
| HK IPO tools (`hkipo_heat_scan_service.py`, `hkipo_official_doc_service.py`) | a directory of downloaded documents | heat scan, official documents | evidence of any page and date; a shared cache without a lock | a failing source can only cost; two runs tell the same of a document |
| Stock analysis (`stock_analyze_service.py`, `daily_market_pack_service.py`, analyzers) | none | analyze, collect | some fifteen provider calls per symbol, each with its fallback; threads that race | every failure that nothing replaces is told; the pack does not depend on who answers first |
| Data sources, HTTP routes, export | none | fetch, route, print | external input and output | - |

How they interact: the watch worker, the research loop and the registry CLI use the
registry's tables; the KOL scan of the task chain enqueues agent handoffs; the alpha
services read the warehouse; the warehouse and every HTTP route fetch through the data
manager; trading reviews read the ledger that rounds write. None of these calls gives the
caller a transaction that spans both sides, which is why the models compose by interleaving
single commits.

The hazards this gives rise to are listed in `PROJECT.json`, each at its line and with the
property that watches it, or the reason why none does. Three more are not in that list: the
cash of a trading round is read once, so its orders may together exceed it
(`trading_automation_service.py:236`); a handoff claimed without a lease time can never be
closed or claimed again; the watch worker reports on the strategy that was active when it
started.

## Modules and their code

`TaskChain` - `SqliteTaskChainRepository` (tasks, runs, summaries) and
`TaskChainService.tick`. `Worker` is a process; `pc` is the point of its tick between two
commits; `now`, `job`, `run`, `todo` are the tick's locals. `Begin` is the CLI computing
`now`; `Acquire` is `acquire_due_task` (one `BEGIN IMMEDIATE` transaction, `Due` its WHERE
clause, `First` its ORDER BY); `StartRun`, `Execute`, `Supersede`, `CheckPending`,
`CheckRunning`, `CreateNext`, `FinishRun`, `Complete`, `Return` follow the code in order;
`Fail`, `FailRun`, `FailTask` are the `except` branch, which the reload after
`complete_task` can still enter; `Crash` stops a process anywhere. `NextSpecs` is the
successor table. What a task reports is left out; whether a KOL scan asks for an agent, has
a report worth an iteration, or neither, is a free choice.

`AgentHandoff` - the handoff tables. `Call` is a command computing its `now`; the other
actions are its transaction, with the `now` it brought. `Claimable` is the WHERE clause of
`claim_next_agent_handoff`, `LeaseHeld` is `_validate_handoff_lease`, `Legacy` are the rows
that `initialize()` migrates. A rejected output is a `Refuse`.

`StrategyLifecycle` - what the registry promises: candidate, approved, active, retired, in
atomic moves. `StrategyRegistry` - `SqliteStrategyRegistry` with each read and each
transaction an action (`BeginApprove`, `ApproveVerdict`, `ApproveWrite`; `BeginActivate`,
`ActivateApproval`, `ActivatePrevious`, `ActivateSelect`, `ActivateWrite`). Python's
`sqlite3` opens a transaction at the first UPDATE, so the SELECT of the active rows is
outside it. `Lifecycle` is the refinement mapping (the status column).

`StrategyJudge` - the gate of `StrategyJudgeService` as functions: the reasons to block a
proposal, with thresholds, drawdown, observations and the champion's metrics.
`ResearchLoop` - `AlphaResearchLoopService` on top of `StrategyRegistry` and the judge: a
researcher reads the active strategy and its passed verdict for each factor, judges, stops
at the first that passes, and records the run row and each verdict in transactions of their
own. `RecordByHand` is the registry CLI's `record-verdict`, which takes a verdict from a
file, with or without figures. `log` is the verdict table in the order of its ids; `Verdict`
is what the judge says of a proposal, `PassedOf` the verdict the active strategy once passed
with.

`AlphaPipeline` - universe, features and scan, factor evaluation, market regime, leading
sectors, portfolio backtest, proposal and daily report, as functions of the bars (what these
services are: they only read). `AlphaMarket` - the warehouse they read, growing by a day
at a time.

`TradingRun` - `trading_scheduler_tick` and `trading_run_once` around
`TradingAutomationService.run_once`. `Schedule`, `TakeLock`/`GoUnlocked`/`LockUnavailable`,
`StartRun`, `ReadAccount`, `ReadPositions`, then per signal `Evaluate`, `RecordAccepted` or
`RecordRejected`, `Submit`, `RecordOrder`, and `FinishOk`/`FinishFailed`, `Release`,
`RecordTick`. `todo` is the set of the positions of the signals still to be handled;
`Fail` follows the `except` and `finally` blocks. The broker is external: `submitted` orders
are filled by `Fill` in any order while its `funds` last.

`TradingReview` - the readers. A round is here what the ledger sees of it (start, decision,
order, end); a review reads the runs of its day, all orders, and the decisions of each run
in three connections, then marks each order at the last snapshot of its code, sums up and
passes the gate. The time of a snapshot is its quote's own and may be missing; such a one is
sorted before all others of its code (`SortsBefore`), and the last may be of an earlier run
when a later one has none of the code (`LatestRun`). `BacktestCode` is `_backtest_one_code`,
a function of the bars.

`DataManager` - `DataManager._execute_with_fallback` and `CircuitBreaker`. Each access to a
field that another thread may write is an action: `IsAvailable`, `HalfOpen`, `Answer`,
`Close`, `Clear`, `LoadCount`, `StoreCount`, `Stamp`, `Branch`, `Compare`, `Open`.

`DailyWarehouse` - the cn tables of `MarketDataRepository` and everybody who writes them.
`rows` is `cn_symbols` reduced to `daily_start_date` and `daily_end_date`, `bars` the trade
dates in `cn_daily`. A writer is a request thread (`get_stock_info`, `get_stock_daily`), the
refresh thread of a day, or a `sync-market-data` process; `pc` is its place between two
`with self.connect()` blocks, `held` the rows it has read and will write. Shared code is
shared here: `FetchMarketSnapshot`, `DeleteSymbols`, `InsertSymbols` are
`refresh_market_snapshot_result` with `replace_symbols`; `ResolveSymbol`, `SearchSymbols`,
`CreateRow`, `EnrichRow`, `RereadRow` are `resolve_symbol`; `UpsertRecord`,
`UpsertDailyBars`, `SelectCoverage`, `UpdateCoverage` are `sync_symbol_daily` and
`upsert_daily_bars` (the SELECT of MIN and MAX runs before the UPDATE opens a transaction);
`CompareSnapshot`, `BackfillCoverage`, `BuildSyncCandidates`, `NextSymbol` are
`sync_market_data`. `MaybeScheduleMarketRefresh`, `SpawnRefreshThread`, `Preflight`, `Seal`
and `Finish` are the refresh service: the flag is set under the lock and the thread started
after it, which may raise and then leaves the flag to nobody (`stranded`); `checked` says
that today is sealed, `late` holds the threads whose `market_date` is over. `Raise` is an
exception at any point, with the `finally` and `except` blocks that catch it; `CrashServer`
and `Midnight` come at any time. Update times and names of rows are left out, so whether a
stored snapshot counts as today's, whether a row needs enrichment and whether a run is
skipped are free choices. What `excused` records is history for `CoverageExplained` alone;
no action reads it.

`SyncRuns` - the same sync seen from its `sync_runs` table: the state of the market
(target day, candidates, the bars' last day), whether a run may skip, the exemption of
suspended symbols, what each symbol is fetched for, and the seed status that reports on it.
`BeginSync` takes the reads before the loop as one step, as there is one process here that
writes these tables. A read of `get_stock_daily` fetches again from `Backtrack` days before
the last bar (`ReadFrom`).

`WatchSnapshot` - the item of one symbol: quote with its daily fallback, status, delta and
alerts. `WatchPolling` - `poll` in concurrent request threads: snapshot, load of the
baseline (look-up and removal of an expired one are two steps), save; `told` and `gap` are
history: what the client was last told, and why it may be something else than the baseline.

`WorkerTicks` - the ticks of `WatchWorkerService` and `grey_market_watch_cli`: active
window, due check against the row, the work, the row written at the end.

`QuotePolling` - `RealtimeQuotePollingService`: the normalized list, the info, quotation and
legacy calls of each symbol, the status of an item and of the answer.

`StockAnalyze` - `StockAnalyzeService.analyze` for both markets: a `step` per provider call
and per module, `Outcome`s with the age of the newest row, the windows and fallbacks, and
the item that results (module statuses, evidence, provenance, coverage). `heard` is history:
the calls that failed, of which two are the code's to swallow (the report history, and the
second call of the screen for the figures, `WithoutFigures`).
`MarketPack` - `DailyMarketPackService.collect`: a thread per series, and per provider for
US series, whose answers come in any order while time passes.

`HkIpoHeat` - one IPO after the other, all sources in parallel: what a page yields
(`Extracted`), what is attributed and dated, and the score, quality and statuses.
`HkIpoDocs` - processes that resolve, download and parse the HKEX documents of an IPO and
share the cache directory; a file may be read while it is written, and a process may die or
fail over it (`KeepFails`). The file with the content type beside each body is left out: a PDF
is known by its url or its first bytes as well.

`Desk` - the services that share no state, side by side, so that each behaviour is one of
them at work while the others wait. `Missing` - Python's `None`. `MC*` - instances for TLC:
constants only. `*Proofs` - the theorems.

In each module a definition commented "Mutant" is a broken variant of the one after it. It
is used by no specification; `PROJECT.json` pairs it with the property that notices it.

## Runs

| Run | Question | Answer |
|---|---|---|
| `chain` (`MCChain.cfg`) | One worker at a time, two root tasks, one crash or exception anywhere: does the chain lose work? | No. A completed task has left its successors, its summary and an ended run (`NoLostSuccessor`); without a failed task there is always a live main-line task (`ChainAlive`), even when the daily report closes the pending observations of another chain; the main line forks only after a re-run (`ForkNeedsRerun`); one live iteration (`OneIteration`); a prompt is never taken for a report (`PromptIsNotReport`). |
| `lease` (`MCLease.cfg`) | Two workers, leases that run out, one fault: is a task held twice? | Only across an expired lease (`LeaseExclusive`), the running row names its holder although `complete_task` is unguarded (`OwnerIsHolder`), an ended task never runs again (`TerminalStays`), every due task ends (`Drained`). |
| `lane` (`MCLane.cfg`) | Is an iteration only scheduled after the post-market line has drained? | No, see below. |
| `research` (`MCResearch.cfg`) | One registry command at a time next to a research loop. | The registry implements `StrategyLifecycle` (`LifecycleSpec`) with unbroken trails (`TrailsUnbroken`); its gates, audit and history hold (`GovernedStatus`, `AuditTellsStatus`, `HistoryTellsActive`); every proposal that is judged while a strategy is active is judged beside the figures of a verdict that strategy passed with, and improves on each of them if it passes; only a verdict recorded by hand can lack one, and then nothing is compared (`ComparedWithActive`); a run on record as ready has what an approval needs (`ReadyCanBeApproved`). |
| `regtwo` (`MCRegistryTwo.cfg`) | Two processes: is there still a single active strategy? | No, see below. |
| `trading` (`MCTrading.cfg`) | A scheduled and an unlocked direct round, a lock that expires, one fault. | `LockHeld`; a duplicate order needs a fault or overlapping rounds (`DuplicateNeedsFault`); the ledger accounts for what the broker got (`SentIsDecided`, `OkRunIsComplete`). |
| `tradetwice` (`MCTradingTwice.cfg`) | The default lock, one crash: is an order sent twice? | Yes, see below. |
| `breaker` (`MCBreaker.cfg`) | Two request threads on the breakers of two sources. | No trip is lost (`ClosedBelowThreshold`), half-open always has a prober (`HalfOpenIsProbed`), a tripped first source is tried again (`Retried`). |
| `notsupported` (`MCNotSupported.cfg`) | Does "not supported" leave a breaker alone? | No, see below. |
| `watch` (`MCWatch.cfg`) | Two polls of overlapping lists, failing sources, an exception, expiry, a restart: what is a delta taken from? | From what the client was last told, unless requests overlapped, one that had saved never answered, the baseline expired or the server restarted (`SinceLastTold`); only overlap takes a baseline back (`BaselineForward`). |
| `warehouse` (`MCWarehouse.cfg`) | A request, refresh threads and a sync on one symbol table, with exceptions, deaths and midnights anywhere: what does a coverage summary mean, and can the refresh get stuck? | A summary never names a date without a bar (`CoverageLanded`). A summary nobody is working on is exact unless two writers overlapped on the symbol, one stopped halfway, or a replace dropped the row, and no backfill came since (`CoverageExplained`). `in_flight` is set exactly while one thread is starting or alive, or after a start that raised, until a restart (`FlagHasThread`). |
| `desk` (`MCDesk.cfg`) | The services that share no state, one per behaviour. | See the next table. |

The `desk` run:

| Service | Answer |
|---|---|
| handoff queue: two agents with stale clocks, a new and a migrated row | leases exclude (`NoSteal`), verdicts fall into the lease (`VerdictInLease`), the log tells the row (`EventsTellRow`) in the order a replay sorts it (`ReplayOrder`) |
| stock analysis, quotes: any call may fail | what failed is told in the item and in the answer, except for the calls it names, see below; a poll answers each security asked for once, in the order of the request (`AnswersTold`) |
| market pack: providers answer in any order, after any time | the closes are final at the cutoff, items follow the documented policy, a series fails only when nobody had two closes (`PackTold`) |
| worker ticks: three overlapping processes | a tick comes an interval after those on record (`TicksApart`) |
| sync runs: five days of bars, a halt, failing calls | a skipped run hides no bar missing for longer than the grace, but of a symbol just fetched or excused, see below (`SkipHidesNoBars`) |
| heat scan | a source that fails can only cost (`FailureOnlyCosts`) |
| official documents: two processes, one directory | they tell the same of a document unless the file was torn (`DocumentsAgree`) |
| review and backtest | `LookBack`: a review tells finished runs in full and marks no order at an older price while its own snapshot tells a time (an order bought at price 0 has no mark: the code gives it no return); the backtest buys the rounds' first order or, after a bar above the limit, nothing |
| alpha research: five days of two symbols | observations are final (`EvaluationIsFinal`) |

## Bounds

- Task chain: `MaxRoots` bootstraps, `MaxFaults` faults, `MaxClock` instants. The delays
  keep their order and lose their size: minutes are 0, a quarter of an hour to an hour is
  one instant, a day is two, so that everything due at once, due later and due tomorrow
  occur. `Ttl` is one instant: a lease can run out at every point of a tick. Primary keys
  are a finite set and a new row takes any absent one (`CHOOSE`: which one does not
  matter); `Room` keeps a tick from starting when the keys might not last, so no tick is
  cut off in the middle. One fault suffices for every crash-and-rerun; the chain run has
  two roots and the lease run two workers, because the two together are out of reach.
  `Crash` keeps one `Ttl` before the end of the clock, so that recovery is inside the bound.
- Handoffs: two agents are enough for a takeover and a late verdict. The migrated row has
  no lease; `claim` runs with and without a lease time. The clock ends at 2.
- Registry and research: two versions, two proposals, one command at a time, one researcher
  that tries two factors in turn over a market with a factor that works, one that works
  better and one without bars, `MaxRuns` = 2 recorded runs: enough for a champion to change
  between two attempts and between two runs. `MaxByHand` = 1 verdict is recorded by hand,
  without figures or with one that few challengers reach. Every command may be
  repeated; the lifecycle ends the behaviours.
- Trading: two codes whose costs together exceed the cash, two run ids, one fault. When the
  run ids are used up nothing can start, which is why deadlock is not checked there.
- Breakers: two threads, two sources (the US market's), threshold 2 (3, the default, in
  the sequential run). The failure count saturates at the threshold, because the code only
  compares it; the cooldown is a flag that any failure resets.
- Watch: two requests, a cn and a us symbol, lists of one of them and of both with one
  repeated, baselines that expire after the instant they were saved in, a clock of two
  instants. Requests, failures and restarts are not bounded. The sources return a calm
  quote, a quote without a price beside daily bars, a price of zero (which an alert divides
  by), or nothing.
- Warehouse: one share and one ETF, two trade dates, one request thread, one sync and two
  refresh threads, of which at most `MaxBusy` = 2 work at the same time: every hazard listed
  is a race of two. Exceptions, deaths, midnights and repetitions are not bounded. The
  sources return the share's history up to yesterday or with today's bar, and no bars of the
  ETF, whose row the replaces carry along. `scope=symbol` is modelled with one symbol, more
  of them are one after the other.
- Desk: each behaviour ends with its answer, which is why deadlock is not checked. Alpha:
  two symbols, five days of closes 4 and 8, windows 1 and 2, `MinBars` 3, momenta of one and
  two days for the code's 5 and 20. Analysis: ages on both sides of every window, two news
  sources, a request in both US modes and in the base mode of cn, one of two symbols to tell
  a lost item from a lost answer; the full mode of cn, which asks the same providers and lists
  more modules, only occurs in a request without symbols, which is refused. Pack: a series of each region, cutoffs before, at and after the close of New York.
  Ticks: three processes, interval 2, window {0, 2}: not due, outside, and due again. Sync:
  two symbols, five days, grace 1, reads that go back two days; one trades on days 1, 4 and
  5, the other on 1 and 3 and is halted on 2. Heat: a portal, the tracker and a broker's
  live page, two IPOs, one of them closed. Documents: two of them, one oversized, two
  processes. Quotes: lists with two spellings of one code, codes of other exchanges and what
  is no code. Review: two rounds, one code, prices 1 to 3 around threshold and limit and
  none, quotes (`ReviewQuotes`) of now, of the instant before and without a time, days of
  one instant so that a round crosses midnight; the backtest two bars.

## Fairness

- `TaskChain.FairSpec`: time passes, and each worker keeps taking its steps. launchd
  starts a tick every 60 seconds (`ops/com.ryan.stock-analysis-task-chain.plist`), and a
  tick that has begun goes on unless it crashes. No fairness for bootstraps or faults.
- `DataManager.FairSpec`: requests keep coming, a call of a fetcher returns (its
  timeouts), a cooldown passes. Recovery has no other trigger in the code than a request.

The other specifications state safety only.

## Proofs

Fifty-one theorems in eight modules, each for every value of the constants under the
`ASSUME`s of the module it is about. Every invariant and action property that a passing run
checks, and the refinement `LifecycleSpec`, is the statement of one of them; the two liveness
properties are not. Few of the properties are inductive; what follows is the strengthening
and why it is needed.

The assumptions are what the code guarantees of its constants: natural times and bounds,
finite lists, `None` apart from the keys it stands beside, and then

- that a run's window is not empty and not zero (`MarketAssumption`:
  `_normalize_forward_windows` refuses others), that a grace is at least a day
  (`SyncAssumption`) and nobody trades on a day on which he is halted, that a lease lasts
  (`TimeAssumption`: `acquire_due_task` rejects a `ttl` of 0), that a run asks for at least
  one document, symbol, source or factor where the code refuses or never builds an empty list;
- that the figures of a page are numbers (`HeatAssumption`: the code parses them first) and
  that the fields of the first pages are among those of the whole (`DocAssumption`);
- that processes are finitely many and the three kinds of writers of the warehouse
  disjoint, sources return known dates and ETFs are symbols (`WorkerAssumption`,
  `SymbolAssumption`, `DateAssumption`).

Six theorems have a hypothesis besides. Each says what the code relies on without enforcing
it; the other theorems do without:

- `[]OneAtATime`: no two ticks hold a task at once. launchd does not start a job whose last
  run is still going, and the run `chain` has one worker; a second tick by hand, or a lease
  that runs out under a slow one, breaks it.
- `"strategy_iteration" \notin RootType`: nobody bootstraps an iteration by hand.
- `[]Serial`: no two commands of the registry are between their first read and their write at
  once. The run `regtwo` shows what happens without it.

### Task chain: `TaskChainProofs`

`TypeCorrect`, `LeaseExclusion`, `OwnerCorrect`. The invariant `TypeOK /\ LeaseInv` adds

- `HoldOK`: an open tick has a task that is no longer pending, and a run once it started;
- `LeaseCovers`: while its row still runs, a holder's lease is at most the row's lease (a
  takeover only moves it on);
- `NowPast`: no tick's `now` is ahead of the clock.

Only `Acquire` can endanger the lease, and lemma `LeaseAcquire` is the argument: the row it
takes was pending, and then nobody holds it (`HoldOK`), or its lease had run out before
`now`, and so had, by `LeaseCovers`, the leases of all its holders. All other actions keep
times, drop holders, insert rows or close them; lemma `LeaseKept` says once that such a
step is harmless, which covers the unguarded `complete_task` of a late tick, and
`LeaseStep` checks each action against it.

`TerminalKept`, `SuccessorsNeverLost`, `PromptNeverReport`. First what any step leaves of a
row (`RowStep`: type, flag and parent stay, a closed row stays closed), of its children and
of its runs. A tick that is past its execution still owes the successors in `todo`, has its
summary and, before `complete`, has ended its run (`Owing`, `Ended`, with `RunOwned`:
`TickOK`), so whatever a crash leaves behind is not yet completed, and what is completed
owes nothing. For the prompt, `ScanInv` follows a silent run from its start to the iteration
it asks for.

`ChainGoesOn` (under `[]OneAtATime`). `AliveInv` says that a held task is running as long as
its tick has not closed it (`JobRuns`), and that a tick of the main line that has executed
still has the next task to insert or has inserted it (`MainGoesOn`). The daily
report, which closes the pending observations of any chain, is safe because it does so
before it inserts its own successor, while its own task is running.

`OneIterationHolds` (under `[]OneAtATime` and without iterations by hand). `Checked` is what
the two queries of a tick have seen when it goes on: no pending iteration after the first,
no live one after the second, and a single one to insert; nobody else inserts meanwhile.

`ForkHolds`, for any number of ticks at once. A main-line task that ran once has at most one
heir and none before its run inserts it (`HeirsOnce`), a tick has one main-line task to
insert at most (`MainSpecsOK`), and a parent has been started (`MainParents`). From there the
property is counting (`ForkCount`): rows, runs and roots are finite sets that grow one by one
(`FiniteInv`), the parents of the main line's tasks are different tasks that are no longer
pending, so there are no more pending ones than roots.

### Handoffs: `AgentHandoffProofs`

`HandoffTypeCorrect`, `LogTellsRow`, `VerdictsInLease`, `ReplayOrdered`, `NothingStolen`. The
invariant is per row: the log tells the row (`Told`), starts with its enqueueing and has every
verdict in the lease of the claim before it (`Shaped`), and the owner of a claimed row began
its present command after the claim (`ClaimedBefore`), which is what excludes a verdict with a
clock from before the claim.

### Registry and research loop: `StrategyRegistryProofs`

Every invariant of the registry is preserved by `AnyNext`: a step of the registry's, or any
step that only adds verdicts (`VerdictsGrow`). That is what a research loop does to the
registry, so the theorems hold beside it as well (`LoopsKeepTheGate`,
`LoopsKeepTheLifecycle`).

`RegistryTypeCorrect`, `GateHolds`, `AuditHolds`, `HistoryHolds`, for any interleaving of any
number of processes. What a command has checked before its write is never taken back (`Kept`,
`HoldsFor`): verdicts and approvals only grow, proposals stay, a certified version stays
certified. So a stale check is still true when the write comes.

What a stale read cannot carry over is "no other is active" and "the status is still what I
read". `TrailsHold`, `OneActive` and `LifecycleImplemented` are therefore under `[]Serial`.
Then what a command has read is so until it writes (`Current`), every audit event continues
its chain (`ChainOf`), and the history is a chain that ends in the one active strategy, from
which `SingleActive` follows. For the refinement each step is mapped to the move of
`StrategyLifecycle` it is, or to a stutter; the writes are the only moves.

`ComparedHolds` and `ReadyHolds`, for any number of researchers and commands at once. The
strategy a researcher read as active is certified, so it has passed the gate once, so its
passed verdict is in the log and found (`DeskHolds`, `Logged`), although another may be
active by the time of the judgement. The judge writes figures into every verdict it passes,
so the one found lacks them only if it is among `ByHand`; and a run that says it is recorded
has its verdicts in the registry up to the one it is at (`RecordedUpTo`, `RunsHold`).

### Trading: `TradingRunProofs`

`RoundTypeCorrect`, `LockCorrect`, `SentDecided`, `OkRunsComplete`, `DuplicateIsFault`. Typing
needs that a run row is left for every process on its way to one (`RowsLeft`, a comparison of
cardinalities) and that rounds own different rows (`OwnRun`). The ledger's part follows the
signal at hand from its decision to its key (`AtHand`, `RoundSettled`); for the duplicate,
while nothing has gone wrong at most one process is in a round, and every code sent has its
key or is about to get it (`OnceInv`).

### Breakers: `DataManagerProofs`

`BreakerTypeCorrect`, `NoTripLost`, `NoProbeLost`. A closed breaker whose count has reached
the threshold has a thread at the source that will clear or open it (`TripPending`), a
half-open one has a thread that will answer (`ProbePending`); a thread that leaves such a
point has settled the breaker by the step it takes.

### Watch: `WatchPollingProofs`

`WatchCorrect`, `BaselineGoesForward`. Two requests that have both begun with a symbol have
left the mark "overlap" (`Marked`); without it a request holds a snapshot that is not older
than the baseline (`Newer`), and none is of the future (`Past`).

`SinceLastToldHolds` is about the loop of `poll` as well: a symbol has one item at most, and
none before its own turn (`Looping`). While the history names nothing for a symbol, every
item was compared with what its client was told last (`ItemInStep`), and either that is the
baseline still (`AsTold`) or an item not yet sent has replaced it. Every action that could
break this writes its reason into `gap` in the same step; that it may not do so for another
symbol is what most of the proof is about.

### Warehouse: `DailyWarehouseProofs`

- `WarehouseTypeCorrect`: `Spec => []TypeOK`. The strengthening is `SymKnown`: a writer at a
  step for one symbol has one.
- `CoverageSound`: `Spec => []CoverageLanded`. A summary is a value that travels, from the
  bars by a SELECT into a local, into a row, into the memory of another writer and back, so
  the invariant is that *every* copy has landed: `CoverageLanded /\ HeldLanded /\
  SpanLanded`. A step preserves it when what it writes has landed before the step and no bar
  is deleted (`SafeStep`, `SafePreserves`); `StepSafe` and `OtherSafe` check each action.
- `FlagCorrect`: `Spec => []FlagHasThread`. The strengthening is `RefreshOnly`: a refresh
  thread never comes to the steps at which other writers end, so every way out of it passes
  the `finally` block. A start that raises is the one way to the flag without a thread, and
  while it is set nobody starts another.
- `CoverageIsExplained`: `Spec => []CoverageExplained`. Two writers on one symbol leave it
  in doubt (`SharedDoubt`). Of a symbol not in doubt, the one writer at work on it knows the
  exact summary wherever it keeps one (`InHand`: in its row, in its record, in the result of
  its SELECT, in the rows it is about to insert), and when nobody works on it the row is
  exact (`Sound`). A backfill dispels the doubt unless two writers are at work on the
  symbol, so a writer with an older row keeps it up.

### Services: `DeskProofs`

- `TicksHold` (`TicksApart`). A process writes its row once, at its end (`WrittenOnce`), the
  row is the start of the last writer (`RowIsLast`), and a process that goes on without force
  saw a start at least an interval back (`CameAfterLast`). None of this says that the last
  writer started last, which is why the property excepts slower processes.
- `DocumentsHold` (`DocumentsAgree`). A file is absent, whole, being written or on record as
  torn (`FilesKnown`), and so is every text parsed from one (`TextsKnown`).
- `PackHolds` (`PackTold`). A candidate's days had closed at the cutoff (`CandidatesOfOk`), a
  CN series takes the first that answered (`FirstOfPolicy`), and the pack is what the threads
  ended with, whenever they did (`AnswerOfThreads`).
- `HeatHolds` (`FailureOnlyCosts`). The invariant is short, the lemmas are the proof: score,
  quality and status grow with the evidence (`ScoreGrows` and after), and a failed source is
  one whose evidence is missing.
- `SkipHolds` (`SkipHidesNoBars`). What a run need not fetch any more is `Accounted` for, and
  stays so while bars land and days pass; a completed or skipped run has left all symbols so.
- `QuotesHold`, `AnalysesHold` and, of both, `AnswersHold` (`AnswersTold`). The items and
  what is still queued are the securities asked for, once each and in their order
  (`PollInOrder`); a call that failed shows in its block, its module or what replaces it, or
  is one of the two that are swallowed (`CallTold`), at each step of the analysis with the
  modules not asked yet (`NotAsked`).
- `EvaluationHolds` (`EvaluationIsFinal`), an action property of `AlphaMarket`: what an
  evaluation observes are the rows a longest window before the end (`SettledRows`), and those
  do not change when a day is appended.
- `LookBackHolds` (`LookBack`), beside any number of rounds. The rows a review has read of
  ended runs are the ledger's (`RowTold`), and as orders are read after the runs and decisions
  after the orders, an order that is read has its decision (`ReadTold`). For the price, the
  snapshots of a code are sorted totally, the order's own is among them, and one with a time
  is before none without. The backtest's part has no steps: the first
  bar that decides is a least element.
- `DeskHolds` carries these theorems over to the composition that the run checks: a step of
  the desk is one of a service or leaves its variables alone (lemmas `DeskSteps`,
  `DeskImplements`). Those of the handoff queue are about its own `Spec`.

### The tools, and what stays with TLC

Induction over data is out of the provers' reach (the library's induction theorems take an
operator as parameter). Where a proof would use it, it takes a least counterexample instead,
from the well-foundedness of the naturals (`LeastNat`, `LeastNumber`): a first bar, a first
candidate, a MIN and a MAX of dates, the first spelling of a code.

Model-checked only: the liveness properties `Drained` and `Retried`, which need fairness and
ENABLED; that `AlphaPipeline`'s and `StrategyJudge`'s figures are those of the services, which
no property states beyond `EvaluationIsFinal` and `ComparedWithActive`; and the four runs that
end in a violation.

## Where code and documents differ

Shown by a run that fails:

- `lane`: `_next_strategy_iteration` does not ask for `post_market_research`, so a KOL scan
  that runs before that task has ended (its first successors exist already) schedules an
  iteration; `docs/architecture.md:105` and `docs/specs/task-chain-worker.md:128` want the
  line drained.
- `regtwo`: two concurrent activations both succeed; `docs/specs/alpha-research-loop.md:119`
  and `docs/architecture.md:293` allow one active strategy.
- `tradetwice`: the broker gets an order before the ledger gets its key; after a crash in
  between the order is sent again, against `docs/specs/simulated-trading-automation.md:67`.
- `notsupported`: a source that cannot quote answers `None`, which counts as its failure;
  `docs/architecture.md:217` says it must not.

Met while reading, not given a run. Task chain and registry:

- The task chain document completes a task before it writes the successors and takes
  pending tasks only; the code writes the successors first (which is what makes
  `NoLostSuccessor` hold) and also takes running tasks with an expired lease.
- `retryable` of a failed handoff is recorded and read by nobody. A re-run KOL scan
  enqueues a second handoff, because the key contains the run.
- Runs are called append-only; the code updates their status.
- A stale approval or activation can set an active version back to approved, or bring a
  retired one back; `research`, with one command at a time, shows it needs two processes.

Alpha research:

- `list_research_loop_runs` orders by id ascending and then limits, so it answers the
  oldest runs (`docs/specs/alpha-research-loop.md:215`). The run row and its verdicts are
  separate transactions and their ids not unique; a champion may be stale when it is
  compared.
- `record-verdict` takes a passed verdict without metrics. When the strategy it is about
  becomes active, `_champion_reasons` has nothing to compare and a challenger passes
  on its own figures, although a comparison with the active strategy is what the document
  asks for (`ComparedWithActive` names this case).
- The `date` of a daily report bounds neither the scan nor the evaluation. A history no
  longer than the longest window is not cut at its end, so its observations change
  (`EvaluationIsFinal` excepts it). Overlapping holding periods are compounded daily, and
  the drawdown's peak starts at the equity after the first period.

Trading:

- Two scheduler ticks may both find no recent round and run one after the other; the later
  write of the tick row wins.
- The backtest rejects a code at its first bar above the limit, while rounds would go on and
  may buy later (`BacktestLikeRounds` says so). Failed and dead runs count towards the
  gate's number of runs; a run past midnight counts for both days; an order that was sent
  and not recorded is not in a review.
- A snapshot without `as_of` is sorted first, so a review marks an order at the price of an
  earlier snapshot when the one it was bought at has no time (`ReviewTold` says so).

Data manager, warehouse:

- A success that arrives late closes an open breaker without the half-open state of the
  diagram in its docstring.
- `docs/specs/local-daily-warehouse.md:105` says that the summary columns are the first and
  last date of the bars. They are not after a partial snapshot (without ETFs) dropped a row
  that comes back later, after a crash between the DELETE and the insert of
  `replace_symbols`, or after two writers of one symbol: `excused` collects these cases, and
  only the next sync's backfill ends them.
- `_snapshot_updated_today` looks at the oldest and the newest `updated_at`. A table that
  holds only rows written today, such as the fallback rows of the first requests or the rows
  of a sync, counts as today's snapshot and seals the day without a refresh, although
  `test_market_refresh_does_not_treat_single_row_update_as_full_snapshot_current` means to
  tell single updates apart.
- `_resolve_trade_window` returns no target date for us and hk (nor for cn when the calendar
  fails), so their syncs never take a stale symbol for a candidate and skip for ever;
  `docs/specs/local-daily-warehouse.md:132-137` lists stale bars among what a sync fills.
- `_find_suspension_exempt_symbols` exempts a symbol for a halt on any day after its last
  bar: one that was halted for a day and trades again is never a candidate, and the market
  is called current (`docs/architecture.md:244`). `SkipHidesNoBars` excuses both: a skipped
  run may hide bars of a symbol that has some and either was suspended on a day since its
  last bar or is of a market without a target day.
- Candidates nobody can fill make runs alternate between completed and skipped; a symbol
  listed after the start date stays one; the skip compares numbers of symbols, not symbols.
  While a `total_mv` is missing, a run that is otherwise current asks for daily_basic alone.

- `Thread.start` is called after `in_flight` is set and outside the `try` that clears it: when
  it raises, the market is not refreshed again until the server restarts (`FlagHasThread` names
  the case).

Watch and quotes:

- The exception of one symbol ends the whole batch; `docs/specs/watch-polling-api.md` wants
  it isolated. A price of 0 divides by zero in the near-low alert. The removal of an expired
  baseline may remove the fresh one of another request. After a poll from daily bars the
  next realtime poll alerts on the whole move.
- A slow tick that started earlier and records later sets `last_started_at` back
  (`TicksApart` excepts it); a tick without an active strategy leaves no row.
- A quote's exchange suffix is dropped, so `000001.SH` is answered as `000001.SZ`. A batch in
  which every item failed is "partial". A failed info call is told nowhere once there is a
  quote.

Reports:

- `docs/api.md:256` promises status 200 with `item.status=failed`; an exception outside the
  modules' own handlers (a calendar date without a time zone compared with one that has it)
  ends the whole request. `estimate_fallback_used` is set for every cn item, also when the
  requested window answered (`docs/strategy.md:267`). A cn item can never be "ok", and
  `fundamental_quality` never "covered". A failed history call, a failed news source
  beside one with rows, and the failure of the screen's own call for the figures are told
  nowhere; the screen is then "ok" without metrics.
- The market pack compares no cutoff with the clock, and its items have none of the fields
  `value`, `change` and `note` of its design document.
- Heat scan: one date on a page that equals the report's dates all of the page; a page that
  is not about one symbol gives its figures to the IPO being scanned; two figures of one
  page make quality "high".
- Official documents: `official_docs_not_found` of `docs/specs/hkipo-official-docs-cli.md`
  is never told (`DocumentsAgree`); a download is cut at 8,000,000 bytes and kept; the cache
  is written in place and never checked again.

## Not modelled

Left out for good: the adapters of the data sources and their normalizers (a source is a
call that answers, fails or has nothing, in every model that asks one), HTTP routing and
validation, export and layout, the figures of the analyzers (trend scores, DCF, statements),
the IPO backtest script, and commands that only print tables. Two components are therefore
`not_modelled`: data sources, and HTTP API with export.

Inside the components marked "partly": the registry's tables of candidates and evaluations,
which no rule reads; the breaker reset methods and `add_fetcher`, which nothing calls; the
text of reports, prompts, items and errors; time zones and times compared as text; regular
expressions, which are what they find. In the warehouse: the us and hk tables under
concurrent writers (the us market repeats the cn code on its own table and flag, except that
an unknown symbol of either market goes straight to the fallback row), and in `SyncRuns` a
second process.

## Plan

Done, in this order: `TaskChain`, `AgentHandoff`, `StrategyLifecycle` and
`StrategyRegistry`, `TradingRun`, `DataManager`, `DailyWarehouse`; then `WatchPolling`,
`ResearchLoop` with `StrategyJudge` and the alpha services, `SyncRuns`, `WorkerTicks`,
`StockAnalyze`, `MarketPack`, `QuotePolling`, the IPO tools and `TradingReview`; then the
theorems, first of the shared tables, then of the services and their composition.

What would come next:

1. Weaker hypotheses for the theorems under `[]OneAtATime` and `[]Serial`: that no two ticks
   are between the two queries for an iteration and its insertion, say, or that no command
   overlaps an activation.
2. `WorkerTicks` composed with `StrategyRegistry` through the active strategy.
3. Two concurrent processes in `SyncRuns`, on the symbol table of `DailyWarehouse`.
4. The properties of the handoff queue carried over to `Desk`.
