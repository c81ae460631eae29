------------------------------ MODULE WorkerTicks ------------------------------
(***************************************************************************)
(* The ticks of the watch worker (WatchWorkerService.tick) and of the grey *)
(* market watch (grey_market_watch_cli.main): cron starts a process, which *)
(* works when it is inside the active window and its interval has passed   *)
(* since the last tick on record.  The row is read at the start and        *)
(* written at the end, so ticks of one key overlap when one is slow.       *)
(***************************************************************************)
EXTENDS Integers, Sequences, FiniteSets, Missing

CONSTANTS
  Tickers,       \* the processes; each runs once
  Interval,      \* --interval-seconds
  ActiveWindow,  \* the instants inside --active-window
  TickEnd        \* the last instant

ASSUME TickAssumption == /\ Interval \in Int
                         /\ None \notin [started : Nat, status : {"ok", "degraded", "failed"}]

\* --providers: only futu has an adapter.
GreyProviders == {"futu", "tiger"}

VARIABLES
  tickTime,  \* the clock
  worker,    \* which of the two programs cron starts
  tickRow,   \* the row of its state_key in scheduler_ticks, None before the first tick
  ticks,     \* the processes
  recorded   \* history: the tickers in the order they wrote their row

tickVars == <<tickTime, worker, tickRow, ticks, recorded>>

NotStarted == [pc |-> "start", now |-> None, force |-> FALSE, once |-> FALSE,
               seen |-> <<>>,   \* history: `recorded` when the row was read
               status |-> None, exit |-> None]

TickInit ==
  /\ tickTime = 0
  /\ worker \in {"watch", "grey"}
  /\ tickRow = None
  /\ ticks = [k \in Tickers |-> NotStarted]
  /\ recorded = <<>>

TickPass ==
  /\ tickTime < TickEnd
  /\ tickTime' = tickTime + 1
  /\ UNCHANGED <<worker, tickRow, ticks, recorded>>

Becomes(k, tick) ==
  /\ ticks' = [ticks EXCEPT ![k] = tick]
  /\ UNCHANGED <<tickTime, worker>>

Ends(k, tick, status, exit) ==
  Becomes(k, [NotStarted EXCEPT !.pc = "done", !.now = tick.now, !.status = status, !.exit = exit])

\* The arguments are parsed and the window is looked at; --once is of the grey market.
StartTick(k, force, once, valid) ==
  LET tick == [NotStarted EXCEPT !.now = tickTime, !.force = force, !.once = once] IN
    /\ ticks[k].pc = "start"
    /\ once => worker = "grey"
    /\ IF ~valid THEN Ends(k, tick, "failed", 2)
       ELSE IF ~force /\ tickTime \notin ActiveWindow THEN Ends(k, tick, "skipped", 0)
       ELSE Becomes(k, [tick EXCEPT !.pc = IF once THEN "query" ELSE "read_row"])
    /\ UNCHANGED <<tickRow, recorded>>

\* Mutant: a tick that did not end well does not count.
NotDue_OkOnly(tick) ==
  tickRow # None /\ ~tick.force /\ tickRow.status = "ok" /\ tick.now < tickRow.started + Interval

NotDue(tick) == tickRow # None /\ ~tick.force /\ tick.now < tickRow.started + Interval

\* get_scheduler_tick.
ReadRow(k) ==
  /\ ticks[k].pc = "read_row"
  /\ LET tick == [ticks[k] EXCEPT !.seen = recorded] IN
       IF NotDue(tick) THEN Ends(k, tick, "skipped", 0)
       ELSE Becomes(k, [tick EXCEPT !.pc = IF worker = "watch" THEN "read_strategy" ELSE "query"])
  /\ UNCHANGED <<tickRow, recorded>>

\* Without an active strategy the tick leaves no row.
ReadStrategy(k, active) ==
  /\ ticks[k].pc = "read_strategy"
  /\ IF active THEN Becomes(k, [ticks[k] EXCEPT !.pc = "query"])
     ELSE Ends(k, ticks[k], "skipped", 0)
  /\ UNCHANGED <<tickRow, recorded>>

\* AlphaDailyReportService.report ("ok" stands for what it may say of itself), or an
\* exception, which is caught.
MakeReport(k, status) ==
  /\ ticks[k].pc = "query" /\ worker = "watch"
  /\ Becomes(k, [ticks[k] EXCEPT !.pc = "record", !.status = status])
  /\ UNCHANGED <<tickRow, recorded>>

\* GreyMarketWatchService.query: an exception of futu, or no snapshot, is a failed
\* provider; an order book that fails is not.
QueryProviders(k, providers, futu) ==
  LET answers == [p \in providers |-> IF p = "futu" THEN futu ELSE "unsupported"]
      status == IF \E p \in providers : answers[p] = "ok" THEN "ok" ELSE "failed"
      tick == [ticks[k] EXCEPT !.status = status]
  IN /\ ticks[k].pc = "query" /\ worker = "grey"
     /\ IF ticks[k].once THEN Ends(k, tick, status, IF status = "ok" THEN 0 ELSE 1)
        ELSE Becomes(k, [tick EXCEPT !.pc = "record"])
     /\ UNCHANGED <<tickRow, recorded>>

\* record_scheduler_tick: last_started_at is the tick's `now`, whoever wrote meanwhile.
WriteRow(k) ==
  /\ ticks[k].pc = "record"
  /\ tickRow' = [started |-> ticks[k].now, status |-> ticks[k].status]
  /\ recorded' = Append(recorded, k)
  /\ Ends(k, ticks[k], ticks[k].status,
          IF worker = "watch" \/ ticks[k].status = "ok" THEN 0 ELSE 1)

\* The database fails: the result is lost.
WriteFails(k) ==
  /\ ticks[k].pc = "record"
  /\ Ends(k, ticks[k], "failed", 1)
  /\ UNCHANGED <<tickRow, recorded>>

\* The registry or the ledger cannot be read.
ReadFails(k) ==
  /\ ticks[k].pc \in {"read_row", "read_strategy"}
  /\ Ends(k, ticks[k], "failed", 1)
  /\ UNCHANGED <<tickRow, recorded>>

TickDies(k) ==
  /\ ticks[k].pc \in {"query", "record"}
  /\ Becomes(k, [NotStarted EXCEPT !.pc = "dead"])
  /\ UNCHANGED <<tickRow, recorded>>

TickNext ==
  \/ TickPass
  \/ \E k \in Tickers :
       \/ \E force, once, valid \in BOOLEAN : StartTick(k, force, once, valid)
       \/ ReadRow(k)
       \/ \E active \in BOOLEAN : ReadStrategy(k, active)
       \/ \E status \in {"ok", "degraded"} : MakeReport(k, status)
       \/ \E providers \in SUBSET GreyProviders \ {{}}, futu \in {"ok", "failed"} : QueryProviders(k, providers, futu)
       \/ WriteRow(k)
       \/ WriteFails(k)
       \/ ReadFails(k)
       \/ TickDies(k)

TickSpec == TickInit /\ [][TickNext]_tickVars
-----------------------------------------------------------------------------
(* Properties. *)

Position(s, x) == CHOOSE i \in DOMAIN s : s[i] = x

\* A tick that is not forced comes an interval after every tick recorded when it read
\* its row, whatever the tick's result was; only a slow tick that started earlier and
\* recorded later can hide one.  Overlapping ticks both work.
\* (tick, get_scheduler_tick, record_scheduler_tick)
TicksApart ==
  \A j \in Tickers :
    ticks[j].pc \in {"read_strategy", "query", "record"} /\ ~ticks[j].force /\ ~ticks[j].once =>
      \A i \in {ticks[j].seen[n] : n \in DOMAIN ticks[j].seen} :
        \/ ticks[j].now >= ticks[i].now + Interval
        \/ \E k \in {ticks[j].seen[n] : n \in DOMAIN ticks[j].seen} :
             /\ Position(ticks[j].seen, k) > Position(ticks[j].seen, i)
             /\ ticks[k].now < ticks[i].now
=============================================================================
