----------------------------- MODULE TradingRun -----------------------------
(***************************************************************************)
(* One round of simulated trading: trading_scheduler_tick.py decides       *)
(* whether a round is due, trading_run_once.py takes the lock and calls    *)
(* TradingAutomationService.run_once, which reads the account, evaluates   *)
(* each signal, submits accepted orders to the broker and writes the       *)
(* ledger (SqliteTradingLedger).                                           *)
(*                                                                         *)
(* Processes share the ledger database and the broker.  Every method of    *)
(* the ledger is a transaction of its own and every call of the broker is  *)
(* external, so a round is a sequence of actions that can stop anywhere.   *)
(***************************************************************************)
EXTENDS Naturals, FiniteSets, Sequences

CONSTANTS
  Process,    \* scheduler and run-once processes
  RunId,      \* primary keys (uuid4) of trading_runs
  Request,    \* the codes a round asks for, in order
  Cost,       \* price times quantity of an order for each code
  MaxOrder,   \* --max-order-notional
  StartCash,  \* the broker's cash at the start
  Open,       \* instants inside the active window
  Interval,   \* --interval-seconds
  LockTtl,    \* --lock-ttl-seconds
  Entries,    \* the commands in use: tick or direct run, with or without the lock
  None,
  MaxFaults,  \* bound: crashes and exceptions
  MaxClock    \* bound: the last instant of the clock

Entry == [tick : BOOLEAN, locks : BOOLEAN]
Code == {Request[k] : k \in DOMAIN Request}

ASSUME TradingAssumption == /\ None \notin Process \cup RunId
                            /\ IsFiniteSet(Process) /\ IsFiniteSet(RunId)
                            /\ Request \in Seq(Code)
                            /\ Cost \in [Code -> Nat]
                            /\ LockTtl \in Nat \ {0}  \* try_acquire_lock rejects <= 0
                            /\ Entries \subseteq Entry
                            /\ {MaxOrder, StartCash, Interval, MaxFaults, MaxClock} \subseteq Nat
                            /\ Open \subseteq Nat

VARIABLES
  clock,      \* wall clock
  tick,       \* trading_scheduler_ticks: the row of this state key
  lock,       \* trading_locks: the row of this lock name
  runs,       \* trading_runs: the status of each row
  decisions,  \* trading_risk_decisions
  orders,     \* trading_orders: the run that recorded each idempotency key
  submitted,  \* broker: the orders it was sent
  filled,     \* broker: those it has filled
  funds,      \* broker: the cash left
  pc,         \* where each process is
  entry,      \* its command: a tick or a direct run, and whether it locks
  now,        \* the tick's "now"
  until,      \* expires_at of the lock it took
  run,        \* its run row
  cash,       \* the account cash it read
  todo,       \* the signals it has still to evaluate: positions in Request
  crashes,    \* processes that died so far
  failures,   \* calls that raised so far
  overlap     \* auxiliary: two rounds have been under way at once

ledger == <<tick, lock, runs, decisions, orders>>
broker == <<submitted, filled, funds>>
local == <<entry, now, until, run, cash, todo>>
aux == <<crashes, failures, overlap>>
vars == <<clock, ledger, broker, pc, local, aux>>

\* Points inside the try block of run_once, and all points with the lock held.
TryPoint == {"account", "positions", "evaluate", "record", "reject", "submit", "order",
             "finish"}
RoundPoint == TryPoint \cup {"finishFailed"}
LockPoint == RoundPoint \cup {"startRun", "release"}
Point == LockPoint \cup {"idle", "schedule", "lock", "recordTick"}

Tick == [seen : BOOLEAN, started : Nat]
Lock == [owner : Process \cup {None}, expires : Nat]
Decision == [run : RunId, code : Code, status : {"accepted", "rejected"}]
Order == [run : RunId, code : Code]

Free == [owner |-> None, expires |-> 0]

TypeOK ==
  /\ clock \in Nat
  /\ tick \in Tick
  /\ lock \in Lock
  /\ runs \in [RunId -> {"absent", "running", "ok", "failed"}]
  /\ decisions \subseteq Decision
  /\ orders \in [Code -> RunId \cup {None}]
  /\ submitted \in Seq(Order)
  /\ filled \subseteq DOMAIN submitted
  /\ funds \in Nat
  /\ pc \in [Process -> Point]
  /\ entry \in [Process -> Entry]
  /\ now \in [Process -> Nat]
  /\ until \in [Process -> Nat]
  /\ run \in [Process -> RunId \cup {None}]
  /\ cash \in [Process -> Nat]
  /\ todo \in [Process -> SUBSET DOMAIN Request]
  /\ crashes \in Nat
  /\ failures \in Nat
  /\ overlap \in BOOLEAN
-----------------------------------------------------------------------------
Position == {submitted[k].code : k \in filled}

\* FixedThresholdStrategy.generate: the requests over their threshold that have no
\* position; they are evaluated in request order.
Signals(hit) == {k \in DOMAIN Request : Request[k] \in hit \ Position}
Upcoming(p) == CHOOSE k \in todo[p] : \A j \in todo[p] : k <= j
Signal(p) == Request[Upcoming(p)]

\* Mutant: the ledger is not asked for the idempotency key.
Accepted_NoKey(p, c) == Cost[c] <= MaxOrder /\ Cost[c] <= cash[p]

\* MaxNotionalRiskPolicy.evaluate: key not in the ledger, limit, cash.
Accepted(p, c) ==
  /\ orders[c] = None
  /\ Cost[c] <= MaxOrder
  /\ Cost[c] <= cash[p]

FreshRun == CHOOSE r \in RunId : runs[r] = "absent"
InRound(p) == pc[p] \in RoundPoint

Goto(p, point) == pc' = [pc EXCEPT ![p] = point]

\* The process ends or dies; what it read is gone.
Forget(p) ==
  /\ entry' = [entry EXCEPT ![p] = [tick |-> FALSE, locks |-> FALSE]]
  /\ now' = [now EXCEPT ![p] = 0]
  /\ until' = [until EXCEPT ![p] = 0]
  /\ run' = [run EXCEPT ![p] = None]
  /\ cash' = [cash EXCEPT ![p] = 0]
  /\ todo' = [todo EXCEPT ![p] = {}]
  /\ Goto(p, "idle")
-----------------------------------------------------------------------------
Init ==
  /\ clock = 0
  /\ tick = [seen |-> FALSE, started |-> 0]
  /\ lock = Free
  /\ runs = [r \in RunId |-> "absent"]
  /\ decisions = {}
  /\ orders = [c \in Code |-> None]
  /\ submitted = <<>>
  /\ filled = {}
  /\ funds = StartCash
  /\ pc = [p \in Process |-> "idle"]
  /\ entry = [p \in Process |-> [tick |-> FALSE, locks |-> FALSE]]
  /\ now = [p \in Process |-> 0]
  /\ until = [p \in Process |-> 0]
  /\ run = [p \in Process |-> None]
  /\ cash = [p \in Process |-> 0]
  /\ todo = [p \in Process |-> {}]
  /\ crashes = 0
  /\ failures = 0
  /\ overlap = FALSE

Pass ==
  /\ clock < MaxClock
  /\ clock' = clock + 1
  /\ UNCHANGED <<ledger, broker, pc, local, aux>>

\* External: the broker fills an order, while its cash lasts.
Fill(k) ==
  /\ k \notin filled
  /\ Cost[submitted[k].code] <= funds
  /\ funds' = funds - Cost[submitted[k].code]
  /\ filled' = filled \cup {k}
  /\ UNCHANGED <<clock, ledger, submitted, pc, local, aux>>

\* A command starts; a tick computes its "now" first. Bound: while rows last.
Begin(p, e) ==
  /\ pc[p] = "idle"
  /\ Cardinality({r \in RunId : runs[r] = "absent"})
       > Cardinality({q \in Process : pc[q] \in {"schedule", "lock", "startRun"}})
  /\ entry' = [entry EXCEPT ![p] = e]
  /\ now' = [now EXCEPT ![p] = IF e.tick THEN clock ELSE 0]
  /\ Goto(p, IF e.tick THEN "schedule" ELSE "lock")
  /\ UNCHANGED <<clock, ledger, broker, until, run, cash, todo, aux>>

\* The tick reads its row. With --force, or inside the window and an interval
\* after the last round, the round goes ahead; otherwise the tick is skipped.
Schedule(p, force) ==
  /\ pc[p] = "schedule"
  /\ \/ /\ \/ force
           \/ now[p] \in Open /\ (tick.seen => tick.started + Interval <= now[p])
        /\ Goto(p, "lock")
        /\ UNCHANGED local
     \/ /\ ~force
        /\ now[p] \notin Open \/ (tick.seen /\ now[p] < tick.started + Interval)
        /\ Forget(p)
  /\ UNCHANGED <<clock, ledger, broker, aux>>

\* try_acquire_lock: one upsert, which takes a row only when it has expired.
TakeLock(p) ==
  /\ pc[p] = "lock"
  /\ entry[p].locks
  /\ lock.expires <= clock
  /\ lock' = [owner |-> p, expires |-> clock + LockTtl]
  /\ until' = [until EXCEPT ![p] = clock + LockTtl]
  /\ Goto(p, "startRun")
  /\ UNCHANGED <<clock, tick, runs, decisions, orders, broker, entry, now, run, cash, todo, aux>>

\* --disable-lock.
GoUnlocked(p) ==
  /\ pc[p] = "lock"
  /\ ~entry[p].locks
  /\ Goto(p, "startRun")
  /\ UNCHANGED <<clock, ledger, broker, local, aux>>

\* lock_unavailable: the round and the tick are skipped, nothing is recorded.
LockUnavailable(p) ==
  /\ pc[p] = "lock"
  /\ entry[p].locks
  /\ clock < lock.expires
  /\ Forget(p)
  /\ UNCHANGED <<clock, ledger, broker, aux>>

StartRun(p) ==
  /\ pc[p] = "startRun"
  /\ runs' = [runs EXCEPT ![FreshRun] = "running"]
  /\ run' = [run EXCEPT ![p] = FreshRun]
  /\ overlap' = (overlap \/ \E q \in Process : InRound(q))
  /\ Goto(p, "account")
  /\ UNCHANGED <<clock, tick, lock, decisions, orders, broker, entry, now, until, cash, todo, crashes, failures>>

ReadAccount(p) ==
  /\ pc[p] = "account"
  /\ cash' = [cash EXCEPT ![p] = funds]
  /\ Goto(p, "positions")
  /\ UNCHANGED <<clock, ledger, broker, entry, now, until, run, todo, aux>>

\* get_positions and generate; hit: the codes whose price is over its threshold.
ReadPositions(p, hit) ==
  /\ pc[p] = "positions"
  /\ todo' = [todo EXCEPT ![p] = Signals(hit)]
  /\ Goto(p, "evaluate")
  /\ UNCHANGED <<clock, ledger, broker, entry, now, until, run, cash, aux>>

\* evaluate asks the ledger and decides; the decision is recorded in a later
\* transaction.
Evaluate(p) ==
  /\ pc[p] = "evaluate"
  /\ IF todo[p] = {} THEN Goto(p, "finish")
     ELSE IF Accepted(p, Signal(p)) THEN Goto(p, "record")
     ELSE Goto(p, "reject")
  /\ UNCHANGED <<clock, ledger, broker, local, aux>>

Decide(p, status) ==
  decisions' = decisions \cup {[run |-> run[p], code |-> Signal(p), status |-> status]}

\* Mutant: only rejections are recorded.
RecordAccepted_NoWrite(p) ==
  /\ pc[p] = "record"
  /\ Goto(p, "submit")
  /\ UNCHANGED <<clock, ledger, broker, local, aux>>

RecordAccepted(p) ==
  /\ pc[p] = "record"
  /\ Decide(p, "accepted")
  /\ Goto(p, "submit")
  /\ UNCHANGED <<clock, tick, lock, runs, orders, broker, local, aux>>

RecordRejected(p) ==
  /\ pc[p] = "reject"
  /\ Decide(p, "rejected")
  /\ todo' = [todo EXCEPT ![p] = @ \ {Upcoming(p)}]
  /\ Goto(p, "evaluate")
  /\ UNCHANGED <<clock, tick, lock, runs, orders, broker, entry, now, until, run, cash, aux>>

Submit(p) ==
  /\ pc[p] = "submit"
  /\ submitted' = Append(submitted, [run |-> run[p], code |-> Signal(p)])
  /\ Goto(p, "order")
  /\ UNCHANGED <<clock, ledger, filled, funds, local, aux>>

\* Mutant: the order is sent but its key is not recorded.
RecordOrder_Skip(p) ==
  /\ pc[p] = "order"
  /\ todo' = [todo EXCEPT ![p] = @ \ {Upcoming(p)}]
  /\ Goto(p, "evaluate")
  /\ UNCHANGED <<clock, ledger, broker, entry, now, until, run, cash, aux>>

\* record_order: INSERT OR IGNORE, the first run keeps the key.
RecordOrder(p) ==
  LET c == Signal(p) IN
    /\ pc[p] = "order"
    /\ orders' = IF orders[c] = None THEN [orders EXCEPT ![c] = run[p]] ELSE orders
    /\ todo' = [todo EXCEPT ![p] = @ \ {Upcoming(p)}]
    /\ Goto(p, "evaluate")
    /\ UNCHANGED <<clock, tick, lock, runs, decisions, broker, entry, now, until, run, cash, aux>>

Finish(p, at, status) ==
  /\ pc[p] = at
  /\ runs' = [runs EXCEPT ![run[p]] = status]
  /\ Goto(p, "release")
  /\ UNCHANGED <<clock, tick, lock, decisions, orders, broker, local, aux>>

FinishOk(p) == Finish(p, "finish", "ok")
FinishFailed(p) == Finish(p, "finishFailed", "failed")

\* Where a tick goes on after its round: it records the tick; a direct run ends.
AfterRound(p) ==
  IF entry[p].tick THEN Goto(p, "recordTick") /\ UNCHANGED local ELSE Forget(p)

Released(p) == IF entry[p].locks /\ lock.owner = p THEN Free ELSE lock

\* Mutant: the lock is deleted by its name alone.
Release_AnyOwner(p) ==
  /\ pc[p] = "release"
  /\ lock' = IF entry[p].locks THEN Free ELSE lock
  /\ AfterRound(p)
  /\ UNCHANGED <<clock, tick, runs, decisions, orders, broker, aux>>

\* release_lock, in a finally: it deletes the row only of this owner.
Release(p) ==
  /\ pc[p] = "release"
  /\ lock' = Released(p)
  /\ AfterRound(p)
  /\ UNCHANGED <<clock, tick, runs, decisions, orders, broker, aux>>

\* record_scheduler_tick: an unconditional upsert.
RecordTick(p) ==
  /\ pc[p] = "recordTick"
  /\ tick' = [seen |-> TRUE, started |-> now[p]]
  /\ Forget(p)
  /\ UNCHANGED <<clock, lock, runs, decisions, orders, broker, aux>>

\* A call raises. Inside run_once's try block the run is marked failed; the lock
\* is released in any case; the tick is recorded as failed.
Fail(p) ==
  /\ pc[p] \in LockPoint \cup {"lock"}
  /\ crashes + failures < MaxFaults
  /\ failures' = failures + 1
  /\ CASE pc[p] \in TryPoint -> Goto(p, "finishFailed") /\ UNCHANGED local
       [] pc[p] \in {"startRun", "finishFailed"} -> Goto(p, "release") /\ UNCHANGED local
       [] OTHER -> AfterRound(p)
  /\ UNCHANGED <<clock, ledger, broker, crashes, overlap>>

\* The process dies and its run stays "running". Its lock stays until it expires,
\* unless it was interrupted (Ctrl-C), which still runs the finally.
Crash(p) ==
  /\ pc[p] # "idle"
  /\ crashes + failures < MaxFaults
  /\ crashes' = crashes + 1
  /\ Forget(p)
  /\ lock' \in {lock, Released(p)}
  /\ UNCHANGED <<clock, tick, runs, decisions, orders, broker, failures, overlap>>

Step(p) ==
  \/ \E e \in Entries : Begin(p, e)
  \/ \E force \in BOOLEAN : Schedule(p, force)
  \/ TakeLock(p) \/ GoUnlocked(p) \/ LockUnavailable(p)
  \/ StartRun(p) \/ ReadAccount(p)
  \/ \E hit \in SUBSET Code : ReadPositions(p, hit)
  \/ Evaluate(p) \/ RecordAccepted(p) \/ RecordRejected(p) \/ Submit(p) \/ RecordOrder(p)
  \/ FinishOk(p) \/ FinishFailed(p) \/ Release(p) \/ RecordTick(p)
  \/ Fail(p) \/ Crash(p)

Next ==
  \/ Pass
  \/ \E k \in DOMAIN submitted : Fill(k)
  \/ \E p \in Process : Step(p)

Spec == Init /\ [][Next]_vars
-----------------------------------------------------------------------------
InLedger(r, c, status) == [run |-> r, code |-> c, status |-> status] \in decisions
Sent(r, c) == \E k \in DOMAIN submitted : submitted[k] = [run |-> r, code |-> c]
Duplicate == \E j, k \in DOMAIN submitted : j # k /\ submitted[j].code = submitted[k].code

\* While its lock has not run out, a round that took the lock owns the lock row:
\* neither another round nor the release of a late one takes it away.
LockHeld ==
  \A p \in Process :
    pc[p] \in LockPoint /\ entry[p].locks /\ clock < until[p]
    => lock = [owner |-> p, expires |-> until[p]]

\* The broker is sent the same order twice only if some process crashed or failed
\* or two rounds were under way at once (lock expired or disabled).
DuplicateNeedsFault == Duplicate => crashes + failures > 0 \/ overlap

\* Every order sent to the broker has its accepted decision in the ledger, and the
\* ledger names as the owner of a key only a run that did send it.
SentIsDecided ==
  /\ \A k \in DOMAIN submitted : InLedger(submitted[k].run, submitted[k].code, "accepted")
  /\ \A c \in Code : orders[c] # None => Sent(orders[c], c)

\* A run that ended ok sent every order it accepted and left its key in the
\* ledger, so that no later round sends it again.
OkRunIsComplete ==
  \A r \in RunId : runs[r] = "ok" =>
    \A c \in Code : InLedger(r, c, "accepted") => Sent(r, c) /\ orders[c] # None

\* docs/specs/simulated-trading-automation.md: an idempotency key works across
\* processes, and the same order is never sent to the broker again.
NoDuplicateSubmit == ~Duplicate
=============================================================================
