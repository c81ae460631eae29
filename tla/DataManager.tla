----------------------------- MODULE DataManager -----------------------------
(***************************************************************************)
(* DataManager of one market: requests walk the market's sources by        *)
(* priority, each source behind its own CircuitBreaker.  The HTTP routes   *)
(* are plain functions, which FastAPI runs in a thread pool, and all of    *)
(* them share the module's one data_manager without a lock: every access   *)
(* to a breaker's fields is an action of its own here.                     *)
(***************************************************************************)
EXTENDS Naturals, Sequences

CONSTANTS
  Thread,     \* threads of the pool
  Source,     \* SOURCE_NAMEs of the market's fetchers
  Kind,       \* what is asked for: daily data, financial data, a quote
  Tried,      \* Tried[k]: the sources a request of kind k walks, by priority
  Supports,   \* Supports[k]: the sources that can answer kind k at all
  Threshold   \* failure_threshold

ASSUME SourceAssumption == /\ Kind # {}
                           /\ Tried \in [Kind -> Seq(Source)]
                           /\ \A k \in Kind : Tried[k] # << >>
                           /\ Supports \in [Kind -> SUBSET Source]
ASSUME ThresholdAssumption == Threshold \in Nat \ {0}

VARIABLES
  state,     \* _state of each source's breaker
  failures,  \* _failure_count, saturating at Threshold (it is only compared)
  cooled,    \* whether cooldown_seconds have passed since _last_failure_time
  failed,    \* history: sources whose own answer was an error or empty
  pc,        \* where each thread's request is
  kind,      \* the kind of its request
  rest,      \* the sources it has still to try, the current one first
  loaded     \* the _failure_count it read

breakers == <<state, failures, cooled>>
vars == <<breakers, failed, pc, kind, rest, loaded>>

Step == {"idle", "check", "reopen", "call", "success", "clear",
         "load", "store", "stamp", "branch", "compare", "open"}

Init ==
  /\ state = [s \in Source |-> "closed"]
  /\ failures = [s \in Source |-> 0]
  /\ cooled = [s \in Source |-> TRUE]
  /\ failed = {}
  /\ pc = [t \in Thread |-> "idle"]
  /\ kind = [t \in Thread |-> CHOOSE k \in Kind : TRUE]
  /\ rest = [t \in Thread |-> << >>]
  /\ loaded = [t \in Thread |-> 0]

Current(t) == Head(rest[t])

GoTo(t, step) == pc' = [pc EXCEPT ![t] = step]

----------------------------------------------------------------------------
(* get_daily_data, get_financial_data, get_realtime_quote *)

Request(t) ==
  /\ pc[t] = "idle"
  /\ \E k \in Kind : /\ kind' = [kind EXCEPT ![t] = k]
                     /\ rest' = [rest EXCEPT ![t] = Tried[k]]
  /\ GoTo(t, "check")
  /\ UNCHANGED <<breakers, failed, loaded>>

\* The loop of _execute_with_fallback goes to the next source, or the request
\* ends with (None, "").
NextSource(t) ==
  /\ rest' = [rest EXCEPT ![t] = Tail(@)]
  /\ GoTo(t, IF Len(rest[t]) > 1 THEN "check" ELSE "idle")

\* Mutant: a skipped source counts as one more failure.
IsAvailable_CountSkip(t) ==
  /\ pc[t] = "check"
  /\ LET s == Current(t) IN
       GoTo(t, IF state[s] # "open" THEN "call"
               ELSE IF cooled[s] THEN "reopen" ELSE "load")
  /\ UNCHANGED <<breakers, failed, kind, rest, loaded>>

\* is_available: an open breaker answers True once it has cooled.
IsAvailable(t) ==
  /\ pc[t] = "check"
  /\ LET s == Current(t) IN
       \/ /\ state[s] # "open"
          /\ GoTo(t, "call")
          /\ UNCHANGED rest
       \/ /\ state[s] = "open" /\ cooled[s]
          /\ GoTo(t, "reopen")
          /\ UNCHANGED rest
       \/ /\ state[s] = "open" /\ ~cooled[s]
          /\ NextSource(t)
  /\ UNCHANGED <<breakers, failed, kind, loaded>>

HalfOpen(t) ==
  /\ pc[t] = "reopen"
  /\ state' = [state EXCEPT ![Current(t)] = "half_open"]
  /\ GoTo(t, "call")
  /\ UNCHANGED <<failures, cooled, failed, kind, rest, loaded>>

\* The fetcher answers: with data, or with an exception, None or nothing. One
\* that cannot answer this kind returns None (BaseStockDataSource's default).
Answer(t) ==
  /\ pc[t] = "call"
  /\ LET able == Current(t) \in Supports[kind[t]] IN
       \/ able /\ GoTo(t, "success") /\ UNCHANGED failed
       \/ able /\ GoTo(t, "load") /\ failed' = failed \cup {Current(t)}
       \/ ~able /\ GoTo(t, "load") /\ UNCHANGED failed
  /\ UNCHANGED <<breakers, kind, rest, loaded>>

----------------------------------------------------------------------------
(* record_success, record_failure *)

Close(t) ==
  /\ pc[t] = "success"
  /\ state' = [state EXCEPT ![Current(t)] = "closed"]
  /\ GoTo(t, "clear")
  /\ UNCHANGED <<failures, cooled, failed, kind, rest, loaded>>

\* Mutant: a success leaves the failure count.
Clear_KeepCount(t) ==
  /\ pc[t] = "clear"
  /\ GoTo(t, "idle")
  /\ rest' = [rest EXCEPT ![t] = << >>]
  /\ UNCHANGED <<breakers, failed, kind, loaded>>

Clear(t) ==
  /\ pc[t] = "clear"
  /\ failures' = [failures EXCEPT ![Current(t)] = 0]
  /\ GoTo(t, "idle")
  /\ rest' = [rest EXCEPT ![t] = << >>]
  /\ UNCHANGED <<state, cooled, failed, kind, loaded>>

LoadCount(t) ==
  /\ pc[t] = "load"
  /\ loaded' = [loaded EXCEPT ![t] = failures[Current(t)]]
  /\ GoTo(t, "store")
  /\ UNCHANGED <<breakers, failed, kind, rest>>

StoreCount(t) ==
  /\ pc[t] = "store"
  /\ failures' = [failures EXCEPT ![Current(t)] =
                    IF loaded[t] < Threshold THEN loaded[t] + 1 ELSE Threshold]
  /\ loaded' = [loaded EXCEPT ![t] = 0]
  /\ GoTo(t, "stamp")
  /\ UNCHANGED <<state, cooled, failed, kind, rest>>

Stamp(t) ==
  /\ pc[t] = "stamp"
  /\ cooled' = [cooled EXCEPT ![Current(t)] = FALSE]
  /\ GoTo(t, "branch")
  /\ UNCHANGED <<state, failures, failed, kind, rest, loaded>>

\* Mutant: a failed probe is not told from other failures.
Branch_CountOnly(t) ==
  /\ pc[t] = "branch"
  /\ GoTo(t, "compare")
  /\ UNCHANGED <<breakers, failed, kind, rest, loaded>>

Branch(t) ==
  /\ pc[t] = "branch"
  /\ GoTo(t, IF state[Current(t)] = "half_open" THEN "open" ELSE "compare")
  /\ UNCHANGED <<breakers, failed, kind, rest, loaded>>

Compare(t) ==
  /\ pc[t] = "compare"
  /\ \/ /\ failures[Current(t)] >= Threshold
        /\ GoTo(t, "open")
        /\ UNCHANGED rest
     \/ /\ failures[Current(t)] < Threshold
        /\ NextSource(t)
  /\ UNCHANGED <<breakers, failed, kind, loaded>>

Open(t) ==
  /\ pc[t] = "open"
  /\ state' = [state EXCEPT ![Current(t)] = "open"]
  /\ NextSource(t)
  /\ UNCHANGED <<failures, cooled, failed, kind, loaded>>

Serve(t) == \/ IsAvailable(t) \/ HalfOpen(t) \/ Answer(t)
            \/ Close(t) \/ Clear(t)
            \/ LoadCount(t) \/ StoreCount(t) \/ Stamp(t)
            \/ Branch(t) \/ Compare(t) \/ Open(t)

\* cooldown_seconds pass after the last failure.
CoolDown(s) ==
  /\ ~cooled[s]
  /\ cooled' = [cooled EXCEPT ![s] = TRUE]
  /\ UNCHANGED <<state, failures, failed, pc, kind, rest, loaded>>

Next == \/ \E t \in Thread : Request(t) \/ Serve(t)
        \/ \E s \in Source : CoolDown(s)

Spec == Init /\ [][Next]_vars

\* Requests keep coming (the recovery of a breaker has no other trigger), a
\* fetcher's call ends (its timeouts), and time passes.
FairSpec == /\ Spec
            /\ \A t \in Thread : WF_vars(Request(t)) /\ WF_vars(Serve(t))
            /\ \A s \in Source : WF_vars(CoolDown(s))

----------------------------------------------------------------------------
(* Properties *)

\* Every field holds a value of its type; a thread has sources left to try
\* exactly while its request is served.
TypeOK ==
  /\ state \in [Source -> {"closed", "open", "half_open"}]
  /\ failures \in [Source -> 0..Threshold]
  /\ cooled \in [Source -> BOOLEAN]
  /\ failed \subseteq Source
  /\ pc \in [Thread -> Step]
  /\ kind \in [Thread -> Kind]
  /\ rest \in [Thread -> Seq(Source)]
  /\ \A t \in Thread : rest[t] = << >> <=> pc[t] = "idle"
  /\ loaded \in [Thread -> 0..Threshold]

\* The threads whose request is at source s.
On(s) == {t \in Thread : pc[t] # "idle" /\ Head(rest[t]) = s}

\* A trip is never lost: with no thread in the middle of a source, its breaker
\* is not left closed with a failure count at or over the threshold, however
\* the writes of record_success and record_failure were interleaved.
ClosedBelowThreshold ==
  \A s \in Source : On(s) = {} /\ state[s] = "closed" => failures[s] < Threshold

\* Half-open is a passing state: some thread still on the source will settle it
\* by its probe; no interleaving leaves a breaker half-open with nobody probing.
HalfOpenIsProbed ==
  \A s \in Source : state[s] = "half_open" => On(s) # {}

\* A tripped source is tried again: while requests keep coming, the breaker of
\* a source that every request tries first does not stay open for ever. Late
\* failures of calls made before the trip may restart the cooldown.
Retried ==
  \A s \in Source :
    (\A k \in Kind : Head(Tried[k]) = s) => (state[s] = "open" ~> state[s] # "open")

\* What docs/architecture.md says: a source that does not support what is asked
\* has not failed. A breaker then only opens after a failure of the source.
NotSupportedIsNoFailure == \A s \in Source : state[s] = "open" => s \in failed
=============================================================================
