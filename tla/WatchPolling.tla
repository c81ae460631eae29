----------------------------- MODULE WatchPolling -----------------------------
(***************************************************************************)
(* WatchPollingService.poll: request threads that compare each symbol with *)
(* its baseline, the snapshot that the last poll of the symbol left in     *)
(* _baseline_state, a dictionary of the process that no lock protects.     *)
(*                                                                         *)
(* For each symbol a request takes its snapshot, loads the baseline, and   *)
(* saves the snapshot as the new one.  An expired baseline is looked up    *)
(* and removed in two steps.  An exception for one symbol ends the whole   *)
(* request: what it has saved stays.                                       *)
(***************************************************************************)
EXTENDS WatchSnapshot, FiniteSets, Sequences, FiniteSetsExt

CONSTANTS
  Request,   \* request threads
  Symbol,    \* normalized symbols
  Us,        \* those with a letter, which are polled as us shares
  Asked,     \* the lists of symbols a client may send
  Facts,     \* what the sources may return for each symbol
  Ttl,       \* BASELINE_TTL_HOURS, in instants
  MaxClock   \* bound of the clock

Snapshots == {Snapshot(f, us, at) : f \in UNION {Facts[s] : s \in Symbol}, us \in BOOLEAN, at \in 0 .. MaxClock}
Entries == [payload : Snapshots, savedAt : 0 .. MaxClock]

ASSUME WatchAssumption == /\ Us \subseteq Symbol
                          /\ Asked \subseteq Seq(Symbol) \ {<<>>}
                          /\ Ttl \in Nat /\ MaxClock \in Nat
                          /\ None \notin Entries

VARIABLES
  baseline,  \* _baseline_state
  pc,        \* where each request is in its current symbol
  todo,      \* the rest of the client's list, the current symbol first
  current,   \* the snapshot of the current symbol
  reply,     \* the items it has built
  clock,
  told,      \* history: the last snapshot of each symbol that a client received
  gap        \* history: why the baseline may not be what the client was told

vars == <<baseline, pc, todo, current, reply, clock, told, gap>>

Point == {"idle", "snapshot", "load", "drop", "save", "raise"}
Cause == {"overlap", "undelivered", "expired", "restart"}

Saved(snapshot, at) == [payload |-> snapshot, savedAt |-> at]

\* One element of the reply; `previous` is the baseline it was compared with.
Item(symbol, snapshot, previous) ==
  [symbol |-> symbol, snapshot |-> snapshot, previous |-> previous,
   delta |-> Delta(snapshot, previous), alerts |-> Alerts(snapshot, previous)]

\* The loop of poll goes on with the next symbol of the list that it has not seen.
Rest(r) ==
  LET seen == {reply[r][k].symbol : k \in DOMAIN reply[r]}
      new == {k \in DOMAIN todo[r] : todo[r][k] \notin seen}
  IN IF new = {} THEN <<>> ELSE SubSeq(todo[r], Min(new), Len(todo[r]))

\* A request has begun with a symbol and its client has no answer yet.
Replied(r, s) == \E k \in DOMAIN reply[r] : reply[r][k].symbol = s
Owed(r, s) ==
  \/ Replied(r, s)
  \/ pc[r] \notin {"idle", "snapshot"} /\ Head(todo[r]) = s
-----------------------------------------------------------------------------
Init ==
  /\ baseline = [s \in Symbol |-> None]
  /\ pc = [r \in Request |-> "idle"]
  /\ todo = [r \in Request |-> <<>>]
  /\ current = [r \in Request |-> None]
  /\ reply = [r \in Request |-> <<>>]
  /\ clock = 0
  /\ told = [s \in Symbol |-> None]
  /\ gap = [s \in Symbol |-> {}]

\* poll_watchlist: a request without a symbol is refused before poll().
Begin(r, asked) ==
  /\ pc[r] = "idle"
  /\ pc' = [pc EXCEPT ![r] = "snapshot"]
  /\ todo' = [todo EXCEPT ![r] = asked]
  /\ UNCHANGED <<baseline, current, reply, clock, told, gap>>

\* _build_current_snapshot, from whatever the sources answer now.
TakeSnapshot(r, s, f) ==
  /\ pc[r] = "snapshot"
  /\ s = Head(todo[r])
  /\ current' = [current EXCEPT ![r] = Snapshot(f, s \in Us, clock)]
  /\ pc' = [pc EXCEPT ![r] = "load"]
  /\ gap' = IF \E q \in Request \ {r} : Owed(q, s)
              THEN [gap EXCEPT ![s] = @ \cup {"overlap"}] ELSE gap
  /\ UNCHANGED <<baseline, todo, reply, clock, told>>

\* The item is built from `previous` and joins the reply, unless an alert divides
\* by zero.
AnswerSymbol(r, previous) ==
  IF DividesByZero(current[r])
    THEN /\ pc' = [pc EXCEPT ![r] = "raise"]
         /\ UNCHANGED reply
    ELSE /\ reply' = [reply EXCEPT ![r] = Append(@, Item(Head(todo[r]), current[r], previous))]
         /\ pc' = [pc EXCEPT ![r] = "save"]

Expired(saved) == clock - saved.savedAt > Ttl

\* _load_baseline: nothing, or the payload, or an expired entry to remove first.
LoadBaseline(r) ==
  LET found == baseline[Head(todo[r])] IN
    /\ pc[r] = "load"
    /\ \/ /\ found = None
          /\ AnswerSymbol(r, None)
       \/ /\ found # None
          /\ ~Expired(found)
          /\ AnswerSymbol(r, found.payload)
       \/ /\ found # None
          /\ Expired(found)
          /\ pc' = [pc EXCEPT ![r] = "drop"]
          /\ UNCHANGED reply
    /\ UNCHANGED <<baseline, todo, current, clock, told, gap>>

\* The pop removes whatever is there by now, a fresh baseline of another request too.
DropBaseline(r) ==
  LET s == Head(todo[r]) IN
    /\ pc[r] = "drop"
    /\ baseline' = [baseline EXCEPT ![s] = None]
    /\ AnswerSymbol(r, None)
    /\ gap' = [gap EXCEPT ![s] = @ \cup {"expired"}]
    /\ UNCHANGED <<todo, current, clock, told>>

\* The end of a request that answers: the client has its items.  The baseline of
\* a symbol is what the client was told again when it holds that very snapshot
\* and no other request has begun with the symbol.
Reply(r, saved) ==
  LET given(s) == {k \in DOMAIN reply[r] : /\ reply[r][k].symbol = s
                                           /\ reply[r][k].snapshot.status # "failed"}
      newest(s) == reply[r][CHOOSE k \in given(s) : TRUE].snapshot
      settled(s) == /\ given(s) # {}
                    /\ saved[s] # None /\ saved[s].payload = newest(s)
                    /\ \A q \in Request \ {r} : ~Owed(q, s)
  IN /\ told' = [s \in Symbol |-> IF given(s) = {} THEN told[s] ELSE newest(s)]
     /\ gap' = [s \in Symbol |-> IF settled(s) THEN {} ELSE gap[s]]

\* Mutant: only a complete snapshot becomes the baseline.
Kept_OnlyOk(r) ==
  IF current[r].status # "ok" THEN baseline
  ELSE [baseline EXCEPT ![Head(todo[r])] = Saved(current[r], clock)]

\* The table after _save_baseline, which a failed snapshot does not reach.
Kept(r) ==
  IF current[r].status = "failed" THEN baseline
  ELSE [baseline EXCEPT ![Head(todo[r])] = Saved(current[r], clock)]

\* _save_baseline; then the next symbol, or the answer to the client.
SaveBaseline(r) ==
  /\ pc[r] = "save"
  /\ baseline' = Kept(r)
  /\ todo' = [todo EXCEPT ![r] = Rest(r)]
  /\ current' = [current EXCEPT ![r] = None]
  /\ IF Rest(r) # <<>>
       THEN /\ pc' = [pc EXCEPT ![r] = "snapshot"]
            /\ UNCHANGED <<reply, told, gap>>
       ELSE /\ pc' = [pc EXCEPT ![r] = "idle"]
            /\ reply' = [reply EXCEPT ![r] = <<>>]
            /\ Reply(r, Kept(r))
  /\ UNCHANGED clock

\* A source, the warehouse or an alert raises: poll_watchlist answers 500, and the
\* client gets no item of the request, although their baselines are saved.
RaiseSymbol(r) ==
  /\ pc[r] \in {"snapshot", "raise"}
  /\ pc' = [pc EXCEPT ![r] = "idle"]
  /\ todo' = [todo EXCEPT ![r] = <<>>]
  /\ current' = [current EXCEPT ![r] = None]
  /\ reply' = [reply EXCEPT ![r] = <<>>]
  /\ gap' = [s \in Symbol |-> IF Replied(r, s) THEN gap[s] \cup {"undelivered"} ELSE gap[s]]
  /\ UNCHANGED <<baseline, clock, told>>

\* The server restarts: its memory and its requests are gone.
Restart ==
  /\ baseline' = [s \in Symbol |-> None]
  /\ pc' = [r \in Request |-> "idle"]
  /\ todo' = [r \in Request |-> <<>>]
  /\ current' = [r \in Request |-> None]
  /\ reply' = [r \in Request |-> <<>>]
  /\ gap' = [s \in Symbol |-> IF told[s] = None THEN {} ELSE {"restart"}]
  /\ UNCHANGED <<clock, told>>

Tick ==
  /\ clock < MaxClock
  /\ clock' = clock + 1
  /\ UNCHANGED <<baseline, pc, todo, current, reply, told, gap>>

Step(r) ==
  \/ \E asked \in Asked : Begin(r, asked)
  \/ \E s \in Symbol : \E f \in Facts[s] : TakeSnapshot(r, s, f)
  \/ LoadBaseline(r)
  \/ DropBaseline(r)
  \/ SaveBaseline(r)
  \/ RaiseSymbol(r)

Next == (\E r \in Request : Step(r)) \/ Restart \/ Tick

Spec == Init /\ [][Next]_vars
-----------------------------------------------------------------------------
Items == UNION {{reply[r][k] : k \in DOMAIN reply[r]} : r \in Request}

TypeOK ==
  /\ baseline \in [Symbol -> Entries \cup {None}]
  /\ pc \in [Request -> Point]
  /\ todo \in [Request -> Seq(Symbol)]
  /\ \A r \in Request : pc[r] # "idle" => todo[r] # <<>>
  /\ current \in [Request -> Snapshots \cup {None}]
  /\ \A item \in Items : /\ item.symbol \in Symbol
                        /\ item.snapshot \in Snapshots
                        /\ item.previous \in Snapshots \cup {None}
  /\ clock \in 0 .. MaxClock
  /\ told \in [Symbol -> Snapshots \cup {None}]
  /\ gap \in [Symbol -> SUBSET Cause]

\* A delta and its alerts say what happened since the snapshot that the client was
\* last told (docs/specs/watch-polling-api.md), unless requests on the symbol
\* overlapped, a request that saved it never answered, the baseline expired or the
\* server restarted.
SinceLastTold ==
  \A item \in Items : gap[item.symbol] = {} => item.previous = told[item.symbol]

\* Only requests that overlap on a symbol can replace its baseline by an older one.
BaselineForward ==
  [][\A s \in Symbol :
       \/ baseline[s] = None \/ baseline'[s] = None
       \/ baseline'[s].payload.at >= baseline[s].payload.at
       \/ "overlap" \in gap[s]]_vars
=============================================================================
