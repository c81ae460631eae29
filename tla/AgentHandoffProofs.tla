------------------------- MODULE AgentHandoffProofs -------------------------
(***************************************************************************)
(* Theorems about AgentHandoff for every set of agents and handoffs, every *)
(* lease time and an unbounded number of commands.                         *)
(***************************************************************************)
EXTENDS AgentHandoff, SequenceTheorems, TLAPS

\* The "now" of a command is a moment that has passed.
AtPast == \A a \in Agent : at[a] <= clock

TypeInv == TypeOK /\ AtPast

Pushed(h) == Len(events[h])

\* What EventsTellRow says of one row.
Told(h) ==
  IF events[h] = <<>>
    THEN row[h].status = "absent"
    ELSE /\ row[h].status = StatusAfter[LastEvent(events[h]).type]
         /\ \A k \in Claims(h) : (\A j \in Claims(h) : j <= k) =>
              /\ row[h].owner = events[h][k].owner
              /\ row[h].expires = events[h][k].until

\* The shape of a row's log: it starts with its enqueueing, a claim's lease does not
\* end before the claim, and a verdict follows the claim of its owner in time.
Shaped(h) ==
  \A k \in 1 .. Pushed(h) :
    /\ events[h][k].type = "enqueued" <=> k = 1
    /\ events[h][k].type \in ClaimType =>
         events[h][k].until = 0 \/ events[h][k].at <= events[h][k].until
    /\ events[h][k].type \in Verdict =>
         /\ k = Pushed(h) /\ k > 1
         /\ events[h][k - 1].type \in ClaimType
         /\ events[h][k - 1].owner = events[h][k].owner
         /\ events[h][k].at < events[h][k - 1].until
    /\ \A j \in 1 .. Pushed(h) : 1 < j /\ j < k => events[h][j].at <= events[h][k].at

\* A command of the row's owner that is open while it holds the row has begun after
\* the row was claimed.
ClaimedBefore(h) ==
  row[h].status = "claimed" =>
    /\ LastEvent(events[h]).at <= clock
    /\ \A a \in busy : row[h].owner = a => LastEvent(events[h]).at <= at[a]

RowInv(h) == Told(h) /\ Shaped(h) /\ ClaimedBefore(h)

HandoffInv == TypeInv /\ \A h \in Handoff \ Legacy : RowInv(h)
-----------------------------------------------------------------------------
LEMMA TypeInit == Init => TypeInv
<1> SUFFICES ASSUME Init PROVE TypeInv
  OBVIOUS
<1>1. row \in [Handoff -> Row]
  <2>1. PICK holder \in [Legacy -> Agent \cup {None}] :
          row = [h \in Handoff |->
                   IF h \in Legacy
                     THEN [NoRow EXCEPT !.owner = holder[h],
                                        !.status = IF holder[h] = None THEN "pending"
                                                                       ELSE "claimed"]
                     ELSE NoRow]
    BY DEF Init
  <2>2. QED
    BY <2>1 DEF NoRow, Row, Status
<1>2. /\ clock = 0 /\ busy = {} /\ at = [a \in Agent |-> 0]
      /\ events = [h \in Handoff |-> <<>>] /\ outputs = [h \in Handoff |-> <<>>]
  BY DEF Init
<1>3. QED
  BY <1>1, <1>2, EmptySeq DEF TypeInv, TypeOK, AtPast

\* A change of a row, recorded by one event and ending the command of its agent.
LEMMA ChangeIsTyped ==
  ASSUME TypeInv, NEW a \in Agent, NEW h \in Handoff,
         NEW type \in EventType, NEW owner \in Agent \cup {None}, NEW until \in Nat,
         Record(h, type, owner, until, at[a]), Leave(a), clock' = clock,
         row' \in [Handoff -> Row], outputs' \in [Handoff -> Seq(Output)]
  PROVE  TypeInv'
<1>1. [type |-> type, owner |-> owner, until |-> until, at |-> at[a]] \in Event
  BY DEF Event, TypeInv, TypeOK
<1>2. events' \in [Handoff -> Seq(Event)]
  BY <1>1, AppendProperties DEF Record, TypeInv, TypeOK
<1>3. at' \in [Agent -> Nat] /\ busy' \subseteq Agent /\ AtPast'
  BY DEF Leave, TypeInv, TypeOK, AtPast
<1>4. QED
  BY <1>2, <1>3 DEF TypeInv, TypeOK

LEMMA TakeIsTyped ==
  ASSUME TypeInv, NEW a \in Agent, NEW h \in Handoff, NEW type \in ClaimType,
         NEW until \in Nat, Take(h, a, type, until)
  PROVE  TypeInv'
<1>1. row' \in [Handoff -> Row]
  <2> DEFINE one == [row EXCEPT ![h].status = "claimed"]
             two == [one EXCEPT ![h].owner = a]
             three == [two EXCEPT ![h].expires = until]
  <2>1. one \in [Handoff -> Row]
    BY DEF TypeInv, TypeOK, Row, Status
  <2>2. two \in [Handoff -> Row]
    BY <2>1 DEF Row
  <2>3. three \in [Handoff -> Row]
    <3> HIDE DEF two
    <3>1. QED
      BY <2>2 DEF Row
  <2>4. row' = three
    BY DEF Take
  <2>5. QED
    BY <2>3, <2>4
<1>2. QED
  BY <1>1, ChangeIsTyped DEF Take, EventType, TypeInv, TypeOK

LEMMA CloseIsTyped ==
  ASSUME TypeInv, NEW a \in Agent, NEW h \in Handoff, NEW owner \in Agent \cup {None},
         NEW verdict \in Verdict, Close(h, a, owner, verdict),
         outputs' \in [Handoff -> Seq(Output)]
  PROVE  TypeInv'
<1>1. row' \in [Handoff -> Row]
  BY DEF Close, TypeInv, TypeOK, Row, Status, Verdict
<1>2. QED
  BY <1>1, ChangeIsTyped DEF Close, EventType

LEMMA UntilIsNat ==
  ASSUME TypeOK, NEW a \in Agent, NEW ttl \in Nat
  PROVE  Until(at[a], ttl) \in Nat
BY DEF TypeOK, Until

LEMMA TypeStep == TypeInv /\ [Next]_vars => TypeInv'
<1> SUFFICES ASSUME TypeInv, [Next]_vars PROVE TypeInv'
  OBVIOUS
<1>1. CASE UNCHANGED vars
  BY <1>1 DEF vars, TypeInv, TypeOK, AtPast
<1>2. CASE Tick
  BY <1>2 DEF Tick, TypeInv, TypeOK, AtPast
<1>3. ASSUME NEW a \in Agent, Step(a) PROVE TypeInv'
  <2>1. CASE Call(a)
    BY <2>1 DEF Call, TypeInv, TypeOK, AtPast
  <2>2. CASE Refuse(a)
    BY <2>2 DEF Refuse, Leave, TypeInv, TypeOK, AtPast
  <2>3. ASSUME NEW h \in Handoff, Enqueue(a, h) PROVE TypeInv'
    <3>1. row' \in [Handoff -> Row]
      BY <2>3 DEF Enqueue, TypeInv, TypeOK, Row, Status
    <3>2. QED
      BY <2>3, <3>1, ChangeIsTyped DEF Enqueue, EventType, TypeInv, TypeOK
  <2>4. ASSUME NEW h \in Handoff, CompleteOwned(a, h) PROVE TypeInv'
    <3>1. [agent |-> a, at |-> at[a]] \in Output
      BY DEF Output, TypeInv, TypeOK
    <3>2. outputs' \in [Handoff -> Seq(Output)]
      BY <2>4, <3>1, AppendProperties DEF CompleteOwned, TypeInv, TypeOK
    <3>3. QED
      BY <2>4, <3>2, CloseIsTyped DEF CompleteOwned, Verdict
  <2>5. ASSUME NEW h \in Handoff, FailOwned(a, h) PROVE TypeInv'
    BY <2>5, CloseIsTyped DEF FailOwned, Verdict, TypeInv, TypeOK
  <2>6. ASSUME NEW h \in Handoff, NEW ttl \in ClaimTtl, Claim(a, h, ttl) PROVE TypeInv'
    BY <2>6, TakeIsTyped, UntilIsNat, HandoffAssumption DEF Claim, ClaimType, TypeInv
  <2>7. ASSUME NEW h \in Handoff, NEW verdict \in Verdict, CloseLegacy(a, h, verdict)
        PROVE  TypeInv'
    BY <2>7, CloseIsTyped DEF CloseLegacy, TypeInv, TypeOK
  <2>8. ASSUME NEW role \in Role, ClaimNext(a, role) PROVE TypeInv'
    <3>1. PICK h \in NextOf(role, at[a]) :
            Take(h, a, IF row[h].status = "claimed" THEN "reclaimed" ELSE "claimed",
                 Until(at[a], Ttl))
      BY <2>8 DEF ClaimNext
    <3>2. h \in Handoff
      BY DEF NextOf
    <3>3. QED
      BY <3>1, <3>2, TakeIsTyped, UntilIsNat, HandoffAssumption DEF ClaimType, TypeInv
  <2>9. QED
    BY <1>3, <2>1, <2>2, <2>3, <2>4, <2>5, <2>6, <2>7, <2>8 DEF Step
<1>4. QED
  BY <1>1, <1>2, <1>3 DEF Next

\* Every field holds a value of its type, and no command's "now" lies ahead.
THEOREM HandoffTypeCorrect == Spec => []TypeInv
BY TypeInit, TypeStep, PTL DEF Spec
-----------------------------------------------------------------------------
(* What the log of a row says. *)

LEMMA StatusOfType ==
  ASSUME NEW type \in EventType
  PROVE  /\ StatusAfter[type] # "absent"
         /\ StatusAfter[type] = "pending" <=> type = "enqueued"
         /\ StatusAfter[type] = "claimed" <=> type \in ClaimType
         /\ type \in Verdict => StatusAfter[type] = type
BY DEF StatusAfter, EventType, ClaimType, Verdict

LEMMA LogFacts ==
  ASSUME TypeOK, NEW h \in Handoff
  PROVE  /\ Pushed(h) \in Nat
         /\ DOMAIN events[h] = 1 .. Pushed(h)
         /\ events[h] = <<>> <=> Pushed(h) = 0
         /\ \A k \in 1 .. Pushed(h) : events[h][k] \in Event
<1>1. events[h] \in Seq(Event)
  BY DEF TypeOK
<1>2. QED
  BY <1>1, ElementOfSeq, EmptySeq, LenProperties DEF Pushed

LEMMA Recorded ==
  ASSUME TypeOK, NEW h \in Handoff, NEW type \in EventType, NEW owner \in Agent \cup {None},
         NEW until \in Nat, NEW t \in Nat, Record(h, type, owner, until, t)
  PROVE  /\ Pushed(h)' = Pushed(h) + 1
         /\ DOMAIN events'[h] = 1 .. (Pushed(h) + 1)
         /\ \A k \in 1 .. Pushed(h) : events'[h][k] = events[h][k]
         /\ events'[h][Pushed(h) + 1] = [type |-> type, owner |-> owner, until |-> until, at |-> t]
         /\ \A g \in Handoff : g # h => events'[g] = events[g]
<1> DEFINE e == [type |-> type, owner |-> owner, until |-> until, at |-> t]
<1>1. events[h] \in Seq(Event) /\ e \in Event
  BY DEF TypeOK, Event
<1>2. events'[h] = Append(events[h], e) /\ \A g \in Handoff : g # h => events'[g] = events[g]
  BY DEF Record, TypeOK
<1>3. QED
  BY <1>1, <1>2, AppendProperties DEF Pushed

\* What is known of the log of a row that still waits for its verdict.
LEMMA LiveRow ==
  ASSUME TypeInv, NEW h \in Handoff, RowInv(h), row[h].status \in Live
  PROVE  /\ Pushed(h) \in Nat \ {0}
         /\ \A k \in 1 .. Pushed(h) : events[h][k].type \notin Verdict
         /\ row[h].status = "pending" => Pushed(h) = 1
         /\ row[h].status = "claimed" =>
              /\ events[h][Pushed(h)].type \in ClaimType
              /\ row[h].owner = events[h][Pushed(h)].owner
              /\ row[h].expires = events[h][Pushed(h)].until
<1> USE DEF TypeInv, RowInv
<1>1. /\ Pushed(h) \in Nat
      /\ DOMAIN events[h] = 1 .. Pushed(h)
      /\ events[h] = <<>> <=> Pushed(h) = 0
      /\ \A k \in 1 .. Pushed(h) : events[h][k] \in Event
  BY LogFacts
<1>2. Pushed(h) # 0
  BY <1>1 DEF Told, Live
<1> DEFINE last == events[h][Pushed(h)]
<1>3. Pushed(h) \in 1 .. Pushed(h) /\ last \in Event
  BY <1>1, <1>2
<1>4. last.type \in EventType /\ row[h].status = StatusAfter[last.type]
  BY <1>1, <1>2, <1>3 DEF Told, LastEvent, Event, Pushed
<1>5. last.type \notin Verdict
  BY <1>4, StatusOfType DEF Live, Verdict
<1>6. \A k \in 1 .. Pushed(h) : events[h][k].type \notin Verdict
  BY <1>5 DEF Shaped
<1> HIDE DEF last
<1>7. ASSUME row[h].status = "pending" PROVE Pushed(h) = 1
  <2>1. last.type = "enqueued"
    BY <1>4, <1>7, StatusOfType
  <2>2. QED
    BY <1>3, <2>1 DEF Shaped, last
<1>8. ASSUME row[h].status = "claimed"
      PROVE  /\ last.type \in ClaimType
             /\ row[h].owner = last.owner
             /\ row[h].expires = last.until
  <2>1. last.type \in ClaimType
    <3>1. StatusAfter[last.type] = "claimed"
      BY <1>4, <1>8
    <3>2. QED
      BY <1>4, <3>1, StatusOfType
  <2>2. Pushed(h) \in Claims(h) /\ \A j \in Claims(h) : j <= Pushed(h)
    BY <1>1, <1>3, <2>1 DEF Claims, last
  <2>3. QED
    BY <1>1, <1>2, <2>1, <2>2 DEF Told, last
<1>9. QED
  BY <1>1, <1>2, <1>6, <1>7, <1>8 DEF last
-----------------------------------------------------------------------------
(* A row that no command touches, and the three ways to change one. *)

LEMMA OtherRow ==
  ASSUME TypeInv, clock' \in Nat, clock <= clock', NEW h \in Handoff, RowInv(h),
         row'[h] = row[h], events'[h] = events[h],
         \A a \in busy' : a \in Agent /\ ((a \in busy /\ at'[a] = at[a]) \/ at'[a] = clock)
  PROVE  RowInv(h)'
<1> USE DEF TypeInv, RowInv
<1>1. Told(h)' /\ Shaped(h)'
  BY DEF Told, Shaped, Claims, Pushed
<1>2. ClaimedBefore(h)'
  <2>1. SUFFICES ASSUME row[h].status = "claimed"
                 PROVE  /\ LastEvent(events[h]).at <= clock'
                        /\ \A a \in busy' : row[h].owner = a => LastEvent(events[h]).at <= at'[a]
    BY DEF ClaimedBefore
  <2>2. LastEvent(events[h]).at <= clock /\ LastEvent(events[h]).at \in Nat
    <3>1. Pushed(h) \in Nat \ {0}
      BY <2>1, LiveRow DEF Live
    <3>2. events[h][Pushed(h)] \in Event
      BY <3>1, LogFacts
    <3>3. QED
      BY <2>1, <3>2 DEF ClaimedBefore, LastEvent, Pushed, Event
  <2>3. clock \in Nat
    BY DEF TypeOK
  <2>4. QED
    BY <2>1, <2>2, <2>3 DEF ClaimedBefore
<1>3. QED
  BY <1>1, <1>2

LEMMA EnqueuedRow ==
  ASSUME TypeInv, NEW h \in Handoff, RowInv(h), row[h].status = "absent", NEW a \in Agent,
         row'[h].status = "pending", Record(h, "enqueued", None, 0, at[a])
  PROVE  RowInv(h)'
<1> USE DEF TypeInv, RowInv
<1>1. /\ Pushed(h) \in Nat
      /\ events[h] = <<>> <=> Pushed(h) = 0
      /\ \A k \in 1 .. Pushed(h) : events[h][k] \in Event
  BY LogFacts
<1>2. Pushed(h) = 0
  <2>1. SUFFICES ASSUME Pushed(h) # 0 PROVE FALSE
    OBVIOUS
  <2>2. LastEvent(events[h]) \in Event
    BY <1>1, <2>1 DEF LastEvent, Pushed
  <2>3. QED
    BY <1>1, <2>1, <2>2, StatusOfType DEF Told, Event
<1>3. /\ Pushed(h)' = 1 /\ DOMAIN events'[h] = 1 .. 1
      /\ events'[h][1] = [type |-> "enqueued", owner |-> None, until |-> 0, at |-> at[a]]
  <2>1. at[a] \in Nat /\ "enqueued" \in EventType
    BY DEF TypeOK, EventType
  <2>2. QED
    BY <1>2, <2>1, Recorded
<1>4. Told(h)'
  <2>1. Claims(h)' = {}
    BY <1>3 DEF Claims, ClaimType
  <2>2. events'[h] # <<>> /\ StatusAfter["enqueued"] = "pending"
    <3>1. DOMAIN <<>> = {} /\ 1 \in DOMAIN events'[h]
      BY <1>3
    <3>2. QED
      BY <3>1, StatusOfType DEF EventType
  <2>3. LastEvent(events[h])'.type = "enqueued"
    BY <1>3 DEF LastEvent, Pushed
  <2>4. QED
    BY <2>1, <2>2, <2>3 DEF Told
<1>5. Shaped(h)'
  BY <1>3 DEF Shaped, ClaimType, Verdict
<1>6. QED
  BY <1>4, <1>5 DEF ClaimedBefore

\* A row is taken when it is pending, or when its lease had ended at the taker's "now".
LEMMA TakenRow ==
  ASSUME TypeInv, NEW h \in Handoff, RowInv(h), row[h].status \in Live,
         NEW a \in Agent, NEW type \in ClaimType, NEW until \in Nat,
         until = 0 \/ at[a] <= until,
         row[h].status = "claimed" => row[h].expires # 0 /\ row[h].expires <= at[a],
         Take(h, a, type, until)
  PROVE  RowInv(h)'
<1> USE DEF TypeInv, RowInv
<1> DEFINE n == Pushed(h)
           e == [type |-> type, owner |-> a, until |-> until, at |-> at[a]]
<1>1. /\ n \in Nat \ {0}
      /\ \A k \in 1 .. n : events[h][k].type \notin Verdict
      /\ row[h].status = "pending" => n = 1
      /\ row[h].status = "claimed" =>
           /\ events[h][n].type \in ClaimType
           /\ row[h].expires = events[h][n].until
  BY LiveRow
<1>2. \A k \in 1 .. n : events[h][k] \in Event
  BY LogFacts
<1>3. at[a] \in Nat /\ type \in EventType /\ at[a] <= clock
  BY DEF TypeOK, EventType, AtPast
<1>4. /\ Pushed(h)' = n + 1 /\ DOMAIN events'[h] = 1 .. (n + 1)
      /\ \A k \in 1 .. n : events'[h][k] = events[h][k]
      /\ events'[h][n + 1] = e
  BY <1>3, Recorded DEF Take
<1>5. row'[h].status = "claimed" /\ row'[h].owner = a /\ row'[h].expires = until
  BY DEF Take, TypeOK, Row
<1>6. \A k : k \in 1 .. (n + 1) <=> k \in 1 .. n \/ k = n + 1
  BY <1>1
<1>7. n > 1 => events[h][n].at <= at[a]
  <2>1. CASE row[h].status = "pending"
    BY <1>1, <2>1
  <2>2. CASE row[h].status = "claimed"
    <3>1. n \in 1 .. n /\ events[h][n] \in Event
      BY <1>1, <1>2
    <3>2. events[h][n].at <= events[h][n].until
      BY <1>1, <2>2, <3>1 DEF Shaped
    <3>3. QED
      BY <1>1, <1>3, <2>2, <3>1, <3>2 DEF Event
  <2>3. QED
    BY <2>1, <2>2 DEF Live
<1>8. Told(h)'
  <2>1. n + 1 \in Claims(h)'
    BY <1>1, <1>4 DEF Claims
  <2>2. \A k \in Claims(h)' : (\A j \in Claims(h)' : j <= k) => k = n + 1
    BY <1>1, <1>4, <2>1 DEF Claims
  <2>3. events'[h] # <<>> /\ LastEvent(events[h])' = e
    BY <1>1, <1>4 DEF LastEvent, Pushed
  <2>4. StatusAfter[type] = "claimed"
    BY <1>3, StatusOfType
  <2>5. QED
    BY <1>4, <1>5, <2>2, <2>3, <2>4 DEF Told
<1>9. Shaped(h)'
  <2>1. SUFFICES ASSUME NEW k \in 1 .. (n + 1)
                 PROVE  /\ events'[h][k].type = "enqueued" <=> k = 1
                        /\ events'[h][k].type \in ClaimType =>
                             events'[h][k].until = 0 \/ events'[h][k].at <= events'[h][k].until
                        /\ events'[h][k].type \notin Verdict
                        /\ \A j \in 1 .. (n + 1) : 1 < j /\ j < k =>
                             events'[h][j].at <= events'[h][k].at
    BY <1>4 DEF Shaped
  <2>2. CASE k \in 1 .. n
    <3>1. events'[h][k] = events[h][k] /\ events[h][k].type \notin Verdict
      BY <1>1, <1>4, <2>2
    <3>2. \A j \in 1 .. (n + 1) : j < k => j \in 1 .. n /\ events'[h][j] = events[h][j]
      BY <1>1, <1>4, <2>2
    <3>3. QED
      BY <2>2, <3>1, <3>2 DEF Shaped
  <2>3. CASE k = n + 1
    <3>1. ASSUME NEW j \in 1 .. n, 1 < j PROVE events[h][j].at <= at[a]
      <4>1. n > 1 /\ n \in 1 .. n /\ events[h][n] \in Event /\ events[h][j] \in Event
        BY <1>1, <1>2, <3>1
      <4>2. j = n \/ events[h][j].at <= events[h][n].at
        BY <3>1, <4>1 DEF Shaped
      <4>3. QED
        BY <1>3, <1>7, <4>1, <4>2 DEF Event
    <3>2. events'[h][k] = e /\ k # 1
      BY <1>1, <1>4, <2>3
    <3>3. type # "enqueued" /\ type \notin Verdict
      BY DEF ClaimType, Verdict
    <3>4. ASSUME NEW j \in 1 .. (n + 1), 1 < j, j < k
          PROVE  events'[h][j].at <= events'[h][k].at
      <4>1. j \in 1 .. n /\ events'[h][j] = events[h][j]
        BY <1>1, <1>4, <2>3, <3>4
      <4>2. QED
        BY <3>1, <3>2, <3>4, <4>1
    <3>5. QED
      BY <3>2, <3>3, <3>4
  <2>4. QED
    BY <1>6, <2>2, <2>3
<1>10. ClaimedBefore(h)'
  <2>1. LastEvent(events[h])' = e /\ clock' = clock /\ a \notin busy'
    BY <1>4 DEF LastEvent, Pushed, Take, Leave
  <2>2. QED
    BY <1>3, <1>5, <2>1 DEF ClaimedBefore
<1>11. QED
  BY <1>8, <1>9, <1>10

\* A row is closed by the owner of a lease that has not ended at its "now".
LEMMA ClosedRow ==
  ASSUME TypeInv, NEW h \in Handoff, RowInv(h), NEW a \in busy, LeaseHeld(h, a, at[a]),
         NEW verdict \in Verdict, Close(h, a, a, verdict)
  PROVE  RowInv(h)'
<1> USE DEF TypeInv, RowInv
<1> DEFINE n == Pushed(h)
           e == [type |-> verdict, owner |-> a, until |-> 0, at |-> at[a]]
<1>1. row[h].status = "claimed" /\ row[h].owner = a /\ at[a] < row[h].expires
  BY DEF LeaseHeld
<1>2. /\ n \in Nat \ {0}
      /\ \A k \in 1 .. n : events[h][k].type \notin Verdict
      /\ events[h][n].type \in ClaimType
      /\ row[h].owner = events[h][n].owner
      /\ row[h].expires = events[h][n].until
  BY <1>1, LiveRow DEF Live
<1>3. \A k \in 1 .. n : events[h][k] \in Event
  BY LogFacts
<1>4. a \in Agent /\ at[a] \in Nat /\ verdict \in EventType
  BY DEF TypeOK, EventType
<1>5. /\ Pushed(h)' = n + 1 /\ DOMAIN events'[h] = 1 .. (n + 1)
      /\ \A k \in 1 .. n : events'[h][k] = events[h][k]
      /\ events'[h][n + 1] = e
  BY <1>4, Recorded DEF Close
<1>6. /\ row'[h].status = verdict /\ row'[h].owner = row[h].owner
      /\ row'[h].expires = row[h].expires
  BY DEF Close, TypeOK, Row
<1>7. \A k : k \in 1 .. (n + 1) <=> k \in 1 .. n \/ k = n + 1
  BY <1>2
<1>8. Told(h)'
  <2>1. verdict \notin ClaimType
    BY DEF Verdict, ClaimType
  <2>2. DOMAIN events[h] = 1 .. n
    BY LogFacts
  <2>3. Claims(h)' = Claims(h) /\ \A k \in Claims(h) : events'[h][k] = events[h][k]
    BY <1>5, <1>7, <2>1, <2>2 DEF Claims
  <2>4. events[h] # <<>> /\ events'[h] # <<>> /\ LastEvent(events[h])' = e
    BY <1>2, <1>5 DEF LastEvent, Pushed
  <2>5. StatusAfter[verdict] = verdict
    BY <1>4, StatusOfType
  <2>6. QED
    BY <1>6, <2>3, <2>4, <2>5 DEF Told
<1>9. Shaped(h)'
  <2>1. events[h][n].at <= at[a]
    BY <1>1 DEF ClaimedBefore, LastEvent, Pushed
  <2>2. SUFFICES ASSUME NEW k \in 1 .. (n + 1)
                 PROVE  /\ events'[h][k].type = "enqueued" <=> k = 1
                        /\ events'[h][k].type \in ClaimType =>
                             events'[h][k].until = 0 \/ events'[h][k].at <= events'[h][k].until
                        /\ events'[h][k].type \in Verdict =>
                             /\ k = n + 1 /\ k > 1
                             /\ events'[h][k - 1].type \in ClaimType
                             /\ events'[h][k - 1].owner = events'[h][k].owner
                             /\ events'[h][k].at < events'[h][k - 1].until
                        /\ \A j \in 1 .. (n + 1) : 1 < j /\ j < k =>
                             events'[h][j].at <= events'[h][k].at
    BY <1>5 DEF Shaped
  <2>3. CASE k \in 1 .. n
    <3>1. events'[h][k] = events[h][k] /\ events[h][k].type \notin Verdict
      BY <1>2, <1>5, <2>3
    <3>2. \A j \in 1 .. (n + 1) : j < k => j \in 1 .. n /\ events'[h][j] = events[h][j]
      BY <1>2, <1>5, <2>3
    <3>3. QED
      BY <2>3, <3>1, <3>2 DEF Shaped
  <2>4. CASE k = n + 1
    <3>1. k - 1 = n /\ n \in 1 .. n /\ k > 1
      BY <1>2, <2>4
    <3>2. ASSUME NEW j \in 1 .. n, 1 < j PROVE events[h][j].at <= at[a]
      <4>1. events[h][n] \in Event /\ events[h][j] \in Event
        BY <1>3, <3>1
      <4>2. j = n \/ events[h][j].at <= events[h][n].at
        BY <3>1, <3>2 DEF Shaped
      <4>3. QED
        BY <1>4, <2>1, <4>1, <4>2 DEF Event
    <3>3. events'[h][k] = e /\ events'[h][k - 1] = events[h][n]
      BY <1>5, <2>4, <3>1
    <3>4. verdict \notin ClaimType /\ verdict # "enqueued"
      BY DEF Verdict, ClaimType
    <3>5. ASSUME NEW j \in 1 .. (n + 1), 1 < j, j < k PROVE events'[h][j].at <= events'[h][k].at
      <4>1. j \in 1 .. n
        BY <1>2, <2>4, <3>5
      <4>2. QED
        BY <1>5, <3>2, <3>3, <3>5, <4>1
    <3>6. /\ e.type = verdict /\ e.owner = a /\ e.at = at[a]
          /\ k = n + 1 /\ k # 1
      BY <2>4, <3>1
    <3> HIDE DEF e
    <3>7. /\ events'[h][k - 1].type \in ClaimType
          /\ events'[h][k - 1].owner = events'[h][k].owner
          /\ events'[h][k].at < events'[h][k - 1].until
      BY <1>1, <1>2, <3>3, <3>6
    <3>8. QED
      BY <3>1, <3>3, <3>4, <3>5, <3>6, <3>7
  <2>5. QED
    BY <1>7, <2>3, <2>4
<1>10. QED
  BY <1>6, <1>8, <1>9 DEF ClaimedBefore, Verdict
-----------------------------------------------------------------------------
(* The invariant of the rows. *)

LEMMA HandoffInit == Init => HandoffInv
<1> SUFFICES ASSUME Init, NEW h \in Handoff \ Legacy PROVE RowInv(h)
  BY TypeInit DEF HandoffInv
<1>1. row[h] = NoRow /\ events[h] = <<>>
  BY DEF Init
<1>2. Len(events[h]) = 0
  BY <1>1
<1>3. QED
  BY <1>1, <1>2 DEF RowInv, Told, Shaped, ClaimedBefore, Pushed, NoRow

LEMMA LeftBusy ==
  ASSUME TypeOK, NEW a \in Agent, Leave(a)
  PROVE  \A b \in busy' : b \in Agent /\ b \in busy /\ at'[b] = at[b]
BY DEF Leave, TypeOK

LEMMA HandoffStep == HandoffInv /\ [Next]_vars => HandoffInv'
<1> SUFFICES ASSUME HandoffInv, [Next]_vars PROVE HandoffInv'
  OBVIOUS
<1>1. TypeInv'
  BY TypeStep DEF HandoffInv
<1> SUFFICES ASSUME NEW g \in Handoff \ Legacy PROVE RowInv(g)'
  BY <1>1 DEF HandoffInv
<1>2. TypeInv /\ TypeOK /\ RowInv(g) /\ clock \in Nat /\ busy \subseteq Agent
  BY DEF HandoffInv, TypeInv, TypeOK
<1>3. ASSUME UNCHANGED <<row, events>>, clock' \in Nat, clock <= clock',
             \A a \in busy' : a \in Agent /\ ((a \in busy /\ at'[a] = at[a]) \/ at'[a] = clock)
      PROVE  RowInv(g)'
  BY <1>2, <1>3, OtherRow
<1>4. CASE UNCHANGED vars
  BY <1>2, <1>3, <1>4 DEF vars
<1>5. CASE Tick
  BY <1>2, <1>3, <1>5 DEF Tick
<1>6. ASSUME NEW a \in Agent, Step(a) PROVE RowInv(g)'
  <2>1. CASE Call(a)
    BY <1>2, <1>3, <2>1 DEF Call, TypeOK
  <2>2. CASE Refuse(a)
    BY <1>2, <1>3, <2>2, LeftBusy DEF Refuse
  \* A command that changes another row.
  <2>3. ASSUME NEW h \in Handoff, h # g, Leave(a), clock' = clock,
               row'[g] = row[g], events'[g] = events[g]
        PROVE  RowInv(g)'
    BY <1>2, <2>3, LeftBusy, OtherRow
  <2>4. ASSUME NEW h \in Handoff, Enqueue(a, h) PROVE RowInv(g)'
    <3>1. CASE h = g
      BY <1>2, <2>4, <3>1, EnqueuedRow DEF Enqueue, TypeOK
    <3>2. CASE h # g
      BY <1>2, <2>3, <2>4, <3>2 DEF Enqueue, Record, TypeOK
    <3>3. QED
      BY <3>1, <3>2
  <2>5. ASSUME NEW h \in Handoff, NEW type \in ClaimType, NEW until \in Nat,
               Take(h, a, type, until), h # g
        PROVE  RowInv(g)'
    BY <1>2, <2>3, <2>5 DEF Take, Record, TypeOK
  <2>6. ASSUME NEW h \in Handoff, NEW owner, NEW verdict \in Verdict,
               Close(h, a, owner, verdict), h # g
        PROVE  RowInv(g)'
    BY <1>2, <2>3, <2>6 DEF Close, Record, TypeOK
  <2>7. ASSUME NEW h \in Handoff, CompleteOwned(a, h) \/ FailOwned(a, h) PROVE RowInv(g)'
    <3>1. PICK verdict \in Verdict : Close(h, a, a, verdict)
      BY <2>7 DEF CompleteOwned, FailOwned, Verdict
    <3>2. CASE h = g
      <4>1. a \in busy /\ LeaseHeld(g, a, at[a])
        BY <2>7, <3>2 DEF CompleteOwned, FailOwned
      <4>2. QED
        BY <1>2, <3>1, <3>2, <4>1, ClosedRow
    <3>3. QED
      BY <2>6, <3>1, <3>2
  <2>8. ASSUME NEW h \in Handoff, NEW ttl \in ClaimTtl, Claim(a, h, ttl) PROVE RowInv(g)'
    <3>1. /\ Until(at[a], ttl) \in Nat
          /\ Until(at[a], ttl) = 0 \/ at[a] <= Until(at[a], ttl)
      BY <1>2, HandoffAssumption DEF Until, TypeOK
    <3>2. CASE h = g
      BY <1>2, <2>8, <3>1, <3>2, TakenRow DEF Claim, Live, ClaimType
    <3>3. QED
      BY <2>5, <2>8, <3>1, <3>2 DEF Claim, ClaimType
  <2>9. ASSUME NEW h \in Handoff, NEW verdict \in Verdict, CloseLegacy(a, h, verdict)
        PROVE  RowInv(g)'
    BY <2>6, <2>9 DEF CloseLegacy
  <2>10. ASSUME NEW role \in Role, ClaimNext(a, role) PROVE RowInv(g)'
    <3>1. PICK h \in NextOf(role, at[a]) :
            Take(h, a, IF row[h].status = "claimed" THEN "reclaimed" ELSE "claimed",
                 Until(at[a], Ttl))
      BY <2>10 DEF ClaimNext
    <3>2. h \in Handoff /\ Claimable(h, at[a])
      BY DEF NextOf
    <3>3. /\ Until(at[a], Ttl) \in Nat
          /\ Until(at[a], Ttl) = 0 \/ at[a] <= Until(at[a], Ttl)
      BY <1>2, HandoffAssumption DEF Until, TypeOK
    <3>4. PICK type \in ClaimType : Take(h, a, type, Until(at[a], Ttl))
      BY <3>1 DEF ClaimType
    <3>5. CASE h = g
      <4>1. /\ row[g].status \in Live
            /\ row[g].status = "claimed" => row[g].expires # 0 /\ row[g].expires <= at[a]
        BY <3>2, <3>5 DEF Claimable, Live
      <4>2. QED
        BY <1>2, <3>3, <3>4, <3>5, <4>1, TakenRow
    <3>6. QED
      BY <2>5, <3>2, <3>3, <3>4, <3>5
  <2>11. QED
    BY <1>6, <2>1, <2>2, <2>4, <2>7, <2>8, <2>9, <2>10 DEF Step
<1>7. QED
  BY <1>4, <1>5, <1>6 DEF Next

LEMMA HandoffInvHolds == Spec => []HandoffInv
BY HandoffInit, HandoffStep, PTL DEF Spec
-----------------------------------------------------------------------------
\* The audit log of a row enqueued through the queue tells its whole state, whatever
\* agents claim, lose, reclaim and close it with a "now" that may be old.
THEOREM LogTellsRow == Spec => []EventsTellRow
<1>1. HandoffInv => EventsTellRow
  BY DEF HandoffInv, RowInv, Told, EventsTellRow
<1>2. QED
  BY <1>1, HandoffInvHolds, PTL

\* A verdict ends the log of its row and directly follows a claim of the same owner,
\* whose lease had not ended at the verdict's time.
THEOREM VerdictsInLease == Spec => []VerdictInLease
<1>1. HandoffInv => VerdictInLease
  <2> SUFFICES ASSUME HandoffInv, NEW h \in Handoff \ Legacy, NEW k \in DOMAIN events[h],
                      events[h][k].type \in Verdict
               PROVE  /\ k = Len(events[h]) /\ k > 1
                      /\ events[h][k - 1].type \in ClaimType
                      /\ events[h][k - 1].owner = events[h][k].owner
                      /\ events[h][k].at < events[h][k - 1].until
    BY DEF VerdictInLease
  <2>1. k \in 1 .. Pushed(h) /\ Shaped(h)
    BY LogFacts DEF HandoffInv, TypeInv, RowInv
  <2>2. QED
    BY <2>1 DEF Shaped, Pushed
<1>2. QED
  BY <1>1, HandoffInvHolds, PTL

\* Replay by created_at shows the events after the enqueueing in the order of their
\* commits, although each carries a time read before its transaction.
THEOREM ReplayOrdered == Spec => []ReplayOrder
<1>1. HandoffInv => ReplayOrder
  BY LogFacts DEF HandoffInv, TypeInv, RowInv, Shaped, ReplayOrder
<1>2. QED
  BY <1>1, HandoffInvHolds, PTL

\* A row is taken from its owner only when its lease has ended, and never when it has none.
THEOREM NothingStolen == Spec => NoSteal
<1>1. TypeInv /\ [Next]_vars =>
        [\A h \in Handoff :
           row[h].status = "claimed" /\ row'[h].owner # row[h].owner
           => row[h].expires # 0 /\ row[h].expires <= clock]_vars
  <2> SUFFICES ASSUME TypeInv, Next, NEW h \in Handoff, row[h].status = "claimed",
                      row'[h].owner # row[h].owner
               PROVE  row[h].expires # 0 /\ row[h].expires <= clock
    OBVIOUS
  <2> USE DEF TypeInv, TypeOK
  <2>1. PICK a \in Agent : Step(a)
    BY DEF Next, Tick
  <2>2. ~ \E g \in Handoff : \E owner, verdict : Close(g, a, owner, verdict)
    <3>1. ASSUME NEW g \in Handoff, NEW owner, NEW verdict, Close(g, a, owner, verdict)
          PROVE  FALSE
      <4>1. row' = [row EXCEPT ![g].status = verdict]
        BY <3>1 DEF Close
      <4>2. QED
        BY <4>1 DEF Row
    <3>2. QED
      BY <3>1
  <2>3. ~ \E g \in Handoff : Enqueue(a, g)
    BY DEF Enqueue, Row
  <2>4. ~ \E g \in Handoff, ttl \in ClaimTtl : Claim(a, g, ttl)
    BY DEF Claim, Take, Row
  <2>5. PICK role \in Role : ClaimNext(a, role)
    BY <2>1, <2>2, <2>3, <2>4 DEF Step, Call, Refuse, CompleteOwned, FailOwned, CloseLegacy
  <2>6. PICK g \in NextOf(role, at[a]) :
          row' = [row EXCEPT ![g].status = "claimed", ![g].owner = a,
                             ![g].expires = Until(at[a], Ttl)]
    BY <2>5 DEF ClaimNext, Take
  <2>7. g = h /\ Claimable(h, at[a])
    BY <2>6 DEF NextOf
  <2>8. row[h].expires # 0 /\ row[h].expires <= at[a] /\ row[h].expires \in Nat
    BY <2>7 DEF Claimable, Row
  <2>9. QED
    BY <2>8 DEF AtPast
<1>2. QED
  BY <1>1, HandoffTypeCorrect, PTL DEF Spec, NoSteal
=============================================================================
