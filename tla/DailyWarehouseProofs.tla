------------------------ MODULE DailyWarehouseProofs ------------------------
(***************************************************************************)
(* Theorems about DailyWarehouse for every set of symbols, dates, threads  *)
(* and processes.                                                          *)
(***************************************************************************)
EXTENDS DailyWarehouse, WellFoundedInduction, FiniteSetTheorems, TLAPS

\* A writer at a step for one symbol knows the symbol, and so does a caller of
\* resolve_symbol that waits for a snapshot.
SymKnown ==
  \A w \in Worker : pc[w] \in OnSymbol \/ (pc[w] = "fetch" /\ w \notin Refresh)
                      => sym[w] \in Symbol

\* Summaries in memory, of rows and of the SELECT, name dates that have landed.
HeldLanded == \A w \in Worker : \A s \in DOMAIN held[w] : Landed(held[w][s], s)
SpanLanded == \A w \in Worker : pc[w] = "cover" => Landed(span[w], sym[w])

TypeInv == TypeOK /\ SymKnown
LandedInv == CoverageLanded /\ HeldLanded /\ SpanLanded
-----------------------------------------------------------------------------
(* The operators the actions are built from. *)

LEMMA HeldFacts ==
  ASSUME NEW h \in Held
  PROVE  DOMAIN h \subseteq Symbol /\ \A s \in DOMAIN h : h[s] \in CoverOrNone
BY DEF Held

LEMMA HeldIntro ==
  ASSUME NEW S \in SUBSET Symbol, NEW h \in [S -> CoverOrNone]
  PROVE  h \in Held
BY DEF Held

LEMMA NothingHeld == Nothing \in Held /\ DOMAIN Nothing = {}
<1>1. Nothing \in [{} -> CoverOrNone]
  BY DEF Nothing
<1>2. QED
  BY <1>1, HeldIntro DEF Nothing

\* Dates have a first and a last one.
LEMMA FirstDate ==
  ASSUME NEW dates \in SUBSET Date, dates # {}
  PROVE  \E d \in dates : \A e \in dates : d <= e
<1>1. dates \subseteq Nat
  BY DateAssumption DEF Date
<1>2. PICK d \in dates : \A e \in dates : ~(<<e, d>> \in OpToRel(<, Nat))
  BY <1>1, NatLessThanWellFounded, WFMin
<1>3. ASSUME NEW e \in dates PROVE d <= e
  <2>1. ~(e < d)
    BY <1>1, <1>2 DEF OpToRel
  <2>2. QED
    BY <1>1, <2>1
<1>4. QED
  BY <1>3

LEMMA LastDateOf ==
  ASSUME NEW dates \in SUBSET Date, dates # {}
  PROVE  \E d \in dates : \A e \in dates : e <= d
<1> DEFINE Mirror == {LastDate - d : d \in dates}
<1>1. Mirror \subseteq Nat /\ Mirror # {}
  <2>1. ASSUME NEW d \in dates PROVE LastDate - d \in Nat
    BY DateAssumption DEF Date
  <2>2. QED
    BY <2>1
<1>2. PICK m \in Mirror : \A n \in Mirror : ~(<<n, m>> \in OpToRel(<, Nat))
  BY <1>1, NatLessThanWellFounded, WFMin
<1>3. PICK d \in dates : m = LastDate - d
  BY <1>2
<1>4. ASSUME NEW e \in dates PROVE e <= d
  <2>1. LastDate - e \in Mirror
    OBVIOUS
  <2>2. ~(LastDate - e < m)
    BY <1>1, <1>2, <2>1 DEF OpToRel
  <2>3. QED
    BY <1>3, <2>2, DateAssumption DEF Date
<1>5. QED
  BY <1>4

\* MIN and MAX of a symbol's bars are dates of bars.
LEMMA SpanOfDates ==
  ASSUME NEW dates \in SUBSET Date
  PROVE  /\ Span(dates) \in CoverOrNone
         /\ Span(dates) = NoCover \/ (Span(dates).lo \in dates /\ Span(dates).hi \in dates)
<1>1. CASE dates = {}
  BY <1>1 DEF Span, CoverOrNone
<1>2. CASE dates # {}
  <2> DEFINE a == CHOOSE d \in dates : \A e \in dates : d <= e
             b == CHOOSE d \in dates : \A e \in dates : e <= d
  <2>1. a \in dates
    BY <1>2, FirstDate
  <2>2. b \in dates
    BY <1>2, LastDateOf
  <2>3. Span(dates) = [lo |-> a, hi |-> b]
    BY <1>2 DEF Span
  <2> HIDE DEF a, b
  <2>4. QED
    BY <2>1, <2>2, <2>3 DEF CoverOrNone, Cover
<1>3. QED
  BY <1>1, <1>2

LEMMA RowCoverType ==
  ASSUME TypeOK, NEW s \in Symbol
  PROVE  RowCover(s) \in CoverOrNone
BY DEF TypeOK, RowCover, CoverOrNone

LEMMA SummariesHeld ==
  ASSUME TypeOK, NEW S \in SUBSET Symbol
  PROVE  Summaries(S) \in Held /\ DOMAIN Summaries(S) = S
BY RowCoverType, HeldIntro DEF Summaries

LEMMA RecordHeld ==
  ASSUME TypeOK, NEW s \in Symbol
  PROVE  Record(s) \in Held
BY RowCoverType, HeldIntro DEF Record

LEMMA LiveHeld ==
  ASSUME NEW S \in SUBSET Symbol
  PROVE  Live(S) \in Held
BY HeldIntro DEF Live, CoverOrNone

LEMMA UpsertType ==
  ASSUME TypeOK, NEW h \in Held, UpsertSymbols(h)
  PROVE  rows' \in [Symbol -> CoverOrNone \cup {NoRow}]
BY HeldFacts, RowCoverType DEF UpsertSymbols, TypeOK

LEMMA ExcuseType ==
  ASSUME TypeOK, NEW fixed, NEW broken \in SUBSET Symbol, Excuse(fixed, broken)
  PROVE  excused' \subseteq Symbol
BY DEF TypeOK, Excuse, Overlap

\* Writers that start anew are well-typed and know what they need.
LEMMA ResetType ==
  ASSUME TypeInv, NEW W, Reset(W)
  PROVE  /\ pc' \in [Worker -> Place]
         /\ job' \in [Worker -> Job]
         /\ sym' \in [Worker -> Symbol \cup {NoSymbol}]
         /\ held' \in [Worker -> Held]
         /\ span' \in [Worker -> CoverOrNone]
         /\ todo' \in [Worker -> SUBSET Symbol]
         /\ SymKnown'
<1>1. NoCover \in CoverOrNone
  BY DEF CoverOrNone
<1>2. QED
  BY <1>1, NothingHeld DEF TypeInv, TypeOK, Reset, SymKnown, OnSymbol, OnTable, Place, Job

-----------------------------------------------------------------------------
(* Type correctness: one step per action. *)

LEMMA InitType == Init => TypeInv
<1>1. NoCover \in CoverOrNone
  BY DEF CoverOrNone
<1>2. Init => TypeOK
  <2> SUFFICES ASSUME Init PROVE TypeOK
    OBVIOUS
  <2>1. rows \in [Symbol -> CoverOrNone \cup {NoRow}] /\ bars \in [Symbol -> SUBSET Date]
    BY DEF Init
  <2>2. pc \in [Worker -> Place] /\ job \in [Worker -> Job]
    BY DEF Init, Place, Job
  <2>3. held \in [Worker -> Held]
    BY NothingHeld DEF Init
  <2>4. /\ sym \in [Worker -> Symbol \cup {NoSymbol}]
        /\ span \in [Worker -> CoverOrNone]
        /\ todo \in [Worker -> SUBSET Symbol]
    BY <1>1 DEF Init
  <2>5. QED
    BY <2>1, <2>2, <2>3, <2>4 DEF Init, TypeOK
<1>3. Init => SymKnown
  BY DEF Init, SymKnown, OnSymbol
<1>4. QED
  BY <1>2, <1>3 DEF TypeInv

\* Steps of one writer that move it on and leave its memory alone or fill it.
LEMMA StepType ==
  ASSUME TypeInv, NEW w \in Worker, Step(w), excused' \subseteq Symbol
  PROVE  TypeInv'
<1> USE DEF TypeInv, GoTo, Hold, table, flags
<1>1. CASE FetchMarketSnapshot(w)
  <2>1. CASE Fetched(w) /\ UNCHANGED <<table, flags, job, sym, span, todo>>
    <3>1. PICK S \in SUBSET Symbol : Hold(w, Summaries(S)) /\ GoTo(w, "delete")
      BY <2>1 DEF Fetched, Snapshot
    <3>2. QED
      BY <2>1, <3>1, SummariesHeld DEF TypeOK, SymKnown, OnSymbol, OnTable, Place
  <2>2. CASE w \in Refresh /\ Finish(w, FALSE) /\ UNCHANGED table
    BY <2>2, ResetType DEF TypeOK, Finish
  <2>3. CASE w \notin Refresh /\ GoTo(w, "rematch")
             /\ UNCHANGED <<table, flags, job, sym, held, span, todo>>
    BY <1>1, <2>3 DEF TypeOK, SymKnown, OnSymbol, OnTable, Place, FetchMarketSnapshot
  <2>4. QED
    BY <1>1, <2>1, <2>2, <2>3 DEF FetchMarketSnapshot
<1>2. CASE ReadSummaries(w)
  <2>1. DOMAIN held[w] \in SUBSET Symbol
    BY HeldFacts DEF TypeOK
  <2>2. QED
    BY <1>2, <2>1, SummariesHeld
    DEF TypeOK, SymKnown, OnSymbol, OnTable, Place, ReadSummaries
<1>3. CASE InsertSymbols(w)
  <2>1. rows' \in [Symbol -> CoverOrNone \cup {NoRow}]
    BY <1>3, UpsertType DEF TypeOK, InsertSymbols
  <2>2. QED
    BY <1>3, <2>1, NothingHeld
    DEF TypeOK, SymKnown, OnSymbol, OnTable, Place, InsertSymbols
<1>4. CASE ResolveSymbol(w)
  <2>1. sym[w] \in Symbol
    BY <1>4 DEF ResolveSymbol, SymKnown, OnSymbol
  <2>2. QED
    BY <1>4, <2>1, RecordHeld
    DEF TypeOK, SymKnown, OnSymbol, OnTable, Place, ResolveSymbol, Resolved
<1>5. CASE SearchSymbols(w)
  <2>1. sym[w] \in Symbol
    BY <1>5 DEF SearchSymbols, SymKnown, OnSymbol
  <2>2. QED
    BY <1>5, <2>1, RecordHeld
    DEF TypeOK, SymKnown, OnSymbol, OnTable, Place, SearchSymbols, Resolved
<1>6. CASE CreateRow(w)
  <2>1. sym[w] \in Symbol
    BY <1>6 DEF CreateRow, SymKnown, OnSymbol
  <2>2. rows' \in [Symbol -> CoverOrNone \cup {NoRow}]
    BY <1>6, <2>1, UpsertType, LiveHeld DEF CreateRow
  <2>3. QED
    BY <1>6, <2>1, <2>2 DEF TypeOK, SymKnown, OnSymbol, OnTable, Place, CreateRow
<1>7. CASE EnrichRow(w)
  <2>1. rows' \in [Symbol -> CoverOrNone \cup {NoRow}]
    BY <1>7, UpsertType DEF TypeOK, EnrichRow
  <2>2. QED
    BY <1>7, <2>1 DEF TypeOK, SymKnown, OnSymbol, OnTable, Place, EnrichRow
<1>8. CASE RereadRow(w)
  <2>1. sym[w] \in Symbol
    BY <1>8 DEF RereadRow, SymKnown, OnSymbol
  <2>2. QED
    BY <1>8, <2>1, RecordHeld, NothingHeld
    DEF TypeOK, SymKnown, OnSymbol, OnTable, Place, RereadRow, Resolved
<1>9. CASE UpsertRecord(w)
  <2>1. rows' \in [Symbol -> CoverOrNone \cup {NoRow}]
    BY <1>9, UpsertType DEF TypeOK, UpsertRecord
  <2>2. QED
    BY <1>9, <2>1, NothingHeld
    DEF TypeOK, SymKnown, OnSymbol, OnTable, Place, UpsertRecord
<1>10. CASE UpsertDailyBars(w)
  <2>1. sym[w] \in Symbol
    BY <1>10 DEF UpsertDailyBars, SymKnown, OnSymbol
  <2>2. PICK dates \in Window[sym[w]] :
          bars' = [bars EXCEPT ![sym[w]] = @ \cup dates]
    BY <1>10 DEF UpsertDailyBars
  <2>3. Window[sym[w]] \in SUBSET SUBSET Date
    BY <2>1, DateAssumption
  <2>4. bars \in [Symbol -> SUBSET Date]
    BY DEF TypeOK
  <2>5. bars[sym[w]] \cup dates \in SUBSET Date
    BY <2>1, <2>2, <2>3, <2>4
  <2>6. bars' \in [Symbol -> SUBSET Date]
    BY <2>2, <2>4, <2>5
  <2>7. QED
    BY <1>10, <2>1, <2>6, NothingHeld
    DEF TypeOK, SymKnown, OnSymbol, OnTable, Place, UpsertDailyBars
<1>11. CASE UpdateCoverage(w)
  BY <1>11 DEF TypeOK, SymKnown, OnSymbol, OnTable, Place, UpdateCoverage, CoverOrNone
<1>12. CASE NoDailyBars(w)
  BY <1>12 DEF TypeOK, SymKnown, OnSymbol, OnTable, Place, NoDailyBars
<1>13. CASE Reload(w)
  BY <1>13 DEF TypeOK, SymKnown, OnSymbol, OnTable, Place, Job, Reload
<1>14. CASE SelectCoverage(w)
  <2>1. sym[w] \in Symbol
    BY <1>14 DEF SelectCoverage, SymKnown, OnSymbol
  <2>2. Span(bars[sym[w]]) \in CoverOrNone
    BY <2>1, SpanOfDates DEF TypeOK
  <2>3. QED
    BY <1>14, <2>1, <2>2 DEF TypeOK, SymKnown, OnSymbol, OnTable, Place, SelectCoverage
<1>15. CASE CompareSnapshot(w)
  <2>1. CASE UNCHANGED held
    BY <1>15, <2>1 DEF TypeOK, SymKnown, OnSymbol, OnTable, Place, CompareSnapshot
  <2>2. CASE \E S \in SUBSET Symbol : Hold(w, Live(S))
    BY <1>15, <2>2, LiveHeld DEF TypeOK, SymKnown, OnSymbol, OnTable, Place, CompareSnapshot
  <2>3. QED
    BY <1>15, <2>1, <2>2 DEF CompareSnapshot, Snapshot
<1>16. CASE BuildSyncCandidates(w)
  BY <1>16 DEF TypeOK, SymKnown, OnSymbol, OnTable, Place, Job, Listed, BuildSyncCandidates
<1>17. CASE NextSymbol(w)
  <2>1. CASE Reset({w}) /\ UNCHANGED <<table, flags>>
    BY <2>1, ResetType DEF TypeOK
  <2>2. CASE ~Reset({w})
    BY <1>17, <2>2, NothingHeld DEF TypeOK, SymKnown, OnSymbol, OnTable, Place, NextSymbol
  <2>3. QED
    BY <1>17, <2>1, <2>2 DEF NextSymbol
<1>18. QED
  BY <1>1, <1>2, <1>3, <1>4, <1>5, <1>6, <1>7, <1>8, <1>9, <1>10, <1>11, <1>12,
     <1>13, <1>14, <1>15, <1>16, <1>17 DEF Step

\* The remaining steps of threads, processes and faults.
LEMMA OtherType ==
  ASSUME TypeInv, excused' \subseteq Symbol,
         \/ \E r \in Refresh : ThreadStep(r)
         \/ \E w \in Request : HandleRequest(w)
         \/ \E w \in Cli : SyncMarketData(w)
         \/ \E w \in Worker : DeleteSymbols(w) \/ BackfillCoverage(w) \/ Raise(w)
         \/ CrashServer
         \/ Midnight
  PROVE  TypeInv'
<1> USE DEF TypeInv, GoTo, Hold, table, flags
<1>1. ASSUME NEW r \in Refresh, MaybeScheduleMarketRefresh(r) PROVE TypeInv'
  BY <1>1 DEF TypeOK, SymKnown, OnSymbol, OnTable, Place, Worker, MayStart,
              MaybeScheduleMarketRefresh
<1>1a. ASSUME NEW r \in Refresh, SpawnRefreshThread(r) PROVE TypeInv'
  <2>1. CASE Reset({r}) /\ UNCHANGED <<table, inFlight, checked>>
             /\ stranded' = TRUE /\ late' = late \ {r}
    BY <2>1, ResetType DEF TypeOK
  <2>2. CASE GoTo(r, "preflight") /\ UNCHANGED <<flags, job, sym, held, span, todo, table>>
    BY <2>2 DEF TypeOK, SymKnown, OnSymbol, OnTable, Place, Worker
  <2>3. QED
    BY <1>1a, <2>1, <2>2 DEF SpawnRefreshThread
<1>2. ASSUME NEW r \in Refresh, NEW success \in BOOLEAN, Finish(r, success), UNCHANGED table
      PROVE  TypeInv'
  BY <1>2, ResetType DEF TypeOK, Finish
<1>3. ASSUME NEW r \in Refresh, Preflight(r) PROVE TypeInv'
  <2>1. CASE \E success \in BOOLEAN : Finish(r, success) /\ UNCHANGED table
    BY <1>2, <2>1
  <2>2. CASE GoTo(r, "fetch") /\ UNCHANGED <<flags, job, sym, held, span, todo, table>>
    BY <2>2 DEF TypeOK, SymKnown, OnSymbol, OnTable, Place, Worker
  <2>3. QED
    BY <1>3, <2>1, <2>2 DEF Preflight
<1>4. ASSUME NEW r \in Refresh, Seal(r) PROVE TypeInv'
  BY <1>2, <1>4 DEF Seal
<1>5. ASSUME NEW w \in Request, HandleRequest(w) PROVE TypeInv'
  BY <1>5 DEF TypeOK, SymKnown, OnSymbol, OnTable, Place, Job, Worker, HandleRequest
<1>6. ASSUME NEW w \in Cli, SyncMarketData(w) PROVE TypeInv'
  <2>1. CASE GoTo(w, "compare") /\ UNCHANGED sym
    BY <1>6, <2>1 DEF TypeOK, SymKnown, OnSymbol, OnTable, Place, Job, Worker, SyncMarketData
  <2>2. CASE GoTo(w, "resolve") /\ \E s \in Symbol : sym' = [sym EXCEPT ![w] = s]
    BY <1>6, <2>2 DEF TypeOK, SymKnown, OnSymbol, OnTable, Place, Job, Worker, SyncMarketData
  <2>3. QED
    BY <1>6, <2>1, <2>2 DEF SyncMarketData
<1>7. ASSUME NEW w \in Worker, DeleteSymbols(w) PROVE TypeInv'
  BY <1>7 DEF TypeOK, SymKnown, OnSymbol, OnTable, Place, DeleteSymbols
<1>8. ASSUME NEW w \in Worker, BackfillCoverage(w) PROVE TypeInv'
  <2>1. \A s \in Symbol : Span(bars[s]) \in CoverOrNone
    BY SpanOfDates DEF TypeOK
  <2>2. QED
    BY <1>8, <2>1 DEF TypeOK, SymKnown, OnSymbol, OnTable, Place, BackfillCoverage
<1>9. ASSUME NEW w \in Worker, Raise(w) PROVE TypeInv'
  <2>1. CASE w \in Refresh /\ Finish(w, FALSE) /\ UNCHANGED table
    BY <1>2, <2>1
  <2>2. CASE Reset({w}) /\ UNCHANGED <<table, flags>>
    BY <2>2, ResetType DEF TypeOK
  <2>3. CASE /\ GoTo(w, "next")
             /\ Hold(w, Nothing)
             /\ span' = [span EXCEPT ![w] = NoCover]
             /\ UNCHANGED <<table, flags, job, sym, todo>>
    BY <2>3, NothingHeld DEF TypeOK, SymKnown, OnSymbol, OnTable, Place, CoverOrNone
  <2>4. QED
    BY <1>9, <2>1, <2>2, <2>3 DEF Raise
<1>10. CASE CrashServer
  BY <1>10, ResetType DEF TypeOK, CrashServer
<1>11. CASE Midnight
  BY <1>11 DEF TypeOK, SymKnown, Midnight, writer
<1>12. QED
  BY <1>1, <1>1a, <1>3, <1>4, <1>5, <1>6, <1>7, <1>8, <1>9, <1>10, <1>11 DEF ThreadStep

\* Symbols in doubt are symbols, also when a writer stops halfway.
LEMMA DoubtType ==
  ASSUME TypeInv, Next
  PROVE  excused' \subseteq Symbol
<1>1. \A w \in Worker : Halfway(w) \subseteq Symbol
  BY DEF TypeInv, SymKnown, OnSymbol, Halfway
<1>2. UNION {Halfway(w) : w \in Request \cup Refresh} \subseteq Symbol
  BY <1>1 DEF Worker
<1>3. \A fixed : \A broken \in SUBSET Symbol :
        Excuse(fixed, broken) => excused' \subseteq Symbol
  BY ExcuseType DEF TypeInv
<1>4. \A w : Listed \ DOMAIN held[w] \subseteq Symbol
  BY DEF Listed
<1>5. QED
  BY <1>1, <1>2, <1>3, <1>4 DEF Next

LEMMA NextType == TypeInv /\ [Next]_vars => TypeInv'
<1> SUFFICES ASSUME TypeInv, [Next]_vars PROVE TypeInv'
  OBVIOUS
<1>1. CASE Next
  <2>1. excused' \subseteq Symbol
    BY <1>1, DoubtType
  <2>2. CASE \E w \in Worker : Step(w)
    BY <2>1, <2>2, StepType
  <2>3. CASE ~\E w \in Worker : Step(w)
    BY <1>1, <2>1, <2>3, OtherType DEF Next
  <2>4. QED
    BY <2>2, <2>3
<1>2. CASE UNCHANGED vars
  BY <1>2 DEF vars, table, flags, writer, TypeInv, TypeOK, SymKnown
<1>3. QED
  BY <1>1, <1>2

\* Writers, tables and flags are well-typed in every reachable state, and a
\* writer at a step for one symbol (resolve_symbol, sync_symbol_daily,
\* upsert_daily_bars) always knows the symbol.
THEOREM WarehouseTypeCorrect == Spec => []TypeOK
<1>1. TypeInv => TypeOK
  BY DEF TypeInv
<1>2. QED
  BY InitType, NextType, <1>1, PTL DEF Spec

-----------------------------------------------------------------------------
(* Landed coverage.  A summary travels: from the bars by a SELECT into `span`, *)
(* from there into a row, from a row into the memory of another writer and     *)
(* back into a row.  All of them have landed, for bars are never deleted.      *)

\* What a step must establish: summaries it writes anywhere have landed already.
RowsSafe == \A s \in Symbol : rows'[s] # NoRow => Landed(rows'[s], s)
HeldSafe == \A w \in Worker : \A s \in DOMAIN held'[w] : Landed(held'[w][s], s)
SpanSafe == \A w \in Worker : pc'[w] = "cover" => Landed(span'[w], sym'[w])
BarsGrow == \A s \in Symbol : bars[s] \subseteq bars'[s]
SafeStep == RowsSafe /\ HeldSafe /\ SpanSafe /\ BarsGrow

LEMMA LandedGrows ==
  ASSUME NEW cover, NEW s \in Symbol, Landed(cover, s), BarsGrow
  PROVE  cover = NoCover \/ (cover.lo \in bars'[s] /\ cover.hi \in bars'[s])
BY DEF Landed, BarsGrow

LEMMA SafePreserves ==
  ASSUME TypeInv', SafeStep
  PROVE  LandedInv'
<1>1. CoverageLanded'
  BY LandedGrows DEF SafeStep, RowsSafe, CoverageLanded, Listed, Landed
<1>2. HeldLanded'
  <2>1. ASSUME NEW w \in Worker PROVE DOMAIN held'[w] \subseteq Symbol
    BY HeldFacts DEF TypeInv, TypeOK
  <2>2. QED
    BY <2>1, LandedGrows DEF SafeStep, HeldSafe, HeldLanded, Landed
<1>3. SpanLanded'
  <2>1. ASSUME NEW w \in Worker, pc'[w] = "cover" PROVE sym'[w] \in Symbol
    BY <2>1 DEF TypeInv, SymKnown, OnSymbol
  <2>2. QED
    BY <2>1, LandedGrows DEF SafeStep, SpanSafe, SpanLanded, Landed
<1>4. QED
  BY <1>1, <1>2, <1>3 DEF LandedInv

LEMMA RowsKept ==
  ASSUME LandedInv, UNCHANGED rows
  PROVE  RowsSafe
BY DEF LandedInv, CoverageLanded, Listed, RowsSafe

LEMMA BarsKept ==
  ASSUME UNCHANGED bars
  PROVE  BarsGrow
BY DEF BarsGrow

LEMMA HeldKept ==
  ASSUME LandedInv, UNCHANGED held
  PROVE  HeldSafe
BY DEF LandedInv, HeldLanded, HeldSafe

\* A writer that stores landed summaries in its memory.
LEMMA HoldSafe ==
  ASSUME TypeInv, LandedInv, NEW w \in Worker, NEW h, Hold(w, h),
         \A s \in DOMAIN h : Landed(h[s], s)
  PROVE  HeldSafe
BY DEF TypeInv, TypeOK, LandedInv, HeldLanded, HeldSafe, Hold

\* A writer that goes anywhere but to the UPDATE of a summary.
LEMMA SpanElsewhere ==
  ASSUME TypeInv, LandedInv, NEW w \in Worker, NEW step, step # "cover", GoTo(w, step),
         \A v \in Worker : v # w => sym'[v] = sym[v] /\ span'[v] = span[v]
  PROVE  SpanSafe
BY DEF TypeInv, TypeOK, LandedInv, SpanLanded, SpanSafe, GoTo

LEMMA ResetSafe ==
  ASSUME LandedInv, NEW W, Reset(W)
  PROVE  HeldSafe /\ SpanSafe
BY NothingHeld DEF LandedInv, HeldLanded, SpanLanded, HeldSafe, SpanSafe, Reset

LEMMA RowCoverLanded ==
  ASSUME LandedInv, NEW s \in Symbol
  PROVE  Landed(RowCover(s), s)
BY DEF LandedInv, CoverageLanded, Listed, RowCover, Landed

LEMMA SummariesLanded ==
  ASSUME LandedInv, NEW S \in SUBSET Symbol
  PROVE  \A s \in DOMAIN Summaries(S) : Landed(Summaries(S)[s], s)
BY RowCoverLanded DEF Summaries

LEMMA RecordLanded ==
  ASSUME LandedInv, NEW s \in Symbol
  PROVE  \A t \in DOMAIN Record(s) : Landed(Record(s)[t], t)
BY RowCoverLanded DEF Record

LEMMA LiveLanded ==
  ASSUME NEW S \in SUBSET Symbol
  PROVE  \A s \in DOMAIN Live(S) : Landed(Live(S)[s], s)
BY DEF Live, Landed

\* COALESCE keeps a stored summary or takes one that has landed.
LEMMA UpsertSafe ==
  ASSUME LandedInv, NEW h, \A s \in DOMAIN h : Landed(h[s], s), UpsertSymbols(h)
  PROVE  RowsSafe
BY RowCoverLanded DEF UpsertSymbols, LandedInv, CoverageLanded, Listed, RowsSafe

LEMMA SpanLandedNow ==
  ASSUME TypeInv, NEW s \in Symbol
  PROVE  Landed(Span(bars[s]), s)
BY SpanOfDates DEF TypeInv, TypeOK, Landed

\* One step per action of a writer.
LEMMA StepSafe ==
  ASSUME TypeInv, LandedInv, NEW w \in Worker, Step(w)
  PROVE  SafeStep
<1> USE DEF SafeStep, table, flags
<1>1. CASE FetchMarketSnapshot(w)
  <2>1. CASE Fetched(w) /\ UNCHANGED <<table, flags, job, sym, span, todo>>
    <3>1. PICK S \in SUBSET Symbol : Hold(w, Summaries(S)) /\ GoTo(w, "delete")
      BY <2>1 DEF Fetched, Snapshot
    <3>2. QED
      BY <2>1, <3>1, SummariesLanded, RowsKept, BarsKept, HoldSafe, SpanElsewhere
  <2>2. CASE Finish(w, FALSE) /\ UNCHANGED table
    BY <2>2, ResetSafe, RowsKept, BarsKept DEF Finish
  <2>3. CASE GoTo(w, "rematch") /\ UNCHANGED <<table, flags, job, sym, held, span, todo>>
    BY <2>3, RowsKept, BarsKept, HeldKept, SpanElsewhere
  <2>4. QED
    BY <1>1, <2>1, <2>2, <2>3 DEF FetchMarketSnapshot
<1>2. CASE ReadSummaries(w)
  <2>1. DOMAIN held[w] \in SUBSET Symbol
    BY HeldFacts DEF TypeInv, TypeOK
  <2>2. QED
    BY <1>2, <2>1, SummariesLanded, RowsKept, BarsKept, HoldSafe, SpanElsewhere
    DEF ReadSummaries
<1>3. \A s \in DOMAIN held[w] : Landed(held[w][s], s)
  BY DEF LandedInv, HeldLanded
<1>4. \A s \in DOMAIN Nothing : Landed(Nothing[s], s)
  BY NothingHeld
<1>5. CASE InsertSymbols(w)
  <2>1. PICK step \in {"seal", "backfill", "rematch"} : GoTo(w, step)
    BY <1>5 DEF InsertSymbols
  <2>2. QED
    BY <1>3, <1>4, <1>5, <2>1, UpsertSafe, BarsKept, HoldSafe, SpanElsewhere
    DEF InsertSymbols
<1>6. ASSUME NEW h, \A s \in DOMAIN h : Landed(h[s], s), Resolved(w, h),
             UNCHANGED <<table, flags, job, sym, span, todo>>
      PROVE  SafeStep
  <2>1. PICK step \in {"next", "bars", "record"} : GoTo(w, step)
    BY <1>6 DEF Resolved
  <2>2. QED
    BY <1>6, <2>1, RowsKept, BarsKept, HoldSafe, SpanElsewhere DEF Resolved
<1>7. sym[w] \in Symbol => \A t \in DOMAIN Record(sym[w]) : Landed(Record(sym[w])[t], t)
  BY RecordLanded
<1>8. CASE ResolveSymbol(w)
  <2>1. sym[w] \in Symbol
    BY <1>8 DEF ResolveSymbol, TypeInv, SymKnown, OnSymbol
  <2>2. CASE Resolved(w, Record(sym[w]))
    BY <1>6, <1>7, <1>8, <2>1, <2>2 DEF ResolveSymbol
  <2>3. CASE Hold(w, Record(sym[w])) /\ GoTo(w, "enrich")
    BY <1>7, <1>8, <2>1, <2>3, RowsKept, BarsKept, HoldSafe, SpanElsewhere
    DEF ResolveSymbol
  <2>4. CASE GoTo(w, "search") /\ UNCHANGED held
    BY <1>8, <2>4, RowsKept, BarsKept, HeldKept, SpanElsewhere DEF ResolveSymbol
  <2>5. QED
    BY <1>8, <2>2, <2>3, <2>4 DEF ResolveSymbol
<1>9. CASE SearchSymbols(w)
  <2>1. sym[w] \in Symbol
    BY <1>9 DEF SearchSymbols, TypeInv, SymKnown, OnSymbol
  <2>2. CASE Resolved(w, Record(sym[w]))
    BY <1>6, <1>7, <1>9, <2>1, <2>2 DEF SearchSymbols
  <2>3. CASE UNCHANGED held /\ \E step \in {"fetch", "create"} : GoTo(w, step)
    BY <1>9, <2>3, RowsKept, BarsKept, HeldKept, SpanElsewhere DEF SearchSymbols
  <2>4. QED
    BY <1>9, <2>2, <2>3 DEF SearchSymbols
<1>10. CASE CreateRow(w)
  <2>1. sym[w] \in Symbol
    BY <1>10 DEF CreateRow, TypeInv, SymKnown, OnSymbol
  <2>2. RowsSafe
    BY <1>10, <2>1, LiveLanded, UpsertSafe DEF CreateRow
  <2>3. QED
    BY <1>10, <2>2, BarsKept, HeldKept, SpanElsewhere DEF CreateRow
<1>11. CASE EnrichRow(w)
  <2>1. RowsSafe
    BY <1>3, <1>11, UpsertSafe DEF EnrichRow
  <2>2. QED
    BY <1>11, <2>1, BarsKept, HeldKept, SpanElsewhere DEF EnrichRow
<1>12. CASE RereadRow(w)
  <2>1. sym[w] \in Symbol
    BY <1>12 DEF RereadRow, TypeInv, SymKnown, OnSymbol
  <2>2. PICK h \in {Record(sym[w]), Nothing} : Resolved(w, h)
    BY <1>12 DEF RereadRow
  <2>3. \A s \in DOMAIN h : Landed(h[s], s)
    BY <1>4, <1>7, <2>1, <2>2
  <2>4. QED
    BY <1>6, <1>12, <2>2, <2>3 DEF RereadRow
<1>13. CASE UpsertRecord(w)
  <2>1. PICK step \in {"backfill", "bars"} : GoTo(w, step)
    BY <1>13 DEF UpsertRecord
  <2>2. QED
    BY <1>3, <1>4, <1>13, <2>1, UpsertSafe, BarsKept, HoldSafe, SpanElsewhere
    DEF UpsertRecord
<1>14. CASE UpsertDailyBars(w)
  <2>1. BarsGrow
    BY <1>14 DEF UpsertDailyBars, BarsGrow, TypeInv, TypeOK
  <2>2. QED
    BY <1>4, <1>14, <2>1, RowsKept, HoldSafe, SpanElsewhere DEF UpsertDailyBars
<1>15. CASE UpdateCoverage(w)
  <2>1. RowsSafe
    BY <1>15 DEF UpdateCoverage, RowsSafe, LandedInv, CoverageLanded, SpanLanded, Listed
  <2>2. \A v \in Worker : v # w => sym'[v] = sym[v] /\ span'[v] = span[v]
    BY <1>15 DEF UpdateCoverage, TypeInv, TypeOK
  <2>3. QED
    BY <1>15, <2>1, <2>2, BarsKept, HeldKept, SpanElsewhere DEF UpdateCoverage
<1>16. CASE NoDailyBars(w)
  <2>1. PICK step \in {"reload", "next"} : GoTo(w, step)
    BY <1>16 DEF NoDailyBars
  <2>2. QED
    BY <1>16, <2>1, RowsKept, BarsKept, HeldKept, SpanElsewhere DEF NoDailyBars
<1>17. CASE Reload(w)
  <2>1. PICK step \in {"next", "resolve"} : GoTo(w, step)
    BY <1>17 DEF Reload
  <2>2. QED
    BY <1>17, <2>1, RowsKept, BarsKept, HeldKept, SpanElsewhere DEF Reload
<1>18. CASE SelectCoverage(w)
  <2>1. sym[w] \in Symbol
    BY <1>18 DEF SelectCoverage, TypeInv, SymKnown, OnSymbol
  <2>2. Landed(Span(bars[sym[w]]), sym[w])
    BY <2>1, SpanLandedNow
  <2>3. SpanSafe
    BY <1>18, <2>2
    DEF SelectCoverage, SpanSafe, GoTo, TypeInv, TypeOK, LandedInv, SpanLanded
  <2>4. QED
    BY <1>18, <2>3, RowsKept, BarsKept, HeldKept DEF SelectCoverage
<1>19. CASE CompareSnapshot(w)
  <2>1. CASE UNCHANGED held /\ GoTo(w, "backfill")
    BY <1>19, <2>1, RowsKept, BarsKept, HeldKept, SpanElsewhere DEF CompareSnapshot
  <2>2. CASE GoTo(w, "summaries") /\ \E S \in SUBSET Symbol : Hold(w, Live(S))
    BY <1>19, <2>2, LiveLanded, RowsKept, BarsKept, HoldSafe, SpanElsewhere
    DEF CompareSnapshot
  <2>3. QED
    BY <1>19, <2>1, <2>2 DEF CompareSnapshot, Snapshot
<1>20. CASE BuildSyncCandidates(w)
  BY <1>20, RowsKept, BarsKept, HeldKept, SpanElsewhere DEF BuildSyncCandidates
<1>21. CASE NextSymbol(w)
  <2>1. CASE Reset({w})
    BY <1>21, <2>1, ResetSafe, RowsKept, BarsKept DEF NextSymbol
  <2>2. CASE ~Reset({w})
    <3>1. \A v \in Worker : v # w => sym'[v] = sym[v] /\ span'[v] = span[v]
      BY <1>21, <2>2 DEF NextSymbol, TypeInv, TypeOK
    <3>2. QED
      BY <1>4, <1>21, <2>2, <3>1, RowsKept, BarsKept, HoldSafe, SpanElsewhere
      DEF NextSymbol
  <2>3. QED
    BY <2>1, <2>2
<1>22. QED
  BY <1>1, <1>2, <1>5, <1>8, <1>9, <1>10, <1>11, <1>12, <1>13, <1>14, <1>15, <1>16,
     <1>17, <1>18, <1>19, <1>20, <1>21 DEF Step

\* The remaining steps of threads, processes and faults.
LEMMA OtherSafe ==
  ASSUME TypeInv, LandedInv,
         \/ \E r \in Refresh : ThreadStep(r)
         \/ \E w \in Request : HandleRequest(w)
         \/ \E w \in Cli : SyncMarketData(w)
         \/ \E w \in Worker : DeleteSymbols(w) \/ BackfillCoverage(w) \/ Raise(w)
         \/ CrashServer
         \/ Midnight
  PROVE  SafeStep
<1> USE DEF SafeStep, table, flags
<1>1. ASSUME NEW r \in Refresh, MaybeScheduleMarketRefresh(r) PROVE SafeStep
  BY <1>1, RowsKept, BarsKept, HeldKept, SpanElsewhere
  DEF Worker, MaybeScheduleMarketRefresh
<1>1a. ASSUME NEW r \in Refresh, SpawnRefreshThread(r) PROVE SafeStep
  <2>1. CASE Reset({r}) /\ UNCHANGED table
    BY <2>1, ResetSafe, RowsKept, BarsKept
  <2>2. CASE GoTo(r, "preflight") /\ UNCHANGED <<flags, job, sym, held, span, todo, table>>
    BY <2>2, RowsKept, BarsKept, HeldKept, SpanElsewhere DEF Worker
  <2>3. QED
    BY <1>1a, <2>1, <2>2 DEF SpawnRefreshThread
<1>2. ASSUME NEW r \in Refresh, NEW success \in BOOLEAN, Finish(r, success), UNCHANGED table
      PROVE  SafeStep
  BY <1>2, ResetSafe, RowsKept, BarsKept DEF Finish
<1>3. ASSUME NEW r \in Refresh, Preflight(r) PROVE SafeStep
  <2>1. CASE \E success \in BOOLEAN : Finish(r, success) /\ UNCHANGED table
    BY <1>2, <2>1
  <2>2. CASE GoTo(r, "fetch") /\ UNCHANGED <<flags, job, sym, held, span, todo, table>>
    BY <2>2, RowsKept, BarsKept, HeldKept, SpanElsewhere DEF Worker
  <2>3. QED
    BY <1>3, <2>1, <2>2 DEF Preflight
<1>4. ASSUME NEW r \in Refresh, Seal(r) PROVE SafeStep
  BY <1>2, <1>4 DEF Seal
<1>5. ASSUME NEW w \in Request, HandleRequest(w) PROVE SafeStep
  <2>1. \A v \in Worker : v # w => sym'[v] = sym[v] /\ span'[v] = span[v]
    BY <1>5 DEF HandleRequest, TypeInv, TypeOK
  <2>2. QED
    BY <1>5, <2>1, RowsKept, BarsKept, HeldKept, SpanElsewhere DEF Worker, HandleRequest
<1>6. ASSUME NEW w \in Cli, SyncMarketData(w) PROVE SafeStep
  <2>1. \A v \in Worker : v # w => sym'[v] = sym[v] /\ span'[v] = span[v]
    BY <1>6 DEF SyncMarketData, TypeInv, TypeOK
  <2>2. PICK step \in {"compare", "resolve"} : GoTo(w, step)
    BY <1>6 DEF SyncMarketData
  <2>3. QED
    BY <1>6, <2>1, <2>2, RowsKept, BarsKept, HeldKept, SpanElsewhere
    DEF Worker, SyncMarketData
<1>7. ASSUME NEW w \in Worker, DeleteSymbols(w) PROVE SafeStep
  <2>1. RowsSafe
    BY <1>7 DEF DeleteSymbols, RowsSafe
  <2>2. QED
    BY <1>7, <2>1, BarsKept, HeldKept, SpanElsewhere DEF DeleteSymbols
<1>8. ASSUME NEW w \in Worker, BackfillCoverage(w) PROVE SafeStep
  <2>1. RowsSafe
    BY <1>8, SpanLandedNow DEF BackfillCoverage, RowsSafe
  <2>2. QED
    BY <1>8, <2>1, BarsKept, HeldKept, SpanElsewhere DEF BackfillCoverage
<1>9. ASSUME NEW w \in Worker, Raise(w) PROVE SafeStep
  <2>1. CASE w \in Refresh /\ Finish(w, FALSE) /\ UNCHANGED table
    BY <1>2, <2>1
  <2>2. CASE Reset({w}) /\ UNCHANGED <<table, flags>>
    BY <2>2, ResetSafe, RowsKept, BarsKept
  <2>3. CASE /\ GoTo(w, "next")
             /\ Hold(w, Nothing)
             /\ span' = [span EXCEPT ![w] = NoCover]
             /\ UNCHANGED <<table, flags, job, sym, todo>>
    <3>1. \A v \in Worker : v # w => sym'[v] = sym[v] /\ span'[v] = span[v]
      BY <2>3 DEF TypeInv, TypeOK
    <3>2. \A s \in DOMAIN Nothing : Landed(Nothing[s], s)
      BY NothingHeld
    <3>3. QED
      BY <2>3, <3>1, <3>2, RowsKept, BarsKept, HoldSafe, SpanElsewhere
  <2>4. QED
    BY <1>9, <2>1, <2>2, <2>3 DEF Raise
<1>10. CASE CrashServer
  BY <1>10, ResetSafe, RowsKept, BarsKept DEF CrashServer
<1>11. CASE Midnight
  BY <1>11, RowsKept, BarsKept, HeldKept
  DEF Midnight, writer, SpanSafe, LandedInv, SpanLanded
<1>12. QED
  BY <1>1, <1>1a, <1>3, <1>4, <1>5, <1>6, <1>7, <1>8, <1>9, <1>10, <1>11 DEF ThreadStep

LEMMA NextLanded == TypeInv /\ LandedInv /\ [Next]_vars => LandedInv'
<1> SUFFICES ASSUME TypeInv, LandedInv, [Next]_vars PROVE LandedInv'
  OBVIOUS
<1>1. CASE Next
  <2>1. TypeInv'
    BY NextType
  <2>2. SafeStep
    BY <1>1, StepSafe, OtherSafe DEF Next
  <2>3. QED
    BY <2>1, <2>2, SafePreserves
<1>2. CASE UNCHANGED vars
  BY <1>2 DEF vars, table, flags, writer, LandedInv, CoverageLanded, HeldLanded,
              SpanLanded, Listed, Landed
<1>3. QED
  BY <1>1, <1>2

LEMMA InitLanded == Init => LandedInv
<1> SUFFICES ASSUME Init PROVE LandedInv
  OBVIOUS
<1>1. CoverageLanded
  BY DEF Init, CoverageLanded, Listed
<1>2. HeldLanded
  BY NothingHeld DEF Init, HeldLanded
<1>3. SpanLanded
  BY DEF Init, SpanLanded
<1>4. QED
  BY <1>1, <1>2, <1>3 DEF LandedInv

\* For any number of symbols, dates, requests, refresh threads and syncs, and
\* whichever of them die: a coverage summary (daily_start_date, daily_end_date)
\* never names a date without a bar in the daily table, although the SELECT and
\* the UPDATE of refresh_symbol_daily_coverage, the read and the write-back of
\* sync_symbol_daily and the three transactions of replace_symbols interleave
\* freely.
THEOREM CoverageSound == Spec => []CoverageLanded
<1>1. LandedInv => CoverageLanded
  BY DEF LandedInv
<1>2. QED
  BY InitType, InitLanded, NextType, NextLanded, <1>1, PTL DEF Spec

-----------------------------------------------------------------------------
(* The refresh flag. *)

\* A refresh thread only checks, fetches and replaces: it never comes to the steps
\* where a request or a sync ends or goes on after an exception.
RefreshPlace == {"idle", "starting", "preflight", "fetch", "delete", "insert", "seal"}
RefreshOnly == \A r \in Refresh : pc[r] \in RefreshPlace /\ job[r] = "none"

FlagInv == FlagHasThread /\ RefreshOnly

\* Requests and syncs touch neither the flag nor the threads.
LEMMA OthersKeepFlag ==
  ASSUME FlagInv, UNCHANGED <<inFlight, stranded>>,
         \A r \in Refresh : pc'[r] = pc[r] /\ job'[r] = job[r]
  PROVE  FlagInv'
BY DEF FlagInv, FlagHasThread, RefreshOnly

LEMMA ThreadGoesOn ==
  ASSUME TypeInv, FlagInv, NEW r \in Refresh, pc[r] # "idle",
         NEW step \in RefreshPlace \ {"idle"}, GoTo(r, step), UNCHANGED <<inFlight, stranded, job>>
  PROVE  FlagInv'
BY DEF TypeInv, TypeOK, Worker, FlagInv, FlagHasThread, RefreshOnly, GoTo

LEMMA ThreadEnds ==
  ASSUME FlagInv, NEW r \in Refresh, pc[r] # "idle",
         NEW success \in BOOLEAN, Finish(r, success)
  PROVE  FlagInv'
BY DEF FlagInv, FlagHasThread, RefreshOnly, RefreshPlace, Finish, Reset, Worker

\* What a writer does at its own step.
LEMMA StepIsLocal ==
  ASSUME TypeInv, NEW w \in Worker, w \notin Refresh, Step(w)
  PROVE  UNCHANGED <<inFlight, stranded>> /\ \A v \in Worker : v # w => pc'[v] = pc[v] /\ job'[v] = job[v]
<1> USE DEF TypeInv, TypeOK, GoTo, Reset, table, flags
<1>1. CASE FetchMarketSnapshot(w)
  BY <1>1 DEF FetchMarketSnapshot, Fetched
<1>2. CASE ReadSummaries(w) \/ InsertSymbols(w) \/ UpsertRecord(w)
  BY <1>2 DEF ReadSummaries, InsertSymbols, UpsertRecord
<1>3. CASE ResolveSymbol(w) \/ SearchSymbols(w) \/ RereadRow(w)
  BY <1>3 DEF ResolveSymbol, SearchSymbols, RereadRow, Resolved
<1>4. CASE CreateRow(w) \/ EnrichRow(w)
  BY <1>4 DEF CreateRow, EnrichRow
<1>5. CASE UpsertDailyBars(w) \/ UpdateCoverage(w) \/ SelectCoverage(w)
  BY <1>5 DEF UpsertDailyBars, UpdateCoverage, SelectCoverage
<1>6. CASE NoDailyBars(w) \/ Reload(w) \/ CompareSnapshot(w)
  BY <1>6 DEF NoDailyBars, Reload, CompareSnapshot
<1>7. CASE BuildSyncCandidates(w) \/ NextSymbol(w)
  BY <1>7 DEF BuildSyncCandidates, NextSymbol
<1>8. QED
  BY <1>1, <1>2, <1>3, <1>4, <1>5, <1>6, <1>7 DEF Step

\* A refresh thread takes part in two of these steps only.
LEMMA ThreadSteps ==
  ASSUME FlagInv, NEW r \in Refresh, Step(r)
  PROVE  FetchMarketSnapshot(r) \/ InsertSymbols(r)
<1>1. pc[r] \in RefreshPlace
  BY DEF FlagInv, RefreshOnly
<1>2. ~(ReadSummaries(r) \/ ResolveSymbol(r) \/ SearchSymbols(r) \/ CreateRow(r) \/ EnrichRow(r))
  BY <1>1 DEF RefreshPlace, ReadSummaries, ResolveSymbol, SearchSymbols, CreateRow, EnrichRow
<1>3. ~(RereadRow(r) \/ UpsertRecord(r) \/ UpsertDailyBars(r) \/ UpdateCoverage(r) \/ NoDailyBars(r))
  BY <1>1 DEF RefreshPlace, RereadRow, UpsertRecord, UpsertDailyBars, UpdateCoverage, NoDailyBars
<1>4. ~(Reload(r) \/ SelectCoverage(r) \/ CompareSnapshot(r) \/ BuildSyncCandidates(r) \/ NextSymbol(r))
  BY <1>1 DEF RefreshPlace, Reload, SelectCoverage, CompareSnapshot, BuildSyncCandidates, NextSymbol
<1>5. QED
  BY <1>2, <1>3, <1>4 DEF Step

LEMMA NextFlag == TypeInv /\ FlagInv /\ [Next]_vars => FlagInv'
<1> SUFFICES ASSUME TypeInv, FlagInv, [Next]_vars PROVE FlagInv'
  OBVIOUS
<1> USE DEF table, flags
<1>1. ASSUME NEW w \in Worker, Step(w) PROVE FlagInv'
  <2>1. CASE w \notin Refresh
    <3>1. \A r \in Refresh : pc'[r] = pc[r] /\ job'[r] = job[r]
      BY <1>1, <2>1, StepIsLocal DEF Worker
    <3>2. UNCHANGED <<inFlight, stranded>>
      BY <1>1, <2>1, StepIsLocal
    <3>3. QED
      BY <3>1, <3>2, OthersKeepFlag
  <2>2. CASE w \in Refresh /\ FetchMarketSnapshot(w)
    <3>1. pc[w] # "idle" /\ "delete" \in RefreshPlace \ {"idle"}
      BY <2>2 DEF FetchMarketSnapshot, RefreshPlace
    <3>2. CASE Finish(w, FALSE)
      BY <2>2, <3>1, <3>2, ThreadEnds
    <3>3. CASE GoTo(w, "delete") /\ UNCHANGED <<inFlight, stranded, job>>
      BY <2>2, <3>1, <3>3, ThreadGoesOn
    <3>4. QED
      BY <2>2, <3>2, <3>3 DEF FetchMarketSnapshot, Fetched
  <2>3. CASE w \in Refresh /\ InsertSymbols(w)
    <3>1. pc[w] # "idle" /\ "seal" \in RefreshPlace \ {"idle"}
      BY <2>3 DEF InsertSymbols, RefreshPlace
    <3>2. GoTo(w, "seal") /\ UNCHANGED <<inFlight, stranded, job>>
      BY <2>3 DEF InsertSymbols
    <3>3. QED
      BY <2>3, <3>1, <3>2, ThreadGoesOn
  <2>4. QED
    BY <1>1, <2>1, <2>2, <2>3, ThreadSteps
<1>2. ASSUME NEW r \in Refresh, MaybeScheduleMarketRefresh(r) PROVE FlagInv'
  BY <1>2 DEF MaybeScheduleMarketRefresh, GoTo, TypeInv, TypeOK, Worker,
              FlagInv, FlagHasThread, RefreshOnly, RefreshPlace
<1>2a. ASSUME NEW r \in Refresh, SpawnRefreshThread(r) PROVE FlagInv'
  <2>1. pc[r] # "idle" /\ "preflight" \in RefreshPlace \ {"idle"}
    BY <1>2a DEF SpawnRefreshThread, RefreshPlace
  <2>2. CASE GoTo(r, "preflight") /\ UNCHANGED <<inFlight, stranded, job>>
    BY <2>1, <2>2, ThreadGoesOn
  <2>3. CASE stranded' = TRUE /\ Reset({r}) /\ UNCHANGED inFlight
    BY <2>1, <2>3 DEF Reset, Worker, FlagInv, FlagHasThread, RefreshOnly, RefreshPlace
  <2>4. QED
    BY <1>2a, <2>2, <2>3 DEF SpawnRefreshThread
<1>3. ASSUME NEW r \in Refresh, Preflight(r) PROVE FlagInv'
  <2>1. pc[r] # "idle" /\ "fetch" \in RefreshPlace \ {"idle"}
    BY <1>3 DEF Preflight, RefreshPlace
  <2>2. CASE \E success \in BOOLEAN : Finish(r, success)
    BY <2>1, <2>2, ThreadEnds
  <2>3. CASE GoTo(r, "fetch") /\ UNCHANGED <<inFlight, stranded, job>>
    BY <2>1, <2>3, ThreadGoesOn
  <2>4. QED
    BY <1>3, <2>2, <2>3 DEF Preflight
<1>4. ASSUME NEW r \in Refresh, Seal(r) PROVE FlagInv'
  BY <1>4, ThreadEnds DEF Seal
<1>5. ASSUME NEW w \in Worker \ Refresh, UNCHANGED <<inFlight, stranded>>,
             \A v \in Worker : v # w => pc'[v] = pc[v] /\ job'[v] = job[v]
      PROVE  FlagInv'
  BY <1>5, OthersKeepFlag DEF Worker
<1>6. ASSUME NEW w \in Request, HandleRequest(w) PROVE FlagInv'
  BY <1>5, <1>6, WorkerAssumption DEF HandleRequest, GoTo, TypeInv, TypeOK, Worker
<1>7. ASSUME NEW w \in Cli, SyncMarketData(w) PROVE FlagInv'
  BY <1>5, <1>7, WorkerAssumption DEF SyncMarketData, GoTo, TypeInv, TypeOK, Worker
<1>8. ASSUME NEW w \in Worker, DeleteSymbols(w) PROVE FlagInv'
  <2>1. pc[w] # "idle" /\ "insert" \in RefreshPlace \ {"idle"}
    BY <1>8 DEF DeleteSymbols, RefreshPlace
  <2>2. GoTo(w, "insert") /\ UNCHANGED <<inFlight, stranded, job>>
    BY <1>8 DEF DeleteSymbols
  <2>3. CASE w \in Refresh
    BY <2>1, <2>2, <2>3, ThreadGoesOn
  <2>4. CASE w \notin Refresh
    BY <1>5, <2>2, <2>4 DEF GoTo, TypeInv, TypeOK
  <2>5. QED
    BY <2>3, <2>4
<1>9. ASSUME NEW w \in Worker, BackfillCoverage(w) PROVE FlagInv'
  <2>1. w \notin Refresh
    BY <1>9 DEF BackfillCoverage, FlagInv, RefreshOnly, RefreshPlace
  <2>2. QED
    BY <1>5, <1>9, <2>1 DEF BackfillCoverage, GoTo, TypeInv, TypeOK
<1>10. ASSUME NEW w \in Worker, Raise(w) PROVE FlagInv'
  <2>1. CASE w \in Refresh /\ Finish(w, FALSE)
    BY <1>10, <2>1, ThreadEnds DEF Raise
  <2>2. CASE w \notin Refresh /\ UNCHANGED <<inFlight, stranded>>
    BY <1>5, <1>10, <2>2, ZenonT(30) DEF Raise, Reset, GoTo, TypeInv, TypeOK
  <2>3. w \in Refresh => job[w] # "sync"
    BY DEF FlagInv, RefreshOnly
  <2>4. QED
    BY <1>10, <2>1, <2>2, <2>3, WorkerAssumption DEF Raise
<1>11. CASE CrashServer
  BY <1>11 DEF CrashServer, Reset, Worker, FlagInv, FlagHasThread, RefreshOnly, RefreshPlace
<1>12. CASE Midnight \/ UNCHANGED vars
  BY <1>12, OthersKeepFlag DEF Midnight, writer, vars
<1>13. QED
  BY <1>1, <1>2, <1>2a, <1>3, <1>4, <1>6, <1>7, <1>8, <1>9, <1>10, <1>11, <1>12
  DEF Next, ThreadStep

LEMMA InitFlag == Init => FlagInv
BY DEF Init, Worker, FlagInv, FlagHasThread, RefreshOnly, RefreshPlace

\* For any number of requests, threads and processes, with exceptions, failed
\* checks, midnights and restarts: in_flight of SymbolSnapshotRefreshService is set
\* exactly while one refresh thread is alive or about to be started, and never are there
\* two; or one could not be started, and then none is alive.
THEOREM FlagCorrect == Spec => []FlagHasThread
<1>1. FlagInv => FlagHasThread
  BY DEF FlagInv
<1>2. QED
  BY InitType, InitFlag, NextType, NextFlag, <1>1, PTL DEF Spec
-----------------------------------------------------------------------------
(* Explained coverage.  Whoever is alone with a symbol has its row, its bars   *)
(* and what it holds of them in step; two writers at a time leave it in doubt, *)
(* and a backfill dispels the doubt when it is alone with the symbol.          *)

\* A writer is at work on a symbol (Touched, one symbol at a time).
Busy(w, s) == pc[w] \in OnTable \/ (pc[w] \in OnSymbol /\ sym[w] = s)

\* The summary that a symbol has, or would have with a row, is that of its bars.
Fresh(s) == RowCover(s) = Span(bars[s])

\* What a writer knows of a symbol that it is alone with.
InHand(w, s) ==
  /\ pc[w] \notin {"select", "cover", "insert"} => Fresh(s)
  /\ pc[w] \in {"enrich", "record", "delete", "insert"} /\ s \in DOMAIN held[w] =>
       held[w][s] = Span(bars[s])
  /\ pc[w] = "insert" => rows[s] = NoRow /\ (s \in DOMAIN held[w] \/ Fresh(s))
  /\ pc[w] \in {"enrich", "reread", "record", "bars", "select", "cover"} => s \in Listed
  /\ pc[w] = "cover" => span[w] = Span(bars[s])

Hand(w, s) == IF Busy(w, s) THEN InHand(w, s) ELSE Fresh(s)

Sound(s) ==
  /\ \A w \in Worker : Busy(w, s) => InHand(w, s)
  /\ (\A w \in Worker : ~Busy(w, s)) => Fresh(s)

\* Two writers at once leave a symbol in doubt.
SharedDoubt ==
  \A s \in Symbol : \A v, w \in Worker : v # w /\ Busy(v, s) /\ Busy(w, s) => s \in excused

\* A record in memory is of the symbol that its writer works on.
OwnRecord == \A w \in Worker : pc[w] \in {"enrich", "record"} => DOMAIN held[w] \subseteq {sym[w]}

DoubtInv == SharedDoubt /\ OwnRecord /\ \A s \in Symbol : s \notin excused => Sound(s)

LEMMA BusyIs ==
  ASSUME NEW w, NEW s \in Symbol
  PROVE  /\ s \in Touched(w) <=> Busy(w, s)
         /\ s \in Touched(w)' <=> Busy(w, s)'
<1>1. OnTable \cap OnSymbol = {}
  BY DEF OnTable, OnSymbol
<1>2. /\ pc[w] \in OnTable => Touched(w) = Symbol
      /\ pc[w] \in OnSymbol => Touched(w) = {sym[w]}
      /\ pc[w] \notin OnTable /\ pc[w] \notin OnSymbol => Touched(w) = {}
  BY <1>1 DEF Touched
<1>3. /\ pc'[w] \in OnTable => Touched(w)' = Symbol
      /\ pc'[w] \in OnSymbol => Touched(w)' = {sym'[w]}
      /\ pc'[w] \notin OnTable /\ pc'[w] \notin OnSymbol => Touched(w)' = {}
  BY <1>1 DEF Touched
<1>4. QED
  BY <1>2, <1>3 DEF Busy

\* A set with two elements has more than one.
LEMMA TwoAreMany ==
  ASSUME NEW S, IsFiniteSet(S), NEW x \in S, NEW y \in S, x # y
  PROVE  Cardinality(S) > 1
<1>1. {x, y} \subseteq S
  OBVIOUS
<1>2. Cardinality({x, y}) = 2
  <2>1. IsFiniteSet({x}) /\ Cardinality({x}) = 1
    BY FS_Singleton
  <2>2. Cardinality({x} \cup {y}) = Cardinality({x}) + 1
    BY <2>1, FS_AddElement
  <2>3. {x} \cup {y} = {x, y}
    OBVIOUS
  <2>4. QED
    BY <2>1, <2>2, <2>3
<1>3. Cardinality({x, y}) <= Cardinality(S) /\ Cardinality(S) \in Nat
  BY <1>1, FS_Subset, FS_CardinalityType
<1>4. QED
  BY <1>2, <1>3

\* Excuse puts a symbol with two writers in doubt.
LEMMA ExcuseShares ==
  ASSUME NEW fixed, NEW broken, Excuse(fixed, broken)
  PROVE  SharedDoubt'
<1> SUFFICES ASSUME NEW s \in Symbol, NEW v \in Worker, NEW w \in Worker,
                    v # w, Busy(v, s)', Busy(w, s)'
             PROVE  s \in excused'
  BY DEF SharedDoubt
<1> DEFINE W == {u \in Worker : s \in Touched(u)'}
<1>1. v \in W /\ w \in W
  BY BusyIs
<1>2. IsFiniteSet(W)
  BY WorkerAssumption, FS_Subset
<1>3. Cardinality(W) > 1
  <2> HIDE DEF W
  <2>1. QED
    BY <1>1, <1>2, TwoAreMany
<1>4. s \in Overlap'
  BY <1>3 DEF Overlap
<1>5. QED
  BY <1>4 DEF Excuse

\* A doubt that a step dispels was of a symbol with one writer at most.
LEMMA ExcuseFixes ==
  ASSUME NEW fixed, NEW broken, Excuse(fixed, broken), NEW s \in Symbol, s \notin excused'
  PROVE  /\ s \notin broken
         /\ s \in excused => s \in fixed /\ \A v, w \in Worker : Busy(v, s) /\ Busy(w, s) => v = w
<1>1. s \notin broken /\ (s \in excused => s \in fixed /\ s \notin Overlap)
  BY DEF Excuse
<1>2. ASSUME s \notin Overlap, NEW v \in Worker, NEW w \in Worker, Busy(v, s), Busy(w, s), v # w
      PROVE  FALSE
  <2> DEFINE W == {u \in Worker : s \in Touched(u)}
  <2>1. v \in W /\ w \in W
    BY <1>2, BusyIs
  <2>2. IsFiniteSet(W)
    BY WorkerAssumption, FS_Subset
  <2>3. Cardinality(W) > 1
    <3> HIDE DEF W
    <3>1. QED
      BY <1>2, <2>1, <2>2, TwoAreMany
  <2>4. QED
    BY <1>2, <2>3 DEF Overlap
<1>3. QED
  BY <1>1, <1>2

\* A step of one writer, on one symbol.
Others(w) == \A v \in Worker : v # w => /\ pc'[v] = pc[v] /\ sym'[v] = sym[v]
                                        /\ held'[v] = held[v] /\ span'[v] = span[v]

HandKept(w, s) ==
  IF Busy(w, s) \/ Busy(w, s)'
    THEN Hand(w, s) => Hand(w, s)'
    ELSE rows'[s] = rows[s] /\ bars'[s] = bars[s]

LEMMA WriterStep ==
  ASSUME SharedDoubt, SharedDoubt', NEW w \in Worker, Others(w),
         NEW s \in Symbol, s \notin excused, s \notin excused', Sound(s), HandKept(w, s)
  PROVE  Sound(s)'
<1>1. \A v \in Worker : v # w => (Busy(v, s)' <=> Busy(v, s))
  BY DEF Others, Busy
<1>2. CASE Busy(w, s) \/ Busy(w, s)'
  <2>1. \A v \in Worker : v # w => ~Busy(v, s) /\ ~Busy(v, s)'
    BY <1>1, <1>2 DEF SharedDoubt
  <2>2. Hand(w, s)
    BY <2>1 DEF Sound, Hand
  <2>3. Hand(w, s)'
    BY <1>2, <2>2 DEF HandKept
  <2>4. QED
    BY <2>1, <2>3 DEF Sound, Hand
<1>3. CASE ~Busy(w, s) /\ ~Busy(w, s)'
  <2>1. rows'[s] = rows[s] /\ bars'[s] = bars[s]
    BY <1>3 DEF HandKept
  <2>2. Fresh(s)' <=> Fresh(s)
    BY <2>1 DEF Fresh, RowCover
  <2>3. ASSUME NEW v \in Worker, Busy(v, s)' PROVE InHand(v, s)'
    <3>1. v # w /\ Busy(v, s)
      BY <1>1, <1>3, <2>3
    <3>2. InHand(v, s)
      BY <3>1 DEF Sound
    <3>3. pc'[v] = pc[v] /\ held'[v] = held[v] /\ span'[v] = span[v]
      BY <3>1 DEF Others
    <3>4. s \in Listed' <=> s \in Listed
      BY <2>1 DEF Listed
    <3>5. QED
      BY <2>1, <2>2, <3>2, <3>3, <3>4 DEF InHand
  <2>4. (\A v \in Worker : ~Busy(v, s)') => Fresh(s)'
    BY <1>1, <1>3, <2>2 DEF Sound
  <2>5. QED
    BY <2>3, <2>4 DEF Sound
<1>4. QED
  BY <1>2, <1>3

LEMMA CoverFacts ==
  ASSUME TypeOK, NEW s \in Symbol
  PROVE  Span(bars[s]) # NoRow /\ RowCover(s) # NoRow
<1>1. Span(bars[s]) \in CoverOrNone
  BY SpanOfDates DEF TypeOK
<1>2. QED
  BY <1>1, RowCoverType, RowAssumption

\* upsert_symbols of summaries that are right, of rows that are right or gone.
LEMMA UpsertFresh ==
  ASSUME TypeOK, NEW h, UpsertSymbols(h), NEW s \in Symbol, bars'[s] = bars[s],
         s \in DOMAIN h => h[s] = Span(bars[s]),
         Fresh(s) \/ (s \in DOMAIN h /\ rows[s] = NoRow)
  PROVE  Fresh(s)' /\ (s \in DOMAIN h \/ s \in Listed => s \in Listed')
<1>1. Span(bars[s]) # NoRow /\ RowCover(s) # NoRow
  BY CoverFacts
<1>2. rows'[s] = IF s \notin DOMAIN h THEN rows[s]
                 ELSE IF h[s] = NoCover THEN RowCover(s) ELSE h[s]
  BY DEF UpsertSymbols
<1>3. CASE s \notin DOMAIN h
  BY <1>2, <1>3 DEF Fresh, RowCover, Listed
<1>4. CASE s \in DOMAIN h /\ h[s] # NoCover
  BY <1>1, <1>2, <1>4 DEF Fresh, RowCover, Listed
<1>5. CASE s \in DOMAIN h /\ h[s] = NoCover
  <2>1. RowCover(s) = NoCover
    BY <1>5 DEF Fresh, RowCover
  <2>2. rows'[s] = NoCover /\ NoCover # NoRow
    BY <1>1, <1>2, <1>5, <2>1
  <2>3. QED
    BY <1>5, <2>2 DEF Fresh, RowCover, Listed
<1>6. QED
  BY <1>3, <1>4, <1>5

\* A row that is created knows no summary and forgets none.
LEMMA CreateFresh ==
  ASSUME TypeOK, NEW t \in Symbol, UpsertSymbols(Live({t})), NEW s \in Symbol, UNCHANGED bars
  PROVE  /\ Fresh(s) => Fresh(s)'
         /\ s = t => s \in Listed'
         /\ s # t => rows'[s] = rows[s]
<1>1. RowCover(s) # NoRow
  BY CoverFacts
<1>2. DOMAIN Live({t}) = {t} /\ Live({t})[t] = NoCover
  BY DEF Live
<1>3. rows'[s] = IF s # t THEN rows[s] ELSE RowCover(s)
  BY <1>2 DEF UpsertSymbols
<1>4. QED
  BY <1>1, <1>3 DEF Fresh, RowCover, Listed

LEMMA StepOthers ==
  ASSUME TypeInv, NEW w \in Worker, Step(w)
  PROVE  Others(w)
<1> USE DEF TypeInv, TypeOK, GoTo, Hold, Others
<1>1. ASSUME NEW W, Reset(W), W = {w} PROVE Others(w)
  BY <1>1 DEF Reset
<1>2. CASE FetchMarketSnapshot(w)
  BY <1>1, <1>2 DEF FetchMarketSnapshot, Fetched, Finish
<1>3. CASE ReadSummaries(w) \/ InsertSymbols(w)
  BY <1>3 DEF ReadSummaries, InsertSymbols
<1>4. CASE ResolveSymbol(w) \/ SearchSymbols(w) \/ RereadRow(w)
  BY <1>4 DEF ResolveSymbol, SearchSymbols, RereadRow, Resolved
<1>5. CASE CreateRow(w) \/ EnrichRow(w) \/ UpsertRecord(w)
  BY <1>5 DEF CreateRow, EnrichRow, UpsertRecord
<1>6. CASE UpsertDailyBars(w) \/ UpdateCoverage(w) \/ NoDailyBars(w)
  BY <1>6 DEF UpsertDailyBars, UpdateCoverage, NoDailyBars
<1>7. CASE Reload(w) \/ SelectCoverage(w) \/ CompareSnapshot(w) \/ BuildSyncCandidates(w)
  BY <1>7 DEF Reload, SelectCoverage, CompareSnapshot, BuildSyncCandidates
<1>8. CASE NextSymbol(w)
  BY <1>1, <1>8 DEF NextSymbol
<1>9. QED
  BY <1>2, <1>3, <1>4, <1>5, <1>6, <1>7, <1>8 DEF Step

\* A writer that stops between two steps for a symbol is at work on none.
LEMMA ResetHand ==
  ASSUME NEW w \in Worker, Reset({w}), NEW s \in Symbol, UNCHANGED <<rows, bars>>,
         s \notin Halfway(w)
  PROVE  HandKept(w, s)
<1>1. ~Busy(w, s)'
  BY DEF Reset, Busy, OnTable, OnSymbol
<1>2. Busy(w, s) => pc[w] \notin {"insert", "select", "cover"}
  BY DEF Busy, Halfway, OnTable, OnSymbol
<1>3. Fresh(s)' <=> Fresh(s)
  BY DEF Fresh, RowCover
<1>4. QED
  BY <1>1, <1>2, <1>3 DEF HandKept, Hand, InHand

\* A writer that goes on to a step elsewhere, or to one where it must only know that
\* the summary is right, with the tables as they are.
LEMMA MoveHand ==
  ASSUME TypeInv, NEW w \in Worker, NEW s \in Symbol, UNCHANGED <<rows, bars>>,
         pc[w] \notin {"select", "cover", "insert"}, sym'[w] = sym[w] \/ ~Busy(w, s),
         pc'[w] \notin {"enrich", "record", "delete", "insert", "reread", "bars", "select", "cover"}
  PROVE  HandKept(w, s)
<1>1. Fresh(s)' <=> Fresh(s)
  BY DEF Fresh, RowCover
<1>2. QED
  BY <1>1 DEF HandKept, Hand, InHand

\* The record that resolve_symbol has found, or none.
LEMMA ResolvedHand ==
  ASSUME TypeInv, NEW w \in Worker, pc[w] \in OnSymbol, UNCHANGED <<rows, bars, sym>>,
         pc[w] \notin {"select", "cover", "insert"}, NEW h, Hold(w, h),
         NEW step, GoTo(w, step), step \in {"next", "bars", "record", "enrich"},
         NEW s \in Symbol,
         \/ sym[w] \in Listed /\ h = Record(sym[w])
         \/ sym[w] = s => s \notin Listed /\ pc[w] = "reread"
  PROVE  HandKept(w, s)
<1>1. pc'[w] = step /\ held'[w] = h
  BY DEF TypeInv, TypeOK, GoTo, Hold
<1>2. Fresh(s)' <=> Fresh(s)
  BY DEF Fresh, RowCover
<1>3. s \in Listed' <=> s \in Listed
  BY DEF Listed
<1>4. step \notin OnTable /\ pc[w] \notin OnTable /\ (step \in OnSymbol <=> step # "next")
  BY DEF OnTable, OnSymbol
<1>5. CASE sym[w] # s
  BY <1>1, <1>4, <1>5 DEF HandKept, Busy
<1>6. CASE sym[w] = s /\ s \in Listed /\ h = Record(s)
  <2>1. \A t \in DOMAIN h : t = s /\ h[t] = RowCover(s)
    BY <1>6 DEF Record
  <2>2. QED
    BY <1>1, <1>2, <1>3, <1>4, <1>6, <2>1 DEF HandKept, Hand, InHand, Busy, Fresh
<1>7. CASE sym[w] = s /\ s \notin Listed /\ pc[w] = "reread"
  BY <1>4, <1>7 DEF HandKept, Hand, InHand, Busy
<1>8. QED
  BY <1>5, <1>6, <1>7

LEMMA StepHand ==
  ASSUME TypeInv, OwnRecord, NEW w \in Worker, Step(w), NEW s \in Symbol
  PROVE  HandKept(w, s)
<1>0. /\ pc \in [Worker -> Place] /\ held \in [Worker -> Held] /\ span \in [Worker -> CoverOrNone]
      /\ sym \in [Worker -> Symbol \cup {NoSymbol}] /\ bars \in [Symbol -> SUBSET Date] /\ TypeOK
  BY DEF TypeInv, TypeOK
<1>A. ASSUME UNCHANGED <<rows, bars>> PROVE (Fresh(s)' <=> Fresh(s)) /\ (s \in Listed' <=> s \in Listed)
  BY <1>A DEF Fresh, RowCover, Listed
<1>B. ASSUME Reset({w}), UNCHANGED <<rows, bars>>, pc[w] \notin {"insert", "select", "cover"}
      PROVE  HandKept(w, s)
  <2>1. s \notin Halfway(w)
    BY <1>B DEF Halfway
  <2>2. QED
    BY <1>B, <2>1, ResetHand
<1>1. CASE FetchMarketSnapshot(w)
  <2>1. CASE Fetched(w) /\ UNCHANGED <<table, flags, job, sym, span, todo>>
    <3>1. PICK S \in Snapshot : Hold(w, Summaries(S)) /\ GoTo(w, "delete")
      BY <2>1 DEF Fetched
    <3>2. pc'[w] = "delete" /\ held'[w] = Summaries(S) /\ pc[w] = "fetch"
      BY <1>0, <1>1, <3>1 DEF Hold, GoTo, FetchMarketSnapshot
    <3>3. s \in DOMAIN held'[w] => held'[w][s] = RowCover(s)
      BY <3>2 DEF Summaries
    <3>4. Fresh(s)' <=> Fresh(s)
      BY <2>1, <1>A DEF table
    <3>5. Hand(w, s) => Fresh(s)
      BY <3>2 DEF Hand, InHand
    <3>6. Busy(w, s)' /\ (Fresh(s) => InHand(w, s)')
      BY <2>1, <3>2, <3>3, <3>4 DEF InHand, Fresh, Busy, OnTable, table
    <3>7. QED
      BY <3>5, <3>6 DEF HandKept, Hand
  <2>2. CASE Finish(w, FALSE) /\ UNCHANGED table
    BY <1>1, <2>2, <1>B DEF Finish, FetchMarketSnapshot, table
  <2>3. CASE GoTo(w, "rematch") /\ UNCHANGED <<table, flags, job, sym, held, span, todo>>
    BY <1>0, <1>1, <2>3, MoveHand DEF FetchMarketSnapshot, GoTo, table
  <2>4. QED
    BY <1>1, <2>1, <2>2, <2>3 DEF FetchMarketSnapshot
<1>2. CASE ReadSummaries(w)
  <2>1. /\ pc[w] = "summaries" /\ pc'[w] = "delete" /\ held'[w] = Summaries(DOMAIN held[w])
        /\ UNCHANGED <<rows, bars>>
    BY <1>0, <1>2 DEF ReadSummaries, Hold, GoTo, table
  <2>2. s \in DOMAIN held'[w] => held'[w][s] = RowCover(s)
    BY <2>1 DEF Summaries
  <2>3. Fresh(s)' <=> Fresh(s)
    BY <2>1, <1>A
  <2>4. QED
    BY <2>1, <2>2, <2>3 DEF HandKept, Hand, InHand, Fresh, Busy, OnTable
<1>3. CASE InsertSymbols(w)
  <2>1. /\ pc[w] = "insert" /\ pc'[w] \in {"seal", "backfill", "rematch"} /\ bars' = bars
        /\ UpsertSymbols(held[w])
    BY <1>0, <1>3 DEF InsertSymbols, GoTo
  <2>2. Busy(w, s)
    BY <2>1 DEF Busy, OnTable
  <2>3. ASSUME InHand(w, s) PROVE Fresh(s)'
    BY <1>0, <2>1, <2>3, UpsertFresh DEF InHand
  <2>4. QED
    BY <2>1, <2>2, <2>3 DEF HandKept, Hand, InHand
<1>4. CASE ResolveSymbol(w)
  <2>1. pc[w] = "resolve" /\ pc[w] \in OnSymbol /\ UNCHANGED <<rows, bars, sym>>
    BY <1>4 DEF ResolveSymbol, OnSymbol, table
  <2>2. CASE sym[w] \in Listed /\ Resolved(w, Record(sym[w]))
    <3>1. PICK step \in {"next", "bars", "record"} : GoTo(w, step)
      BY <2>2 DEF Resolved
    <3>2. QED
      BY <2>1, <2>2, <3>1, ResolvedHand DEF Resolved
  <2>3. CASE sym[w] \in Listed /\ Hold(w, Record(sym[w])) /\ GoTo(w, "enrich")
    BY <2>1, <2>3, ResolvedHand
  <2>4. CASE GoTo(w, "search")
    BY <1>0, <2>1, <2>4, MoveHand DEF GoTo
  <2>5. QED
    BY <1>4, <2>2, <2>3, <2>4 DEF ResolveSymbol
<1>5. CASE SearchSymbols(w)
  <2>1. pc[w] \in {"search", "rematch"} /\ pc[w] \in OnSymbol /\ UNCHANGED <<rows, bars, sym>>
    BY <1>5 DEF SearchSymbols, OnSymbol, table
  <2>2. CASE sym[w] \in Listed /\ Resolved(w, Record(sym[w]))
    <3>1. PICK step \in {"next", "bars", "record"} : GoTo(w, step)
      BY <2>2 DEF Resolved
    <3>2. QED
      BY <2>1, <2>2, <3>1, ResolvedHand DEF Resolved
  <2>3. CASE GoTo(w, IF pc[w] = "search" THEN "fetch" ELSE "create")
    BY <1>0, <2>1, <2>3, MoveHand DEF GoTo
  <2>4. QED
    BY <1>5, <2>2, <2>3 DEF SearchSymbols
<1>6. CASE CreateRow(w)
  <2>1. /\ pc[w] = "create" /\ pc'[w] = "reread" /\ UNCHANGED <<bars, sym>>
        /\ UpsertSymbols(Live({sym[w]})) /\ sym[w] \in Symbol
    BY <1>0, <1>6 DEF CreateRow, GoTo, TypeInv, SymKnown, OnSymbol
  <2>2. /\ Fresh(s) => Fresh(s)'
        /\ s = sym[w] => s \in Listed'
        /\ s # sym[w] => rows'[s] = rows[s]
    BY <1>0, <2>1, CreateFresh
  <2>3. QED
    BY <2>1, <2>2 DEF HandKept, Hand, InHand, Busy, OnTable, OnSymbol
<1>7. CASE EnrichRow(w)
  <2>1. /\ pc[w] = "enrich" /\ pc'[w] = "reread" /\ UNCHANGED <<bars, sym>>
        /\ UpsertSymbols(held[w]) /\ DOMAIN held[w] \subseteq {sym[w]}
    BY <1>0, <1>7 DEF EnrichRow, GoTo, OwnRecord
  <2>2. s # sym[w] => rows'[s] = rows[s]
    BY <2>1 DEF UpsertSymbols
  <2>3. ASSUME s = sym[w], InHand(w, s) PROVE Fresh(s)' /\ s \in Listed'
    BY <1>0, <2>1, <2>3, UpsertFresh DEF InHand
  <2>4. QED
    BY <2>1, <2>2, <2>3 DEF HandKept, Hand, InHand, Busy, OnTable, OnSymbol
<1>8. CASE RereadRow(w)
  <2>1. pc[w] = "reread" /\ pc[w] \in OnSymbol /\ UNCHANGED <<rows, bars, sym>>
    BY <1>8 DEF RereadRow, OnSymbol, table
  <2>2. PICK step \in {"next", "bars", "record"} : GoTo(w, step)
    BY <1>8 DEF RereadRow, Resolved
  <2>3. CASE sym[w] \in Listed
    BY <1>8, <2>1, <2>2, <2>3, ResolvedHand DEF RereadRow, Resolved
  <2>4. CASE sym[w] \notin Listed
    BY <1>8, <2>1, <2>2, <2>4, ResolvedHand DEF RereadRow, Resolved
  <2>5. QED
    BY <2>3, <2>4
<1>9. CASE UpsertRecord(w)
  <2>1. /\ pc[w] = "record" /\ pc'[w] \in {"backfill", "bars"} /\ UNCHANGED <<bars, sym>>
        /\ UpsertSymbols(held[w]) /\ DOMAIN held[w] \subseteq {sym[w]}
    BY <1>0, <1>9 DEF UpsertRecord, GoTo, OwnRecord
  <2>2. s # sym[w] => rows'[s] = rows[s]
    BY <2>1 DEF UpsertSymbols
  <2>3. ASSUME s = sym[w], InHand(w, s) PROVE Fresh(s)' /\ s \in Listed'
    BY <1>0, <2>1, <2>3, UpsertFresh DEF InHand
  <2>4. s # sym[w] => (Fresh(s)' <=> Fresh(s))
    BY <2>1, <2>2 DEF Fresh, RowCover
  <2>5. QED
    BY <2>1, <2>2, <2>3, <2>4 DEF HandKept, Hand, InHand, Busy, OnTable, OnSymbol
<1>10. CASE UpsertDailyBars(w)
  <2>1. /\ pc[w] = "bars" /\ pc'[w] = "select" /\ UNCHANGED <<rows, sym>>
        /\ s # sym[w] => bars'[s] = bars[s]
    BY <1>0, <1>10 DEF UpsertDailyBars, GoTo
  <2>2. QED
    BY <2>1 DEF HandKept, Hand, InHand, Busy, OnTable, OnSymbol, Listed
<1>11. CASE UpdateCoverage(w)
  <2>1. /\ pc[w] = "cover" /\ pc'[w] = "next" /\ UNCHANGED <<bars, sym>>
        /\ rows'[s] = IF s = sym[w] /\ s \in Listed THEN span[w] ELSE rows[s]
    BY <1>0, <1>11 DEF UpdateCoverage, GoTo
  <2>2. Span(bars[s]) # NoRow
    BY <1>0, CoverFacts
  <2>3. QED
    BY <2>1, <2>2 DEF HandKept, Hand, InHand, Fresh, RowCover, Busy, OnTable, OnSymbol
<1>12. CASE NoDailyBars(w) \/ Reload(w)
  <2>1. /\ pc[w] \in {"bars", "reload"} /\ pc'[w] \in {"reload", "next", "resolve"}
        /\ UNCHANGED <<rows, bars, sym>>
    BY <1>0, <1>12 DEF NoDailyBars, Reload, GoTo, table
  <2>2. QED
    BY <2>1, MoveHand
<1>13. CASE SelectCoverage(w)
  <2>1. /\ pc[w] = "select" /\ pc'[w] = "cover" /\ UNCHANGED <<rows, bars, sym>>
        /\ span'[w] = Span(bars[sym[w]])
    BY <1>0, <1>13 DEF SelectCoverage, GoTo, table
  <2>2. QED
    BY <2>1 DEF HandKept, Hand, InHand, Busy, OnTable, OnSymbol, Listed
<1>14. CASE CompareSnapshot(w) \/ BuildSyncCandidates(w)
  <2>1. /\ pc[w] \in {"compare", "plan"} /\ pc'[w] \in {"summaries", "backfill", "next"}
        /\ UNCHANGED <<rows, bars, sym>>
    BY <1>0, <1>14 DEF CompareSnapshot, BuildSyncCandidates, GoTo, table
  <2>2. QED
    BY <2>1, MoveHand
<1>15. CASE NextSymbol(w)
  <2>1. CASE Reset({w})
    BY <1>15, <2>1, <1>B DEF NextSymbol, table
  <2>2. CASE ~Reset({w})
    <3>1. pc[w] = "next" /\ pc'[w] = "resolve" /\ UNCHANGED <<rows, bars>>
      BY <1>0, <1>15, <2>2 DEF NextSymbol, GoTo, table
    <3>2. ~Busy(w, s)
      BY <3>1 DEF Busy, OnTable, OnSymbol
    <3>3. QED
      BY <3>1, <3>2, MoveHand
  <2>3. QED
    BY <2>1, <2>2
<1>16. QED
  BY <1>1, <1>2, <1>3, <1>4, <1>5, <1>6, <1>7, <1>8, <1>9, <1>10, <1>11, <1>12, <1>13,
     <1>14, <1>15 DEF Step

\* A record is read for the symbol of its writer, and for no other.
LEMMA StepOwn ==
  ASSUME TypeInv, OwnRecord, NEW w \in Worker, Step(w)
  PROVE  OwnRecord'
<1>0. pc \in [Worker -> Place] /\ held \in [Worker -> Held]
  BY DEF TypeInv, TypeOK
<1>1. \A v \in Worker : v # w => pc'[v] = pc[v] /\ held'[v] = held[v] /\ sym'[v] = sym[v]
  BY StepOthers DEF Others
<1>2. pc'[w] \in {"enrich", "record"} => DOMAIN held'[w] \subseteq {sym'[w]}
  <2>1. DOMAIN Record(sym[w]) = {sym[w]} /\ DOMAIN Nothing = {}
    BY NothingHeld DEF Record
  <2>2. CASE ResolveSymbol(w) \/ SearchSymbols(w) \/ RereadRow(w)
    BY <1>0, <2>1, <2>2
    DEF ResolveSymbol, SearchSymbols, RereadRow, Resolved, GoTo, Hold
  <2>3. CASE FetchMarketSnapshot(w)
    BY <1>0, <2>3 DEF FetchMarketSnapshot, Fetched, Finish, Reset, GoTo
  <2>4. CASE ReadSummaries(w) \/ InsertSymbols(w) \/ CreateRow(w) \/ EnrichRow(w)
    BY <1>0, <2>4 DEF ReadSummaries, InsertSymbols, CreateRow, EnrichRow, GoTo
  <2>5. CASE UpsertRecord(w) \/ UpsertDailyBars(w) \/ UpdateCoverage(w) \/ NoDailyBars(w)
    BY <1>0, <2>5 DEF UpsertRecord, UpsertDailyBars, UpdateCoverage, NoDailyBars, GoTo
  <2>6. CASE Reload(w) \/ SelectCoverage(w) \/ CompareSnapshot(w) \/ BuildSyncCandidates(w)
    BY <1>0, <2>6 DEF Reload, SelectCoverage, CompareSnapshot, BuildSyncCandidates, GoTo
  <2>7. CASE NextSymbol(w)
    BY <1>0, <2>7 DEF NextSymbol, Reset, GoTo
  <2>8. QED
    BY <2>2, <2>3, <2>4, <2>5, <2>6, <2>7 DEF Step
<1>3. QED
  BY <1>1, <1>2 DEF OwnRecord

\* A step that leaves the table to others.
LEMMA QuietStep ==
  ASSUME TypeInv, OwnRecord, NEW w \in Worker,
         \/ w \in Refresh /\ ThreadStep(w)
         \/ HandleRequest(w)
         \/ SyncMarketData(w)
  PROVE  Others(w) /\ OwnRecord' /\ \A s \in Symbol : HandKept(w, s)
<1>0. /\ pc \in [Worker -> Place] /\ held \in [Worker -> Held] /\ span \in [Worker -> CoverOrNone]
      /\ sym \in [Worker -> Symbol \cup {NoSymbol}]
  BY DEF TypeInv, TypeOK
<1>1. ASSUME Reset({w}), UNCHANGED <<rows, bars>>, pc[w] \in {"starting", "preflight", "seal"}
      PROVE  Others(w) /\ OwnRecord' /\ \A s \in Symbol : HandKept(w, s)
  <2>1. Others(w) /\ OwnRecord'
    BY <1>0, <1>1 DEF Reset, Others, OwnRecord
  <2>2. Halfway(w) = {}
    BY <1>1 DEF Halfway
  <2>3. QED
    BY <1>1, <2>1, <2>2, ResetHand
<1>2. ASSUME UNCHANGED <<rows, bars, held, span>>, NEW step, GoTo(w, step),
             step \in {"starting", "preflight", "fetch", "resolve", "compare"},
             \A v \in Worker : v # w => sym'[v] = sym[v],
             pc[w] \in {"idle", "starting", "preflight"}
      PROVE  Others(w) /\ OwnRecord' /\ \A s \in Symbol : HandKept(w, s)
  <2>1. pc'[w] = step /\ \A v \in Worker : v # w => pc'[v] = pc[v]
    BY <1>0, <1>2 DEF GoTo
  <2>2. Others(w) /\ OwnRecord'
    BY <1>2, <2>1 DEF Others, OwnRecord
  <2>3. \A s \in Symbol : ~Busy(w, s)
    BY <1>2 DEF Busy, OnTable, OnSymbol
  <2>4. \A s \in Symbol : HandKept(w, s)
    BY <1>2, <2>1, <2>3, MoveHand
  <2>5. QED
    BY <2>2, <2>4
<1>3. CASE w \in Refresh /\ MaybeScheduleMarketRefresh(w)
  BY <1>2, <1>3 DEF MaybeScheduleMarketRefresh, MayStart, table
<1>3a. CASE SpawnRefreshThread(w)
  BY <1>1, <1>2, <1>3a DEF SpawnRefreshThread, table
<1>4. CASE Preflight(w)
  <2>1. CASE \E success \in BOOLEAN : Finish(w, success)
    BY <1>1, <1>4, <2>1 DEF Preflight, Finish, table
  <2>2. CASE GoTo(w, "fetch") /\ UNCHANGED <<flags, job, sym, held, span, todo>>
    BY <1>2, <1>4, <2>2 DEF Preflight, table
  <2>3. QED
    BY <1>4, <2>1, <2>2 DEF Preflight
<1>5. CASE Seal(w)
  BY <1>1, <1>5 DEF Seal, Finish, table
<1>6. CASE HandleRequest(w)
  <2>1. \A v \in Worker : v # w => sym'[v] = sym[v]
    BY <1>0, <1>6 DEF HandleRequest
  <2>2. QED
    BY <1>2, <1>6, <2>1 DEF HandleRequest, MayStart, table
<1>7. CASE SyncMarketData(w)
  <2>1. \A v \in Worker : v # w => sym'[v] = sym[v]
    BY <1>0, <1>7 DEF SyncMarketData
  <2>2. QED
    BY <1>2, <1>7, <2>1 DEF SyncMarketData, MayStart, table
<1>8. QED
  BY <1>3, <1>3a, <1>4, <1>5, <1>6, <1>7 DEF ThreadStep

\* A step of one writer that dispels no doubt.
LEMMA WriterKeepsDoubt ==
  ASSUME TypeInv, DoubtInv, NEW w \in Worker, Others(w), OwnRecord',
         NEW broken, Excuse({}, broken), \A s \in Symbol : s \notin broken => HandKept(w, s)
  PROVE  DoubtInv'
<1>1. SharedDoubt'
  BY ExcuseShares
<1>2. ASSUME NEW s \in Symbol, s \notin excused' PROVE Sound(s)'
  <2>1. s \notin excused /\ s \notin broken
    BY <1>2, ExcuseFixes
  <2>2. Sound(s) /\ SharedDoubt /\ HandKept(w, s)
    BY <2>1 DEF DoubtInv
  <2>3. QED
    BY <1>1, <1>2, <2>1, <2>2, WriterStep
<1>3. QED
  BY <1>1, <1>2 DEF DoubtInv

LEMMA DeleteKeepsDoubt ==
  ASSUME TypeInv, DoubtInv, NEW w \in Worker, DeleteSymbols(w),
         Excuse({}, Listed \ DOMAIN held[w])
  PROVE  DoubtInv'
<1>1. /\ pc[w] = "delete" /\ pc'[w] = "insert" /\ \A v \in Worker : v # w => pc'[v] = pc[v]
      /\ \A s \in Symbol : rows'[s] = NoRow
      /\ UNCHANGED <<bars, sym, held, span>>
  BY DEF DeleteSymbols, GoTo, TypeInv, TypeOK
<1>2. Others(w) /\ OwnRecord'
  BY <1>1 DEF Others, OwnRecord, DoubtInv
<1>3. ASSUME NEW s \in Symbol, s \notin Listed \ DOMAIN held[w] PROVE HandKept(w, s)
  <2>1. s \notin DOMAIN held[w] => rows[s] = NoRow
    BY <1>3 DEF Listed
  <2>2. s \notin DOMAIN held[w] /\ Fresh(s) => Fresh(s)'
    BY <1>1, <2>1 DEF Fresh, RowCover
  <2>3. QED
    BY <1>1, <2>2 DEF HandKept, Hand, InHand, Busy, OnTable
<1>4. QED
  BY <1>2, <1>3, WriterKeepsDoubt

\* A backfill sets right what it is alone with.
LEMMA BackfillKeepsDoubt ==
  ASSUME TypeInv, DoubtInv, NEW w \in Worker, BackfillCoverage(w), Excuse(Listed, {})
  PROVE  DoubtInv'
<1>1. /\ pc[w] = "backfill" /\ pc'[w] = "plan" /\ \A v \in Worker : v # w => pc'[v] = pc[v]
      /\ \A s \in Symbol : rows'[s] = IF s \in Listed THEN Span(bars[s]) ELSE NoRow
      /\ UNCHANGED <<bars, sym, held, span>>
  BY DEF BackfillCoverage, GoTo, TypeInv, TypeOK
<1>2. OwnRecord'
  BY <1>1 DEF OwnRecord, DoubtInv
<1>3. SharedDoubt'
  BY ExcuseShares
<1>4. ASSUME NEW s \in Symbol, s \notin excused' PROVE Sound(s)'
  <2>1. s \in excused => s \in Listed /\ \A u, v \in Worker : Busy(u, s) /\ Busy(v, s) => u = v
    BY <1>4, ExcuseFixes
  <2>2. Busy(w, s) /\ Busy(w, s)'
    BY <1>1 DEF Busy, OnTable
  <2>3. \A v \in Worker : v # w => ~Busy(v, s)'
    BY <1>3, <1>4, <2>2 DEF SharedDoubt
  <2>4. Fresh(s)'
    <3>1. Span(bars[s]) # NoRow
      BY CoverFacts DEF TypeInv
    <3>2. CASE s \in Listed
      BY <1>1, <3>1, <3>2 DEF Fresh, RowCover
    <3>3. CASE s \notin Listed
      <4>1. InHand(w, s)
        BY <2>1, <2>2, <3>3 DEF DoubtInv, Sound
      <4>2. Fresh(s) /\ rows[s] = NoRow
        BY <1>1, <3>3, <4>1 DEF InHand, Listed
      <4>3. QED
        BY <1>1, <3>3, <4>2 DEF Fresh, RowCover
    <3>4. QED
      BY <3>2, <3>3
  <2>5. InHand(w, s)'
    BY <1>1, <2>4 DEF InHand
  <2>6. QED
    BY <2>2, <2>3, <2>5 DEF Sound
<1>5. QED
  BY <1>2, <1>3, <1>4 DEF DoubtInv

LEMMA RaiseKeepsDoubt ==
  ASSUME TypeInv, DoubtInv, NEW w \in Worker, Raise(w), Excuse({}, Halfway(w))
  PROVE  DoubtInv'
<1>0. /\ pc \in [Worker -> Place] /\ held \in [Worker -> Held] /\ span \in [Worker -> CoverOrNone]
  BY DEF TypeInv, TypeOK
<1>1. CASE Reset({w}) /\ UNCHANGED <<rows, bars>>
  <2>1. Others(w) /\ OwnRecord'
    BY <1>1 DEF Reset, Others, OwnRecord, DoubtInv
  <2>2. \A s \in Symbol : s \notin Halfway(w) => HandKept(w, s)
    BY <1>1, ResetHand
  <2>3. QED
    BY <2>1, <2>2, WriterKeepsDoubt
<1>2. CASE /\ GoTo(w, "next") /\ Hold(w, Nothing) /\ span' = [span EXCEPT ![w] = NoCover]
           /\ UNCHANGED <<rows, bars, sym>>
  <2>1. pc'[w] = "next" /\ \A v \in Worker : v # w => /\ pc'[v] = pc[v] /\ held'[v] = held[v]
                                                      /\ span'[v] = span[v] /\ sym'[v] = sym[v]
    BY <1>0, <1>2 DEF GoTo, Hold
  <2>2. Others(w) /\ OwnRecord'
    BY <1>2, <2>1 DEF Others, OwnRecord, DoubtInv
  <2>3. ASSUME NEW s \in Symbol, s \notin Halfway(w) PROVE HandKept(w, s)
    <3>1. ~Busy(w, s)'
      BY <2>1 DEF Busy, OnTable, OnSymbol
    <3>2. Busy(w, s) => pc[w] \notin {"insert", "select", "cover"}
      BY <2>3 DEF Busy, Halfway, OnTable, OnSymbol
    <3>3. Fresh(s)' <=> Fresh(s)
      BY <1>2 DEF Fresh, RowCover
    <3>4. QED
      BY <1>2, <3>1, <3>2, <3>3 DEF HandKept, Hand, InHand
  <2>4. QED
    BY <2>2, <2>3, WriterKeepsDoubt
<1>3. QED
  BY <1>1, <1>2 DEF Raise, Finish, table

\* The server's threads stop at once: what they were alone with and had not left
\* halfway is right.
LEMMA CrashKeepsDoubt ==
  ASSUME TypeInv, DoubtInv, CrashServer,
         Excuse({}, UNION {Halfway(w) : w \in Request \cup Refresh})
  PROVE  DoubtInv'
<1> DEFINE Dead == Request \cup Refresh
<1>1. /\ \A w \in Worker : w \in Dead => pc'[w] = "idle"
      /\ \A w \in Worker : w \notin Dead => /\ pc'[w] = pc[w] /\ held'[w] = held[w]
                                            /\ span'[w] = span[w] /\ sym'[w] = sym[w]
      /\ UNCHANGED <<rows, bars>>
  BY DEF CrashServer, Reset, table
<1> HIDE DEF Dead
<1>2. OwnRecord'
  BY <1>1 DEF OwnRecord, DoubtInv
<1>3. SharedDoubt'
  BY ExcuseShares
<1>4. ASSUME NEW s \in Symbol, s \notin excused' PROVE Sound(s)'
  <2>1. s \notin excused /\ \A w \in Worker : w \in Dead => s \notin Halfway(w)
    BY <1>4, ExcuseFixes DEF Dead
  <2>2. Sound(s)
    BY <2>1 DEF DoubtInv
  <2>3. (Fresh(s)' <=> Fresh(s)) /\ (s \in Listed' <=> s \in Listed)
    BY <1>1 DEF Fresh, RowCover, Listed
  <2>4. ASSUME NEW v \in Worker, Busy(v, s)' PROVE InHand(v, s)'
    <3>1. v \notin Dead
      BY <1>1, <2>4 DEF Busy, OnTable, OnSymbol
    <3>2. Busy(v, s)
      BY <1>1, <2>4, <3>1 DEF Busy
    <3>3. InHand(v, s)
      BY <2>2, <3>2 DEF Sound
    <3>4. QED
      BY <1>1, <2>3, <3>1, <3>3 DEF InHand
  <2>5. ASSUME \A v \in Worker : ~Busy(v, s)' PROVE Fresh(s)'
    <3>1. CASE \A v \in Worker : ~Busy(v, s)
      BY <2>2, <2>3, <3>1 DEF Sound
    <3>2. ASSUME NEW v \in Worker, Busy(v, s) PROVE Fresh(s)'
      <4>1. v \in Dead
        BY <1>1, <2>5, <3>2 DEF Busy
      <4>2. pc[v] \notin {"insert", "select", "cover"}
        BY <2>1, <3>2, <4>1 DEF Busy, Halfway, OnTable, OnSymbol
      <4>3. QED
        BY <2>2, <2>3, <3>2, <4>2 DEF Sound, InHand
    <3>3. QED
      BY <3>1, <3>2
  <2>6. QED
    BY <2>4, <2>5 DEF Sound
<1>5. QED
  BY <1>2, <1>3, <1>4 DEF DoubtInv

LEMMA UnmovedDoubt ==
  ASSUME DoubtInv, UNCHANGED <<table, writer>>, excused \subseteq excused', SharedDoubt'
  PROVE  DoubtInv'
<1>1. OwnRecord'
  BY DEF OwnRecord, DoubtInv, writer
<1>2. ASSUME NEW s \in Symbol, s \notin excused' PROVE Sound(s)'
  <2>1. Sound(s)
    BY <1>2 DEF DoubtInv
  <2>2. /\ Fresh(s)' <=> Fresh(s)
        /\ s \in Listed' <=> s \in Listed
        /\ \A w \in Worker : Busy(w, s)' <=> Busy(w, s)
    BY DEF Fresh, RowCover, Listed, Busy, table, writer
  <2>3. \A w \in Worker : InHand(w, s)' <=> InHand(w, s)
    BY <2>2 DEF InHand, table, writer
  <2>4. QED
    BY <2>1, <2>2, <2>3 DEF Sound
<1>3. QED
  BY <1>1, <1>2 DEF DoubtInv

LEMMA NextDoubt == TypeInv /\ DoubtInv /\ [Next]_vars => DoubtInv'
<1> SUFFICES ASSUME TypeInv, DoubtInv, [Next]_vars PROVE DoubtInv'
  OBVIOUS
<1>0. OwnRecord
  BY DEF DoubtInv
<1>1. ASSUME NEW w \in Worker, Step(w), Excuse({}, {}) PROVE DoubtInv'
  <2>1. Others(w) /\ OwnRecord' /\ \A s \in Symbol : HandKept(w, s)
    BY <1>0, <1>1, StepOthers, StepOwn, StepHand
  <2>2. QED
    BY <1>1, <2>1, WriterKeepsDoubt
<1>2. ASSUME NEW w \in Worker, Excuse({}, {}),
             \/ w \in Refresh /\ ThreadStep(w)
             \/ HandleRequest(w)
             \/ SyncMarketData(w)
      PROVE  DoubtInv'
  <2>1. Others(w) /\ OwnRecord' /\ \A s \in Symbol : HandKept(w, s)
    BY <1>0, <1>2, QuietStep
  <2>2. QED
    BY <1>2, <2>1, WriterKeepsDoubt
<1>3. CASE Midnight /\ Excuse({}, {})
  <2>1. SharedDoubt' /\ excused \subseteq excused'
    BY <1>3, ExcuseShares DEF Excuse
  <2>2. QED
    BY <1>3, <2>1, UnmovedDoubt DEF Midnight
<1>4. CASE UNCHANGED vars
  <2>1. SharedDoubt'
    BY <1>4 DEF SharedDoubt, DoubtInv, Busy, vars, writer
  <2>2. QED
    BY <1>4, <2>1, UnmovedDoubt DEF vars
<1>5. QED
  BY <1>1, <1>2, <1>3, <1>4, DeleteKeepsDoubt, BackfillKeepsDoubt, RaiseKeepsDoubt,
     CrashKeepsDoubt DEF Next, Worker

LEMMA InitDoubt == Init => DoubtInv
<1> SUFFICES ASSUME Init PROVE DoubtInv
  OBVIOUS
<1>1. \A w \in Worker : \A s \in Symbol : ~Busy(w, s)
  BY DEF Init, Busy, OnTable, OnSymbol
<1>2. \A s \in Symbol : Fresh(s)
  BY DEF Init, Fresh, RowCover, Span
<1>3. OwnRecord
  BY DEF Init, OwnRecord
<1>4. QED
  BY <1>1, <1>2, <1>3 DEF DoubtInv, SharedDoubt, Sound

\* The summary of a symbol that nobody works on is the first and the last date of its
\* bars, unless the history names the reason: two writers at a time, one that stopped
\* halfway, or a replace that dropped its row.  A doubt that a backfill has dispelled
\* never comes back by itself, whatever writers still hold of older rows
\* (refresh_symbol_daily_coverage, replace_symbols, upsert_symbols).
THEOREM CoverageIsExplained == Spec => []CoverageExplained
<1>1. TypeInv /\ DoubtInv => CoverageExplained
  <2> SUFFICES ASSUME TypeInv, DoubtInv, NEW s \in Listed, s \notin excused,
                      \A w \in Worker : s \notin Touched(w)
               PROVE  rows[s] = Span(bars[s])
    BY DEF CoverageExplained
  <2>1. s \in Symbol /\ rows[s] # NoRow
    BY DEF Listed
  <2>2. \A w \in Worker : ~Busy(w, s)
    BY <2>1, BusyIs
  <2>3. Fresh(s)
    BY <2>1, <2>2 DEF DoubtInv, Sound
  <2>4. QED
    BY <2>1, <2>3 DEF Fresh, RowCover
<1>2. QED
  BY InitType, NextType, InitDoubt, NextDoubt, <1>1, PTL DEF Spec
=============================================================================
