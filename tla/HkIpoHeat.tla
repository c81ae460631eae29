------------------------------- MODULE HkIpoHeat -------------------------------
(***************************************************************************)
(* hkipo-heat-scan: one IPO of the pool after the other is looked up on a  *)
(* fixed list of public pages, each fetched by a thread of its own; what   *)
(* the pages say becomes attributed evidence, and only evidence that is    *)
(* dated the day of the report gives an IPO its heat score.                *)
(*                                                                         *)
(* A page is what its patterns find in it: texts, urls and units are left  *)
(* out.  The extractors give each evidence a confidence of 0.55 or more,   *)
(* which passes every comparison with 0.5.                                 *)
(***************************************************************************)
EXTENDS Integers, Sequences, FiniteSets, FiniteSetsExt, Missing

CONSTANTS
  HeatSources,  \* the candidates in order: [tracker, live]
  HeatPool,     \* the IPOs of the pool in order: is each open for subscription?
  Pages,        \* what a page may say
  Records       \* what the tracker may say

ASSUME HeatAssumption ==
  /\ HeatSources \in Seq([tracker : BOOLEAN, live : BOOLEAN]) /\ HeatPool \in Seq(BOOLEAN)
  /\ \A page \in Pages : IsFiniteSet(DOMAIN page.heat) /\ \A field \in DOMAIN page.heat : page.heat[field] \in Int
  /\ \A record \in Records : record.matches => {record.multiple, record.amount} \subseteq Int \cup {None}

VARIABLES
  includeClosed,  \* the flag of the command
  scanAt,         \* the IPO being scanned, a position in HeatPool
  answered,       \* the results by index of the candidate, None while it is fetched
  heatRows,       \* what _scan_one has returned, and None for an IPO left out
  heatReport      \* the payload, None until then

heatVars == <<includeClosed, scanAt, answered, heatRows, heatReport>>

Candidate == DOMAIN HeatSources

\* classify_staleness.
Staleness(time) == CASE time \in {None, "garbled"} -> "invalid_missing_attribution"
                     [] time = "report_day" -> "same_day"
                     [] OTHER -> "stale"

\* _active_subscription_window_contains, _extract_source_time: a live page is dated by
\* its subscription window; any other by the day of the report, found anywhere on it.
PageTime(i, page) ==
  IF (HeatSources[i].live /\ page.window) \/ page.dated THEN "report_day" ELSE None

\* _make_evidence and normalize_heat_evidence.
Entry(i, field, value, time) ==
  [source |-> i, field |-> field, value |-> value, staleness |-> Staleness(time)]

\* _extract_heat_evidence: the first match of each pattern.
HeatEvidence(i, page) ==
  {Entry(i, field, page.heat[field], PageTime(i, page)) : field \in DOMAIN page.heat}

\* _extract_structure_evidence.
StructureEvidence(i, page) ==
  {Entry(i, field, None, PageTime(i, page)) : field \in page.structure}

\* _extract_valuation_evidence.
ValuationEvidence(i, page) ==
  {Entry(i, field, None, PageTime(i, page)) : field \in page.valuation}

\* _find_tradesmart_margin_record and _extract_tradesmart_margin_evidence: only the
\* tracker asks whether its record is of this IPO, and only it has an old date to tell.
TrackerEvidence(i, record) ==
  IF ~record.matches THEN {}
  ELSE {e \in {Entry(i, "margin_multiple", record.multiple, record.observed),
               Entry(i, "margin_amount_hkd_yi", record.amount, record.observed)} :
          e.value # None}

Nothing == [evidence |-> {}, structure |-> {}, valuation |-> {}, errors |-> {}]

\* _extract_page_evidence.
Extracted(i, page) ==
  IF HeatSources[i].tracker THEN [Nothing EXCEPT !.evidence = TrackerEvidence(i, page)]
  ELSE [Nothing EXCEPT !.evidence = HeatEvidence(i, page),
                       !.structure = StructureEvidence(i, page),
                       !.valuation = ValuationEvidence(i, page)]

\* What may come of a fetch.
Contents(i) == IF HeatSources[i].tracker THEN Records ELSE Pages

\* The merging of the results by index.
Merged(results) ==
  [evidence |-> UNION {results[i].evidence : i \in Candidate},
   structure |-> UNION {results[i].structure : i \in Candidate},
   valuation |-> UNION {results[i].valuation : i \in Candidate},
   errors |-> UNION {results[i].errors : i \in Candidate}]
-----------------------------------------------------------------------------
(* normalize_scan_payload. *)

Usable(evidence) == {e \in evidence : e.staleness = "same_day"}

\* Mutant: any multiple counts for more than none, a small one for less.
Score_Swapped(evidence) ==
  LET multiples == {e.value : e \in {u \in Usable(evidence) :
                      u.field \in {"margin_multiple", "subscription_multiple"}}}
  IN CASE Usable(evidence) = {} -> 0
       [] Usable(evidence) # {} /\ multiples = {} -> 6
       [] OTHER -> LET best == Max(multiples) IN
                     IF best >= 100 THEN 20 ELSE IF best >= 50 THEN 17
                     ELSE IF best >= 20 THEN 14 ELSE IF best >= 10 THEN 10 ELSE 4

\* _score_subscription_heat, and 0 for an IPO that cannot be scored.
Score(evidence) ==
  LET multiples == {e.value : e \in {u \in Usable(evidence) :
                      u.field \in {"margin_multiple", "subscription_multiple"}}}
  IN CASE Usable(evidence) = {} -> 0
       [] Usable(evidence) # {} /\ multiples = {} -> 4
       [] OTHER -> LET best == Max(multiples) IN
                     IF best >= 100 THEN 20 ELSE IF best >= 50 THEN 17
                     ELSE IF best >= 20 THEN 14 ELSE IF best >= 10 THEN 10 ELSE 6

\* evidence_quality: two fields of one page are enough for "high".
HeatQuality(evidence) == CASE Usable(evidence) = {} -> 0  \* "low"
                       [] Cardinality(Usable(evidence)) = 1 -> 1  \* "medium"
                       [] OTHER -> 2  \* "high"

\* _attributed_evidence: stale evidence is attributed all the same.
AttributedFields(evidence) ==
  {e.field : e \in {a \in evidence : a.staleness # "invalid_missing_attribution"}}

\* _classify_structure_status: 2 verified, 1 partial, 0 not verified.
StructureStatus(evidence) ==
  LET fields == AttributedFields(evidence) IN
    IF {"greenshoe_pct", "cornerstone_investor_count", "cornerstone_offer_pct", "sponsor"}
         \subseteq fields THEN 2
    ELSE IF fields # {} THEN 1 ELSE 0

\* _classify_valuation_status.
ValuationStatus(evidence) ==
  LET fields == AttributedFields(evidence) IN
    IF /\ {"core_capability", "industry", "peer_pe"} \subseteq fields
       /\ fields \cap {"fair_value_market_cap_range", "fair_value_price_range"} # {} THEN 2
    ELSE IF fields # {} THEN 1 ELSE 0

Told(row) == [score |-> Score(row.evidence), quality |-> HeatQuality(row.evidence),
              structure |-> StructureStatus(row.structure),
              valuation |-> ValuationStatus(row.valuation)]

Scanned == {n \in DOMAIN heatRows : heatRows[n] # None}
-----------------------------------------------------------------------------
HeatInit ==
  /\ includeClosed \in BOOLEAN
  /\ scanAt = 1 /\ heatRows = <<>> /\ heatReport = None
  /\ answered = [i \in Candidate |-> None]

\* scan leaves out what is no longer open.
LeaveOut ==
  /\ scanAt \in DOMAIN HeatPool /\ ~HeatPool[scanAt] /\ ~includeClosed
  /\ scanAt' = scanAt + 1 /\ heatRows' = Append(heatRows, None)
  /\ UNCHANGED <<includeClosed, answered, heatReport>>

Scanning(i) == /\ scanAt \in DOMAIN HeatPool /\ (HeatPool[scanAt] \/ includeClosed)
               /\ answered[i] = None

\* A future of _scan_one completes, with its page or with an exception.
PageAnswers(i, page) ==
  /\ Scanning(i)
  /\ answered' = [answered EXCEPT ![i] = Extracted(i, page)]
  /\ UNCHANGED <<includeClosed, scanAt, heatRows, heatReport>>

PageFails(i) ==
  /\ Scanning(i)
  /\ answered' = [answered EXCEPT ![i] = [Nothing EXCEPT !.errors = {i}]]
  /\ UNCHANGED <<includeClosed, scanAt, heatRows, heatReport>>

\* _scan_one returns.
EndScan ==
  /\ scanAt \in DOMAIN HeatPool /\ (HeatPool[scanAt] \/ includeClosed)
  /\ \A i \in Candidate : answered[i] # None
  /\ heatRows' = Append(heatRows, Merged(answered)) /\ scanAt' = scanAt + 1
  /\ answered' = [i \in Candidate |-> None]
  /\ UNCHANGED <<includeClosed, heatReport>>

\* The summary and the rows of normalize_scan_payload.
AnswerHeat ==
  /\ scanAt > Len(HeatPool) /\ heatReport = None
  /\ heatReport' = [rows |-> [n \in Scanned |-> Told(heatRows[n])],
                    count |-> Cardinality(Scanned),
                    sameDay |-> Cardinality({n \in Scanned : Usable(heatRows[n].evidence) # {}})]
  /\ UNCHANGED <<includeClosed, scanAt, answered, heatRows>>

HeatNext ==
  \/ LeaveOut \/ EndScan \/ AnswerHeat
  \/ \E i \in Candidate : \/ \E page \in Contents(i) : PageAnswers(i, page)
                          \/ PageFails(i)

HeatSpec == HeatInit /\ [][HeatNext]_heatVars
-----------------------------------------------------------------------------
(* Property. *)

\* A source that fails can only cost: had any page come in its place, then the score,
\* the quality and the two statuses would be at least as high.
\* (docs/specs/hkipo-heat-scan-cli.md: a source's failure blocks no other evidence;
\* _score_subscription_heat, _classify_structure_status, _classify_valuation_status)
FailureOnlyCosts ==
  heatReport # None =>
    \A n \in DOMAIN heatReport.rows : \A i \in heatRows[n].errors : \A page \in Contents(i) :
      LET more == Extracted(i, page)
          better == Told([evidence |-> heatRows[n].evidence \cup more.evidence,
                          structure |-> heatRows[n].structure \cup more.structure,
                          valuation |-> heatRows[n].valuation \cup more.valuation])
      IN \A part \in DOMAIN better : better[part] >= heatReport.rows[n][part]
=============================================================================
