----------------------------- MODULE StockAnalyze -----------------------------
(***************************************************************************)
(* StockAnalyzeService.analyze: one request analyses its symbols one after *)
(* another; each symbol becomes an item of some modules, each with a       *)
(* status, and a research strategy that rates what the modules found.      *)
(*                                                                         *)
(* A provider call may find rows, find none, fail, or be refused.  Rows    *)
(* are kept by the age in days of the newest of them.  The request ends at *)
(* an exception that no module catches.                                    *)
(***************************************************************************)
EXTENDS Integers, Sequences, FiniteSets, Missing

CONSTANTS
  Ages,         \* how many days old the newest row may be
  NewsSources,  \* how many sources news and major_news ask
  AnalyzeRequests  \* [market, mode, symbols (how many)]

ASSUME AnalyzeAssumption ==
  /\ Ages \subseteq Nat /\ NewsSources \in Nat \ {0}
  /\ AnalyzeRequests \subseteq [market : {"cn", "us"}, mode : {"base", "full"}, symbols : Nat]
  /\ None \notin {"permission_denied", "error"}

VARIABLES
  asked,    \* the request, None before it
  left,     \* the symbols without an item yet, the current one included
  step,     \* what happens next in the current symbol
  item,     \* what is known of the current symbol
  published,     \* the last public item
  statuses, \* the statuses of the items
  answer    \* the HTTP status and the overall status, None before

analyzeVars == <<asked, left, step, item, published, statuses, answer>>

Unavailable == {"permission_denied", "error"}

RawModules == {"research_report", "report_rc", "anns_d", "news", "major_news"}

\* MODE_MODULES: what is executed, in order.
ModulesOf ==
  [cn |-> [base |-> <<"technical", "research_report", "report_rc", "earnings", "catalysts", "screen">>,
           full |-> <<"technical", "research_report", "report_rc", "anns_d", "news", "major_news",
                      "earnings", "catalysts", "screen", "model_update">>],
   us |-> [base |-> <<"technical", "earnings", "dcf", "comps", "three_statement", "screen">>,
           full |-> <<"technical", "earnings", "earnings_preview", "dcf", "comps", "three_statement",
                      "lbo", "three_statement_scenarios", "competitive", "catalysts", "screen",
                      "model_update", "sector_overview">>]]

\* CRITICAL_MODULES, in every mode.
Critical(market) ==
  IF market = "cn" THEN {"technical", "research_report", "report_rc"}
  ELSE {"technical", "earnings", "dcf", "comps", "three_statement"}

Modules == ModulesOf[asked.market][asked.mode]

NoRows(status) == [status |-> status, age |-> None]

\* _dispatch_block: what a provider call becomes.
Answers == {NoRows(s) : s \in Unavailable \cup {"empty"}}
           \cup {[status |-> "ok", age |-> a] : a \in Ages}

\* _resolve_window: how many days the request looks back.
RequestDays == 30
Within(block) == block.age # None => block.age <= RequestDays

\* The youngest of two ages.
Younger(a, b) == IF a = None THEN b ELSE IF b = None \/ a <= b THEN a ELSE b

NewItem == [blocks |-> [b \in RawModules |-> NoRows("empty")],
            window |-> None,    \* fallback_mode of report_rc
            askedNews |-> 0, foundNews |-> None, failedNews |-> None,
            nextEarnings |-> "none",
            results |-> <<>>,   \* the executed modules' results, in order
            heard |-> {}]       \* history: <<module, call>> of the calls that failed, and of
                                \* the news that some source had
-----------------------------------------------------------------------------
AnalyzeInit ==
  /\ asked = None /\ left = 0 /\ step = "idle" /\ item = NewItem
  /\ published = None /\ statuses = <<>> /\ answer = None

\* analyze_stocks refuses a request without a symbol; analyze refuses a bad date,
\* market or mode.
Ask(r, valid) ==
  /\ step = "idle"
  /\ asked' = r
  /\ IF r.symbols = 0 \/ ~valid
     THEN /\ answer' = [http |-> 400, status |-> None]
          /\ step' = "answered"
          /\ UNCHANGED left
     ELSE /\ left' = r.symbols
          /\ step' = "look_up"
          /\ UNCHANGED answer
  /\ UNCHANGED <<item, published, statuses>>

Heard(m, call, block) == IF block.status \in Unavailable THEN {<<m, call>>} ELSE {}

\* Whether the item's modules or the next symbol come next.
Deliver(public) ==
  /\ published' = public
  /\ statuses' = Append(statuses, public.status)
  /\ left' = left - 1
  /\ item' = NewItem
  /\ step' = IF left = 1 THEN "respond" ELSE "look_up"
  /\ UNCHANGED <<asked, answer>>

\* _build_dynamic_item_failure: every module gets the item's failure.
EarlyItem(status) ==
  LET each == IF status = "failed" THEN "error" ELSE status IN
    [status |-> status, results |-> [i \in DOMAIN Modules |-> NoRows(each)],
     reasons |-> {Modules[i] : i \in DOMAIN Modules}, heard |-> {},
     window |-> None, metrics |-> FALSE, sections |-> {}, changes |-> {}, provenance |-> None,
     strategy |-> None]

GoOn(next, changed) ==
  /\ step' = next
  /\ item' = changed
  /\ UNCHANGED <<asked, left, published, statuses, answer>>

\* _dispatch_record: a security's record, or why the provider gives none.
CnRecords == {"stock", "fund", "empty", "not_supported"} \cup Unavailable

\* _fetch_us_security_info: without info the symbol is unknown, and info without a type
\* is that of a stock.
UsRecords == {"stock", "fund", "empty"}

\* What the item becomes when the record is none of a stock.
EarlyStatus(record) == IF record = "fund" THEN "not_supported" ELSE "failed"

\* _build_cn_item up to its modules.
LookUpCn ==
  /\ step = "look_up" /\ asked.market = "cn"
  /\ \E record \in CnRecords \cup {"malformed"} :
       IF record = "stock" THEN GoOn("look_up_native", item)
       ELSE Deliver(EarlyItem(EarlyStatus(record)))

\* _build_us_item up to its modules; next is what the earnings calendar holds.
LookUpUs(next) ==
  /\ step = "look_up" /\ asked.market = "us"
  /\ \E record \in UsRecords :
       IF record = "stock" THEN GoOn("execute", [item EXCEPT !.nextEarnings = next])
       ELSE Deliver(EarlyItem(EarlyStatus(record)))

Blocked(status) == [item EXCEPT !.blocks = [b \in RawModules |-> NoRows(status)],
                                !.heard = {<<b, "look_up">> : b \in RawModules}]

\* _build_failed_item, _build_not_supported_item.
FailedItem == Blocked("error")
NotSupportedItem == Blocked("not_supported")

\* _build_cn_native_item looks the security up again: when it is no stock now, the
\* item goes on with such blocks.
LookUpNative ==
  /\ step = "look_up_native"
  /\ \E record \in CnRecords :
       CASE record = "stock" -> GoOn("report_rc", item)
         [] record = "fund" -> GoOn("execute", NotSupportedItem)
         [] OTHER -> GoOn("execute", FailedItem)

\* The requested window of report_rc; rows that are not about the stock do not count.
AskReportRc(block, specific) ==
  /\ step = "report_rc" /\ Within(block)
  /\ specific => block.status = "ok"
  /\ GoOn(IF specific THEN "research_report" ELSE "history",
          [item EXCEPT !.blocks["report_rc"] = block,
                       !.window = "requested_window",
                       !.heard = @ \cup Heard("report_rc", "window", block)])

\* _resolve_report_rc_block: the newest rows of the whole history replace the window's;
\* they may lie in the window when the call for it failed.  Without rows about the stock
\* in its window the item asks for no research report.
AskHistory(block, specific) ==
  /\ step = "history"
  /\ specific => block.status = "ok"
  /\ GoOn("anns_d",
          [item EXCEPT !.blocks["report_rc"] = IF specific THEN block ELSE @,
                       !.window = IF specific THEN "latest_stock_specific_report_date"
                                  ELSE "requested_window_no_specific_history",
                       !.heard = @ \cup Heard("report_rc", "history", block)])

AskResearch(block) ==
  /\ step = "research_report" /\ Within(block)
  /\ GoOn("anns_d", [item EXCEPT !.blocks["research_report"] = block,
                                 !.heard = @ \cup Heard("research_report", "window", block)])

AskAnnouncements(block) ==
  /\ step = "anns_d" /\ Within(block)
  /\ GoOn("news", [item EXCEPT !.blocks["anns_d"] = block,
                               !.heard = @ \cup Heard("anns_d", "window", block)])

\* _collect_news_block: rows of any source win, then the first failure.
NewsBlock(found, failed) ==
  IF found # None THEN [status |-> "ok", age |-> found]
  ELSE IF failed # None THEN NoRows(failed)
  ELSE NoRows("empty")

\* One source of news or major_news; rows that do not mention the stock are dropped.
AskNews(block) ==
  LET found == Younger(item.foundNews, block.age)
      failed == IF item.failedNews = None /\ block.status \in Unavailable THEN block.status
                ELSE item.failedNews
      asking == [item EXCEPT !.askedNews = @ + 1, !.foundNews = found, !.failedNews = failed,
                             !.heard = @ \cup Heard(step, "source", block)
                                         \cup {<<step, "rows">> : x \in {found} \ {None}}]
  IN /\ step \in {"news", "major_news"} /\ Within(block)
     /\ IF asking.askedNews < NewsSources THEN GoOn(step, asking)
        ELSE GoOn(IF step = "news" THEN "major_news" ELSE "execute",
                  [asking EXCEPT !.blocks[step] = NewsBlock(found, failed),
                                 !.askedNews = 0, !.foundNews = None, !.failedNews = None])
-----------------------------------------------------------------------------
(* The modules. *)

Result(status) == [status |-> status, age |-> None, says |-> {}]

\* _technical_stance, by the trend's buy_signal.
Stance == [buy |-> "supportive", hold |-> "supportive", watch |-> "neutral", sell |-> "caution"]

\* _build_technical_module: analyze_symbol returns nothing on any exception.
TechnicalResults ==
  {Result("error")} \cup {[Result("ok") EXCEPT !.says = {Stance[signal]}] : signal \in DOMAIN Stance}

\* What the financial data of a cn symbol may hold; "dated" is the report's date.
FinancialParts == {"figures", "dated", "valuation", "growth"}

\* build_fundamental_context: the status of each block of a cn symbol.
Coverage(parts) ==
  LET Known(some) == IF parts \cap some # {} THEN "ok" ELSE "partial" IN
    [valuation |-> Known({"valuation"}), growth |-> Known({"growth"}),
     earnings |-> Known({"figures", "dated"}), institution |-> "partial",
     capital_flow |-> "not_supported", dragon_tiger |-> "not_supported", boards |-> "not_supported"]

ContextStatus(coverage) ==
  LET states == {coverage[b] : b \in DOMAIN coverage} IN
    IF states = {"not_supported"} THEN "not_supported"
    ELSE IF states \cap {"failed", "partial"} # {} THEN "partial" ELSE "ok"

\* build_market_not_supported_context.
NoContext == [b \in DOMAIN Coverage({}) |-> "not_supported"]

\* _build_cn_earnings_module: with no financial data the context is not supported.
CnEarnings ==
  {Result(ContextStatus(NoContext))} \cup
  {[status |-> ContextStatus(Coverage(parts)),
    age |-> IF "dated" \in parts THEN a ELSE None,
    says |-> ({"valuation"} \cap parts)
             \cup (IF parts \cap {"figures", "dated"} # {} THEN {"reported"} ELSE {})] :
     parts \in SUBSET FinancialParts, a \in Ages}

\* _build_us_earnings_module: the beat and miss analysis, which is always there to say
\* that it is unavailable, passes for a consensus; no report date is found.
UsEarnings == {Result("error"), [status |-> "ok", age |-> None, says |-> {"reported", "consensus"}]}

\* dcf, comps, lbo, three_statement and its scenarios: what their analyzers find.
ModelResults == {Result("ok"), Result("error")}

\* _build_competitive_module.
CompetitiveResults == {Result("ok"), Result("error")}

\* _build_earnings_preview_module.
EarningsPreview == Result(IF item.nextEarnings = "future" THEN "ok" ELSE "partial")

NewsBlocks == {item.blocks[b] : b \in {"anns_d", "news", "major_news"}}

\* _build_catalyst_timeline: the age of its newest event.
TimelineAge ==
  LET ages == {b.age : b \in NewsBlocks} \ {None} IN
    IF ages = {} THEN None ELSE CHOOSE a \in ages : \A b \in ages : a <= b

\* _build_catalysts_module: events from the announcements and news, or the next earnings.
Catalysts ==
    IF asked.market = "cn"
    THEN [Result(IF \E b \in NewsBlocks : b.status \in Unavailable \cup {"not_supported"}
                 THEN "partial" ELSE "ok")
            EXCEPT !.says = IF TimelineAge # None THEN {"events"} ELSE {}]
    ELSE [Result(IF item.nextEarnings = "future" THEN "ok" ELSE "partial")
            EXCEPT !.says = IF item.nextEarnings = "future" THEN {"events"} ELSE {}]

\* _build_model_update_module: a summary of what is executed; every module that it would
\* execute comes before it.
ModelUpdate == Result("ok")

\* _build_sector_overview_module: the competitive analysis once more.
SectorOverview == CompetitiveResults

\* _build_screen_module: no filters are ever given, so nothing is evaluated; it shows the
\* metrics that are known, and is ok without any.
Screen == {Result("ok"), [Result("ok") EXCEPT !.says = {"metrics"}]}

\* data_manager.get_financial_data answers nothing when its sources fail or have nothing.
\* The earnings of a cn symbol ask it, and the screen asks it once more (_screen_metrics);
\* neither says which of the two it was.
WithoutFigures(m, result) ==
  /\ asked.market = "cn"
  /\ \/ m = "earnings" /\ result = Result(ContextStatus(NoContext))
     \/ m = "screen" /\ result = Result("ok")

\* _execute_module: what the module may return.
Results(m) ==
  CASE m = "technical" -> TechnicalResults
    [] m \in RawModules -> {[status |-> item.blocks[m].status, age |-> item.blocks[m].age, says |-> {}]}
    [] m = "earnings" -> IF asked.market = "cn" THEN CnEarnings ELSE UsEarnings
    [] m \in {"dcf", "comps", "lbo", "three_statement", "three_statement_scenarios"} -> ModelResults
    [] m = "competitive" -> CompetitiveResults
    [] m = "sector_overview" -> SectorOverview
    [] m = "earnings_preview" -> {EarningsPreview}
    [] m = "catalysts" -> {Catalysts}
    [] m = "model_update" -> {ModelUpdate}
    [] m = "screen" -> Screen

\* _resolve_next_earnings_date compares a date without time zone with one that has one:
\* the exception ends the request.
Raises(m) == m \in {"earnings_preview", "catalysts"} /\ item.nextEarnings = "naive"

Execute ==
  /\ step = "execute"
  /\ Len(item.results) < Len(Modules)
  /\ LET m == Modules[Len(item.results) + 1] IN
       /\ ~Raises(m)
       /\ \E result \in Results(m), figuresFail \in BOOLEAN :
            /\ figuresFail => WithoutFigures(m, result)
            /\ GoOn("execute",
                    [item EXCEPT !.results = Append(@, result),
                                 !.heard = IF m \in RawModules THEN @
                                           ELSE @ \cup Heard(m, "module", result)
                                                  \cup IF figuresFail THEN {<<m, "figures">>} ELSE {}])

Raise ==
  /\ step = "execute"
  /\ Len(item.results) < Len(Modules) /\ Raises(Modules[Len(item.results) + 1])
  /\ answer' = [http |-> 500, status |-> None]
  /\ step' = "answered"
  /\ UNCHANGED <<asked, left, item, published, statuses>>
-----------------------------------------------------------------------------
(* The public item. *)

Has(m) == LET modules == Modules IN \E i \in DOMAIN modules : modules[i] = m
Of(m) == LET modules == Modules IN item.results[CHOOSE i \in DOMAIN modules : modules[i] = m]
StatusOf(m) == IF Has(m) THEN Of(m).status ELSE "none"
Says(m) == IF Has(m) THEN Of(m).says ELSE {}

\* Mutant: a module that failed on an error is no reason.
Reasons_NotError ==
  {Modules[i] : i \in {j \in DOMAIN Modules : item.results[j].status \notin {"ok", "empty", "error"}}}

\* _collect_partial_reasons: the modules with a status that is not good.
Reasons == {Modules[i] : i \in {j \in DOMAIN Modules : item.results[j].status \notin {"ok", "empty"}}}

\* _summarize_module_results: "empty" counts as good.
ItemStatus == IF \E m \in Critical(asked.market) : StatusOf(m) \in Unavailable THEN "failed"
              ELSE IF Reasons # {} THEN "partial" ELSE "ok"

\* _is_stale_date: no date is stale.
Stale(age, days) == age = None \/ age > days

EstimateAge == item.blocks["report_rc"].age
ReportAge == IF StatusOf("earnings") \in {"ok", "partial"} THEN Of("earnings").age ELSE None

\* _build_expectations_vs_reported.
Expectations ==
  LET estimate == EstimateAge # None \/ "consensus" \in Says("earnings")
      reported == Says("earnings") \cap {"reported", "consensus"} # {}
  IN CASE estimate /\ reported -> "comparable"
       [] estimate /\ ~reported -> "expectations_only"
       [] ~estimate /\ reported -> "reported_only"
       [] OTHER -> "insufficient"

\* _build_fundamental_quality: "covered" needs a coverage without a partial block, and
\* the institution block always is one.
Quality == IF StatusOf("earnings") \in {"ok", "partial"} THEN "partial" ELSE "limited"

\* _build_valuation_context.
ValuationKnown ==
  \/ asked.market = "us" /\ \E m \in {"dcf", "comps", "three_statement"} : StatusOf(m) = "ok"
  \/ "valuation" \in Says("earnings")

\* _build_catalyst_path.
CatalystsSeen == "events" \in Says("catalysts")

\* _build_price_action_confirmation.
PriceAction == IF Says("technical") = {} THEN "unavailable"
               ELSE CHOOSE s \in Says("technical") : TRUE

\* _build_cross_signal_alignment.
Alignment ==
  LET positive == Cardinality({k \in 1..4 : \/ k = 1 /\ Expectations = "comparable"
                                            \/ k = 2 /\ ValuationKnown
                                            \/ k = 3 /\ CatalystsSeen
                                            \/ k = 4 /\ PriceAction = "supportive"})
  IN IF positive >= 3 /\ PriceAction # "caution" THEN "aligned"
     ELSE IF PriceAction = "caution" /\ positive <= 1 THEN "caution"
     ELSE IF positive = 0 THEN "limited" ELSE "mixed"

\* _module_uses_fallback: the note is there in the requested window too.
UsesFallback(m) == m = "report_rc" /\ Has(m) /\ item.window # None

\* _module_has_heuristics: by name, or by a limitation of the module.
Heuristic(m) == Has(m) /\ m \in {"technical", "competitive", "sector_overview", "model_update"}

\* _build_risk_flags.
RiskFlags ==
  {f \in {"estimate_fallback_used", "stale_estimate_window", "partial_earnings_coverage",
          "no_visible_catalysts", "screen_not_evaluated", "technical_layer_contains_heuristics"} :
     \/ f = "estimate_fallback_used" /\ UsesFallback("report_rc")
     \/ f = "stale_estimate_window" /\ Stale(EstimateAge, 90)
     \/ f = "partial_earnings_coverage" /\ StatusOf("earnings") = "partial"
     \/ f = "no_visible_catalysts" /\ ~CatalystsSeen
     \/ f \in {"screen_not_evaluated", "technical_layer_contains_heuristics"}}

\* _build_evidence_strength: six dimensions, three points each at most.
Evidence ==
  LET states == {item.results[i].status : i \in DOMAIN Modules}
      good == Cardinality({i \in DOMAIN Modules : item.results[i].status = "ok"})
      reference == IF ReportAge # None THEN ReportAge ELSE EstimateAge
      points == <<IF \E m \in Critical(asked.market) : StatusOf(m) \in Unavailable THEN 1
                  ELSE IF asked.market = "cn" THEN 3 ELSE 2,
                  IF "partial" \in states THEN 2 ELSE IF states = {"ok"} THEN 3 ELSE 1,
                  IF Stale(reference, 180) THEN 1 ELSE IF Stale(reference, 45) THEN 2 ELSE 3,
                  IF good >= 4 THEN 3 ELSE IF good >= 2 THEN 2 ELSE 1,
                  IF \E i \in DOMAIN Modules : Heuristic(Modules[i]) THEN 1 ELSE 3,
                  IF \E i \in DOMAIN Modules : UsesFallback(Modules[i]) THEN 1 ELSE 3>>
      low == Cardinality({k \in 1..6 : points[k] = 1})
      total == points[1] + points[2] + points[3] + points[4] + points[5] + points[6]
  IN IF low >= 2 \/ total * 10 < 18 * 6 THEN "low"
     ELSE IF low >= 1 \/ total * 10 < 26 * 6 THEN "medium" ELSE "high"

\* _has_recent_rows: in the seven days before the end of the window.
Recent(age) == age # None /\ age <= 7

\* _build_summary: what is new; a history that stands for the window is not recent.
ChangeFlags ==
  {f \in {"report", "estimate", "catalyst"} :
     /\ asked.market = "cn"
     /\ Recent(CASE f = "report" -> item.blocks["research_report"].age
                 [] f = "estimate" -> EstimateAge
                 [] f = "catalyst" -> TimelineAge)}

\* _build_summary: the parts it has.
Sections ==
  {"research_strategy", "screen"}
  \cup {m \in {"technical", "earnings", "catalysts"} : StatusOf(m) \in {"ok", "partial"}}
  \cup (IF asked.market = "cn" THEN {"research", "change_flags"} ELSE {})
  \cup (IF asked.market = "us" \/ Has("model_update") THEN {"models"} ELSE {})

\* research_paths of _build_public_provenance: the modules each statement draws on.
DrawsOn ==
  LET cn == asked.market = "cn" IN
    [expectations |-> {"earnings"} \cup (IF cn THEN {"report_rc"} ELSE {}),
     quality |-> {"earnings"},
     valuation |-> {"earnings"} \cup (IF cn THEN {} ELSE {"dcf", "comps", "three_statement"}),
     catalysts |-> {"catalysts"},
     price |-> {"technical"},
     alignment |-> {"earnings", "catalysts", "technical"}
                   \cup (IF cn THEN {"report_rc"} ELSE {"dcf", "comps"}),
     flags |-> {Modules[i] : i \in DOMAIN Modules},
     evidence |-> {Modules[i] : i \in DOMAIN Modules}]

\* _build_public_provenance.
Provenance ==
  [statement \in DOMAIN DrawsOn |->
     LET from == {m \in DrawsOn[statement] : Has(m)} IN
       [modules |-> from,
        fallback |-> \E m \in from : UsesFallback(m),
        heuristic |-> \E m \in from : Heuristic(m)]]

\* _build_research_strategy.
Strategy ==
  [expectations |-> Expectations, quality |-> Quality, alignment |-> Alignment,
   flags |-> RiskFlags, evidence |-> Evidence]

\* _assemble_public_item with its summary and its meta.
PublicItem ==
  [status |-> ItemStatus, results |-> item.results, reasons |-> Reasons, heard |-> item.heard,
   window |-> item.window, metrics |-> "metrics" \in Says("screen"), sections |-> Sections,
   changes |-> ChangeFlags, provenance |-> Provenance, strategy |-> Strategy]

FinishItem ==
  /\ step = "execute"
  /\ Len(item.results) = Len(Modules)
  /\ Deliver(PublicItem)

\* _merge_item_statuses.
Respond ==
  /\ step = "respond"
  /\ answer' = [http |-> 200,
                status |-> IF \A i \in DOMAIN statuses : statuses[i] = "ok" THEN "ok" ELSE "partial"]
  /\ step' = "answered"
  /\ UNCHANGED <<asked, left, item, published, statuses>>

AnalyzeNext ==
  \/ \E r \in AnalyzeRequests, valid \in BOOLEAN : Ask(r, valid)
  \/ LookUpCn
  \/ \E next \in {"future", "none", "naive"} : LookUpUs(next)
  \/ LookUpNative
  \/ \E block \in Answers : \/ \E specific \in BOOLEAN : AskReportRc(block, specific)
                                                         \/ AskHistory(block, specific)
                            \/ AskResearch(block)
                            \/ AskAnnouncements(block)
                            \/ AskNews(block)
  \/ Execute
  \/ Raise
  \/ FinishItem
  \/ Respond

AnalyzeSpec == AnalyzeInit /\ [][AnalyzeNext]_analyzeVars
-----------------------------------------------------------------------------
(* Properties. *)

\* Every call that failed is a reason why the item is partial or failed, unless another
\* answer stands for what it would have given: a source of news that had rows, or the rows
\* of the history, which the item notes.  Announcements and news that the mode does not
\* list are told by the catalysts.  The code swallows two failures, and then shows nothing
\* in the place of what they would have given: a failed history looks like one without
\* rows about the stock, and the screen, asking for the figures a second time, is ok
\* without metrics.  (_summarize_module_results, _collect_partial_reasons, _screen_metrics)
FailuresTold ==
  published # None =>
    \A f \in {c \in published.heard : c[2] # "rows"} :
      \/ f[1] \in published.reasons /\ published.status \in {"partial", "failed"}
      \/ f[1] \in {"anns_d", "news", "major_news"} /\ "catalysts" \in published.reasons
      \/ f[2] = "source" /\ <<f[1], "rows">> \in published.heard
      \/ f[2] = "window" /\ published.window = "latest_stock_specific_report_date"
      \/ f = <<"report_rc", "history">> /\ published.window = "requested_window_no_specific_history"
      \/ f = <<"screen", "figures">> /\ ~published.metrics
=============================================================================
