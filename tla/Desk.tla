--------------------------------- MODULE Desk ---------------------------------
(***************************************************************************)
(* The services that share no state, side by side: each behaviour is one   *)
(* of them at work, the others wait.                                       *)
(***************************************************************************)
EXTENDS AlphaMarket, StockAnalyze, MarketPack, WorkerTicks, SyncRuns, HkIpoHeat,
        HkIpoDocs, QuotePolling, TradingReview, AgentHandoff

VARIABLE service  \* which one is at work

deskVars == <<service, marketVars, analyzeVars, packVars, tickVars, syncVars, heatVars, docVars, quoteVars, reviewVars, vars>>

DeskInit ==
  /\ service \in {"alpha", "analyze", "pack", "tick", "sync", "heat", "docs", "quote", "review", "backtest", "handoff"}
  /\ MarketInit /\ AnalyzeInit /\ PackInit
  /\ TickInit /\ (service # "tick" => worker = "watch")
  /\ SyncInit /\ (service # "sync" => syncMarket = "cn")
  /\ HeatInit /\ (service # "heat" => includeClosed)
  /\ DocInit /\ (service # "docs" => \A p \in DocProcess : shared[p])
  /\ QuoteInit /\ ReviewInit
  /\ Init /\ (service # "handoff" => \A h \in Handoff : row[h].owner = None)

DeskNext ==
  /\ UNCHANGED service
  /\ \/ service = "alpha" /\ MarketNext /\ UNCHANGED <<analyzeVars, packVars, tickVars, syncVars, heatVars, docVars, quoteVars, reviewVars, vars>>
     \/ service = "analyze" /\ AnalyzeNext /\ UNCHANGED <<marketVars, packVars, tickVars, syncVars, heatVars, docVars, quoteVars, reviewVars, vars>>
     \/ service = "pack" /\ PackNext /\ UNCHANGED <<marketVars, analyzeVars, tickVars, syncVars, heatVars, docVars, quoteVars, reviewVars, vars>>
     \/ service = "tick" /\ TickNext /\ UNCHANGED <<marketVars, analyzeVars, packVars, syncVars, heatVars, docVars, quoteVars, reviewVars, vars>>
     \/ service = "sync" /\ SyncNext /\ UNCHANGED <<marketVars, analyzeVars, packVars, tickVars, heatVars, docVars, quoteVars, reviewVars, vars>>
     \/ service = "heat" /\ HeatNext /\ UNCHANGED <<marketVars, analyzeVars, packVars, tickVars, syncVars, docVars, quoteVars, reviewVars, vars>>
     \/ service = "docs" /\ DocNext /\ UNCHANGED <<marketVars, analyzeVars, packVars, tickVars, syncVars, heatVars, quoteVars, reviewVars, vars>>
     \/ service = "quote" /\ QuoteNext /\ UNCHANGED <<marketVars, analyzeVars, packVars, tickVars, syncVars, heatVars, docVars, reviewVars, vars>>
     \/ service = "review" /\ ReviewNext /\ UNCHANGED <<marketVars, analyzeVars, packVars, tickVars, syncVars, heatVars, docVars, quoteVars, vars>>
     \/ service = "backtest" /\ BacktestNext /\ UNCHANGED <<marketVars, analyzeVars, packVars, tickVars, syncVars, heatVars, docVars, quoteVars, vars>>
     \/ service = "handoff" /\ Next /\ UNCHANGED <<marketVars, analyzeVars, packVars, tickVars, syncVars, heatVars, docVars, quoteVars, reviewVars>>

DeskSpec == DeskInit /\ [][DeskNext]_deskVars
-----------------------------------------------------------------------------
\* Every answer tells what failed on the way: an analysis's item, and a quote's.
AnswersTold == FailuresTold /\ QuotesTold
=============================================================================
