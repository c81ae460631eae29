-------------------------------- MODULE MCDesk --------------------------------
(* An instance of Desk for TLC. *)
EXTENDS Desk

CONSTANTS t1, t2, t3, a1, a2, new1, old1, d1, d2, prospectus, allotment

MCLookback == [m1 |-> 1, m2 |-> 2]
MCMarketSymbols == <<"a", "b">>

MCAnalyzeRequests ==
  {[market |-> "cn", mode |-> "base", symbols |-> 1], [market |-> "us", mode |-> "full", symbols |-> 1],
   [market |-> "us", mode |-> "base", symbols |-> 2], [market |-> "cn", mode |-> "full", symbols |-> 0]}

MCSeriesRegion == [spx |-> "US", sse |-> "CN"]
MCIdentifiers ==
  [spx |-> {"fred", "yahoo_finance"}, sse |-> {"tencent", "eastmoney", "yahoo_finance"}]

MCTrades == [x |-> {1, 4, 5}, y |-> {1, 3}]
MCHalts == [x |-> {}, y |-> {2}]

\* A portal, the tracker and a broker's live page; one IPO is open and one is closed.
MCHeatSources ==
  <<[tracker |-> FALSE, live |-> FALSE], [tracker |-> TRUE, live |-> FALSE],
    [tracker |-> FALSE, live |-> TRUE]>>
MCHeatPool == <<TRUE, FALSE>>
MCPages ==
  {[dated |-> TRUE, window |-> FALSE, heat |-> [one_lot_success_rate |-> 5],
    structure |-> {"sponsor"}, valuation |-> {}],
   [dated |-> TRUE, window |-> TRUE, heat |-> [margin_multiple |-> 9],
    structure |-> {"greenshoe_pct", "cornerstone_investor_count", "cornerstone_offer_pct"},
    valuation |-> {"core_capability", "industry"}],
   [dated |-> FALSE, window |-> TRUE, heat |-> [subscription_multiple |-> 30],
    structure |-> {}, valuation |-> {"peer_pe", "fair_value_market_cap_range"}]}
MCRecords ==
  {[matches |-> FALSE],
   [matches |-> TRUE, multiple |-> 120, amount |-> 3, observed |-> "report_day"],
   [matches |-> TRUE, multiple |-> None, amount |-> 3, observed |-> "earlier"]}

MCListings == {<<>>, <<allotment, prospectus, allotment>>}
MCFieldsOf == [u \in Url |-> {"sponsor", "offer_market_cap"}]
MCEarlyFields == [u \in Url |-> {"sponsor"}]

\* Two spellings of one code, a code without a known prefix and what is no code.
MCCodeOf == [bank |-> "600000", bankSH |-> "600000", etf |-> "510300", odd |-> "400000", name |-> None]
MCQuoteLists ==
  {<<>>, <<"bankSH", "name", "bank", "etf">>, <<"etf", "odd", "etf", "bank">>, <<"name", "odd">>}

\* The threshold of the code.
MCBuyAbove == [x |-> 2]

\* A quote of now, one of the day before, and some without a time or a price; 3 is above the limit.
MCReviewQuotes ==
  {[price |-> 2, lag |-> 0], [price |-> 1, lag |-> 1], [price |-> 3, lag |-> None],
   [price |-> None, lag |-> 0]}

MCRoleOf == [h \in Handoff |-> "kol_researcher"]
=============================================================================
