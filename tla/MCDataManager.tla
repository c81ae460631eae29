--------------------------- MODULE MCDataManager ---------------------------
(* Instances of DataManager for TLC: the US market's two sources. *)
EXTENDS DataManager

CONSTANTS t1, t2

USKind == {"daily", "quote", "financial"}
USTried == [daily |-> <<"Yfinance", "AkShare">>, quote |-> <<"Yfinance", "AkShare">>,
            financial |-> <<"Yfinance">>]
USSupports == [daily |-> {"Yfinance", "AkShare"}, quote |-> {"Yfinance"},
               financial |-> {"Yfinance"}]
=============================================================================
