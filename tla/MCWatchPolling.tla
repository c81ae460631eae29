---------------------------- MODULE MCWatchPolling ----------------------------
(* An instance of WatchPolling for TLC. *)
EXTENDS WatchPolling, TLC

CONSTANTS r1, r2

Quote(price, low, ratio, turnover) ==
  [price |-> price, high |-> 130, low |-> low, volumeRatio |-> ratio, turnover |-> turnover]

\* Twenty-one daily bars that closed at 100, between 99 and 102 for twenty days.
MCDaily == [bars |-> 21, close |-> 100, high |-> 101, low |-> 99, recentHigh |-> 102,
            recentLow |-> 99, ratio |-> 10, analyzed |-> 9, trend |-> "bull"]

\* For the one symbol a calm quote, a quote without a price beside the bars, and no
\* answer at all; for the other a price of zero, which an alert divides by.
MCFacts ==
  ("AAPL" :>
     {[quote |-> Quote(105, 98, 18, 50), daily |-> MCDaily, complete |-> TRUE, earnings |-> 7],
      [quote |-> Quote(None, None, None, None), daily |-> MCDaily, complete |-> TRUE,
       earnings |-> 8],
      [quote |-> None, daily |-> None, complete |-> FALSE, earnings |-> -1]})
  @@
  ("600519" :>
     {[quote |-> Quote(0, 1, None, 150), daily |-> None, complete |-> TRUE,
       earnings |-> None],
      [quote |-> None, daily |-> None, complete |-> FALSE, earnings |-> -1]})

MCAsked == {<<"AAPL">>, <<"AAPL", "600519", "AAPL">>}

RequestSymmetry == Permutations(Request)
=============================================================================
