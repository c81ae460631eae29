------------------------------ MODULE AlphaMarket ------------------------------
(***************************************************************************)
(* The warehouse that the alpha services read, as it grows: every day      *)
(* brings a close for some symbols.  What was computed from the bars of    *)
(* one day is compared with what is computed from those of the next.       *)
(***************************************************************************)
EXTENDS AlphaPipeline

CONSTANTS
  MarketSymbols,  \* in the order of the universe
  MarketCloses,   \* what a close may be
  MarketDays,     \* how many days are modelled
  Windows         \* forward_windows of the evaluation

ASSUME MarketAssumption ==
  /\ Windows \subseteq Nat \ {0} /\ IsFiniteSet(Windows) /\ Windows # {}
  /\ None \notin Int

VARIABLES
  bars,   \* as `data` of AlphaPipeline
  today   \* how many days have passed

marketVars == <<bars, today>>

Order == [s \in ToSet(MarketSymbols) |-> CHOOSE i \in DOMAIN MarketSymbols : MarketSymbols[i] = s]

\* A symbol's history starts with its first close: there are no gaps after it.
MarketInit ==
  /\ bars = [s \in ToSet(MarketSymbols) |-> [closes |-> <<>>, first |-> 1, etf |-> FALSE, adjust |-> 0]]
  /\ today = 0

\* Every listed symbol gets a close; a new one may be listed.
NextDay(closes) ==
  /\ today < MarketDays
  /\ today' = today + 1
  /\ \A s \in DOMAIN bars : bars[s].closes # <<>> => s \in DOMAIN closes
  /\ bars' = [s \in DOMAIN bars |->
                IF s \notin DOMAIN closes THEN bars[s]
                ELSE [bars[s] EXCEPT !.closes = Append(@, closes[s]),
                                     !.first = IF bars[s].closes = <<>> THEN today' ELSE @]]

MarketNext == \E listed \in SUBSET DOMAIN bars : \E closes \in [listed -> MarketCloses] : NextDay(closes)

MarketSpec == MarketInit /\ [][MarketNext]_marketVars
-----------------------------------------------------------------------------
(* Properties. *)

\* The observations of the symbols whose history is longer than the longest window.
Settled(data, f) ==
  Frame(data, {s \in DOMAIN data : Len(data[s].closes) > Most(Windows)}, f, Windows, None, None)

\* What an evaluation has observed is final: later bars add observations of later days
\* and change none.  (A history no longer than the window is not cut, and its
\* observations do change; they carry the gap missing_forward_return.)
\* (_effective_end, _symbol_observations)
EvaluationIsFinal ==
  [][bars' # bars =>
       \A f \in Featured :
         /\ Settled(bars, f) \subseteq Settled(bars', f)
         /\ \A o \in Settled(bars', f) \ Settled(bars, f), p \in Settled(bars, f) :
              o.symbol = p.symbol => o.day > p.day]_marketVars
=============================================================================
