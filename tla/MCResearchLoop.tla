--------------------------- MODULE MCResearchLoop ---------------------------
(* Instances of ResearchLoop for TLC: the reports are those the alpha pipeline
   makes of a few small warehouses. *)
EXTENDS ResearchLoop

CONSTANTS p1, r1, va, vb, pa, pb, ann, fa, fb, sx, sy

MCVersionOf == (fa :> va) @@ (fb :> vb)
MCProposalOf == (fa :> pa) @@ (fb :> pb)

MCLists == {<<fa, fb>>}

Pipeline == INSTANCE AlphaPipeline WITH
  Scale <- 100, MinBars <- 3, ShortWindow <- 1, LongWindow <- 2,
  Lookback <- (fa :> 1) @@ (fb :> 1)

Bars(closes) == [first |-> 1, closes |-> closes, etf |-> FALSE, adjust |-> 0]

\* A factor that works, one that works better, no bars at all.
Markets == {(sx :> Bars(<<4, 5, 6, 7>>)) @@ (sy :> Bars(<<8, 8, 8, 8>>)),
            (sx :> Bars(<<4, 6, 10, 20>>)) @@ (sy :> Bars(<<8, 8, 8, 8>>)),
            (sx :> Bars(<<>>)) @@ (sy :> Bars(<<>>))}

\* What the loop reads of a daily report.
Seen(m) ==
  LET r == Pipeline!Report(m, <<sx, sy>>, <<>>, "all", fa, {1}, None, None, 2, 2, 0) IN
    [proposal |-> IF r.proposes THEN r.backtest ELSE None,
     metrics |-> r.evaluation.metrics,
     observations |-> r.evaluation.observations,
     gaps |-> r.evaluation.gaps]

MCFound == {Seen(m) : m \in Markets}

\* A verdict of the strategy that is first tried: without metrics, and with one that few
\* challengers reach.
MCByHand ==
  {[proposal |-> pa, version |-> va, gate |-> "passed", rankIc |-> None, spread |-> spread] :
     spread \in {None, 40}}

MCBounds == [rankIc |-> 3, spread |-> 0, turnover |-> 100, observations |-> 2,
             rankIcDelta |-> 0, spreadDelta |-> 0, totalReturn |-> 0,
             drawdown |-> -100, periods |-> 1, allowGaps |-> FALSE]
=============================================================================
