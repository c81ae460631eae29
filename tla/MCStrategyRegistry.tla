------------------------- MODULE MCStrategyRegistry -------------------------
(* Instances of StrategyRegistry for TLC. *)
EXTENDS StrategyRegistry, TLC

CONSTANTS p1, p2, va, vb, pa, pb, ann, bob

Says(v, proposal, gate) == [version |-> v, proposal |-> proposal, gate |-> gate]

\* A verdict that counts for each version, a blocked one, and one on a proposal
\* that its version may not come from.
MCJudged == {Says(va, pa, "passed"), Says(vb, pb, "passed"), Says(vb, pa, "blocked")}

RegistrySymmetry == Permutations(Process)
=============================================================================
