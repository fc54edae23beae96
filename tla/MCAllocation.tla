---------------------------- MODULE MCAllocation ---------------------------
(* The allocation ledger with small budgets and a decimal context of one   *)
(* digit, so that the sums of a few allocations already exceed it.         *)
EXTENDS AllocationLedger, TLC
CONSTANTS p1, p2, c1, c2, c3, cost, tokens, usd, eur, count

Of(q, u)  == [quantity |-> q, unit |-> u]
Child(c, budget) == [child |-> c, budget |-> budget]

SmallLimits == (p1 :> (cost :> Of(9, usd) @@ tokens :> Of(2, count)) @@ p2 :> (cost :> Of(6, usd)))
SmallBatches ==
  { <<Child(c1, cost :> Of(6, usd))>>, <<Child(c2, cost :> Of(3, usd))>>,
    <<Child(c1, cost :> Of(4, usd)), Child(c2, cost :> Of(6, usd) @@ tokens :> Of(1, count))>>,
    <<Child(c3, tokens :> Of(2, count)), Child(c2, cost :> Of(1, usd))>>,
    <<Child(c3, cost :> Of(6, usd) @@ tokens :> Of(1, count))>>,
    <<Child(c3, cost :> Of(1, eur))>> }

LargeLimits  == (p1 :> (cost :> Of(10, usd)))
LargeBatches == {<<Child(c1, cost :> Of(9, usd))>>, <<Child(c2, cost :> Of(4, usd))>>, <<Child(c3, cost :> Of(5, usd))>>}
ThreadSymmetry == Permutations(Threads)
=============================================================================
