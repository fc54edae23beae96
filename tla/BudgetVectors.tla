--------------------------- MODULE BudgetVectors ---------------------------
(***************************************************************************)
(* Budgets and lists of allocations (allocation.py), and what a list of    *)
(* allocations takes of a dimension.                                       *)
(***************************************************************************)
EXTENDS Integers, Sequences

CONSTANTS
  Children,     \* child capsule ids
  Dimensions,
  Units

\* Quantities count a unit small enough for all of them to be whole.
IsVector(v) == DOMAIN v \subseteq Dimensions /\ v \in [DOMAIN v -> [quantity : Nat, unit : Units]]

\* What is asked for and what is recorded are dicts, by child.
IsBatch(batch) ==
  /\ batch \in Seq({batch[i] : i \in DOMAIN batch})
  /\ \A i \in DOMAIN batch :
       batch[i] \in [child : Children, budget : {batch[i].budget}] /\ IsVector(batch[i].budget)
  /\ \A i, j \in DOMAIN batch : batch[i].child = batch[j].child => i = j

ChildrenOf(s) == {s[i].child : i \in DOMAIN s}

Quantity(a, d) == IF d \in DOMAIN a.budget THEN a.budget[d].quantity ELSE 0

\* The exact sum, as the formal model defines it.
Sum(s, d) ==
  LET sum[i \in 0..Len(s)] == IF i = 0 THEN 0 ELSE sum[i - 1] + Quantity(s[i], d)
  IN  sum[Len(s)]
=============================================================================
