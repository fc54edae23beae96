-------------------------- MODULE BudgetAuthority --------------------------
(***************************************************************************)
(* What the allocation ledger promises (spec/formal-model-v0.1.md, I4): a  *)
(* parent has a balance per dimension, a batch of children is issued as a  *)
(* whole and only out of that balance, and nothing comes back.  No lock,   *)
(* no threads, exact arithmetic.                                           *)
(***************************************************************************)
EXTENDS BudgetVectors

CONSTANTS Parents, LimitsOf, Batches

VARIABLES
  open,      \* the parents whose balance is known
  balance,   \* per parent and dimension, what is left to delegate
  children   \* per parent, the children that were issued

vars == <<open, balance, children>>

Init ==
  /\ open = {}
  /\ balance = [p \in Parents |-> [d \in DOMAIN LimitsOf[p] |-> LimitsOf[p][d].quantity]]
  /\ children = [p \in Parents |-> {}]

Register(p) == open' = open \cup {p} /\ UNCHANGED <<balance, children>>

Issue(p, batch) ==
  /\ p \in open
  /\ \A i \in DOMAIN batch :
       /\ batch[i].child \notin children[p]
       /\ \A d \in DOMAIN batch[i].budget :
            /\ d \in DOMAIN LimitsOf[p]
            /\ batch[i].budget[d].unit = LimitsOf[p][d].unit
  /\ \A d \in DOMAIN LimitsOf[p] : Sum(batch, d) <= balance[p][d]
  /\ balance' = [balance EXCEPT ![p] = [d \in DOMAIN LimitsOf[p] |-> balance[p][d] - Sum(batch, d)]]
  /\ children' = [children EXCEPT ![p] = @ \cup ChildrenOf(batch)]
  /\ UNCHANGED open

Next == \E p \in Parents : Register(p) \/ \E batch \in Batches : Issue(p, batch)

Spec == Init /\ [][Next]_vars
=============================================================================
