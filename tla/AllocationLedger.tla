------------------------- MODULE AllocationLedger --------------------------
(***************************************************************************)
(* AllocationLedger (allocation.py): child budgets are reserved against a  *)
(* registered parent, a batch at a time.  The totals are recomputed from   *)
(* the recorded allocations on every call, with Python's Decimal, whose    *)
(* additions are rounded to the precision of the context.                  *)
(***************************************************************************)
EXTENDS BudgetVectors

CONSTANTS
  Threads,
  Parents,      \* capsules with a budget, by digest
  LimitsOf,     \* the budget of each parent
  Batches,      \* the batches that are asked for
  Digits,       \* precision of the decimal context, 28 by default
  None

ASSUME BudgetAssumption ==
  /\ \A p \in Parents : IsVector(LimitsOf[p])
  /\ \A batch \in Batches : IsBatch(batch)
  /\ Digits \in Nat \ {0}
  /\ None \notin Threads \cup Parents

VARIABLES
  registered,   \* the parents the ledger knows
  allocations,  \* per parent, the recorded allocations in the order of insertion
  lock,
  pc,
  call          \* the parent and the batch of the call a thread is in

vars == <<registered, allocations, lock, pc, call>>

-----------------------------------------------------------------------------
(* Decimal arithmetic.                                                     *)

Power[k \in Nat] == IF k = 0 THEN 1 ELSE 10 * Power[k - 1]

\* The number of digits beyond the precision.
Excess(n) == CHOOSE k \in 0..n : /\ n \div Power[k] < Power[Digits]
                                 /\ k = 0 \/ n \div Power[k - 1] >= Power[Digits]

\* Half to even, in the last digit that is kept.
Rounded(n) ==
  LET ulp  == Power[Excess(n)]
      kept == n \div ulp
      cut  == 2 * (n % ulp)
  IN  IF cut < ulp \/ (cut = ulp /\ kept % 2 = 0) THEN kept * ulp ELSE (kept + 1) * ulp

Plus(m, n) == Rounded(m + n)

-----------------------------------------------------------------------------
(* What a batch is checked for.                                            *)

\* totals[dimension], accumulated over a list of allocations.
Accumulated(s, d) ==
  LET total[i \in 0..Len(s)] ==
        IF i = 0 THEN 0
        ELSE IF d \in DOMAIN s[i].budget THEN Plus(total[i - 1], s[i].budget[d].quantity)
        ELSE total[i - 1]
  IN  total[Len(s)]

\* ... over what is recorded and then over the batch.
Total(p, batch, d) == Accumulated(allocations[p] \o batch, d)

\* Variant: a child that is recorded already is replaced.
IsNewUnchecked(p, batch) == TRUE

IsNew(p, batch) == ChildrenOf(batch) \cap ChildrenOf(allocations[p]) = {}

Comparable(p, batch) ==
  \A i \in DOMAIN batch : \A d \in DOMAIN batch[i].budget :
    d \in DOMAIN LimitsOf[p] /\ batch[i].budget[d].unit = LimitsOf[p][d].unit

\* Variant: a batch that uses the whole budget is refused.
WithinStrictly(p, batch) ==
  \A d \in DOMAIN LimitsOf[p] : Total(p, batch, d) < LimitsOf[p][d].quantity

Within(p, batch) ==
  \A d \in DOMAIN LimitsOf[p] : Total(p, batch, d) <= LimitsOf[p][d].quantity

Admits(p, batch) ==
  /\ p \in registered
  /\ IsNew(p, batch)
  /\ Comparable(p, batch)
  /\ Within(p, batch)

-----------------------------------------------------------------------------
(* Calls.  A dimension that occurs twice raises before the lock is taken.  *)

NoCall == [parent |-> None, batch |-> <<>>]

Return(t) ==
  /\ pc' = [pc EXCEPT ![t] = "idle"]
  /\ call' = [call EXCEPT ![t] = NoCall]

\* register_parent.  A digest is its content, so its limits never conflict.
RegisterParent(t, p) ==
  /\ pc[t] = "idle"
  /\ lock = None
  /\ registered' = registered \cup {p}
  /\ UNCHANGED <<allocations, lock, pc, call>>

CallAllocate(t, p, batch) ==
  /\ pc[t] = "idle"
  /\ pc' = [pc EXCEPT ![t] = "allocate"]
  /\ call' = [call EXCEPT ![t] = [parent |-> p, batch |-> batch]]
  /\ UNCHANGED <<registered, allocations, lock>>

\* Whichever check it is that raises.
Refuses(t) ==
  /\ pc[t] = "allocate"
  /\ lock = None
  /\ ~Admits(call[t].parent, call[t].batch)
  /\ Return(t)
  /\ UNCHANGED <<registered, allocations, lock>>

\* Variant: the totals are computed outside the lock.
ChecksUnlocked(t) ==
  /\ pc[t] = "allocate"
  /\ lock = None
  /\ Admits(call[t].parent, call[t].batch)
  /\ pc' = [pc EXCEPT ![t] = "update"]
  /\ UNCHANGED <<registered, allocations, lock, call>>

Checks(t) ==
  /\ pc[t] = "allocate"
  /\ lock = None
  /\ Admits(call[t].parent, call[t].batch)
  /\ lock' = t
  /\ pc' = [pc EXCEPT ![t] = "update"]
  /\ UNCHANGED <<registered, allocations, call>>

\* Variant: the ledger keeps the last batch only.
UpdatesLast(t) ==
  /\ pc[t] = "update"
  /\ allocations' = [allocations EXCEPT ![call[t].parent] = call[t].batch]
  /\ lock' = None
  /\ Return(t)
  /\ UNCHANGED registered

Updates(t) ==
  /\ pc[t] = "update"
  /\ allocations' = [allocations EXCEPT ![call[t].parent] = @ \o call[t].batch]
  /\ lock' = None
  /\ Return(t)
  /\ UNCHANGED registered

-----------------------------------------------------------------------------
Init ==
  /\ registered = {}
  /\ allocations = [p \in Parents |-> <<>>]
  /\ lock = None
  /\ pc = [t \in Threads |-> "idle"]
  /\ call = [t \in Threads |-> NoCall]

Next ==
  \E t \in Threads :
    \/ \E p \in Parents : RegisterParent(t, p)
    \/ \E p \in Parents, batch \in Batches : CallAllocate(t, p, batch)
    \/ Refuses(t) \/ Checks(t) \/ Updates(t)

Spec == Init /\ [][Next]_vars

-----------------------------------------------------------------------------
(* Properties.                                                             *)

\* Every variable keeps its type.
TypeOK ==
  /\ registered \subseteq Parents
  /\ DOMAIN allocations = Parents /\ \A p \in Parents : IsBatch(allocations[p])
  /\ lock \in Threads \cup {None}
  /\ pc \in [Threads -> {"idle", "allocate", "update"}]
  /\ call \in [Threads -> [parent : Parents, batch : Batches] \cup {NoCall}]

\* What is recorded, added up without rounding.
Issued(p, d) == Sum(allocations[p], d)

\* The budgets of the children that were issued never exceed the parent's, in
\* any dimension, whatever batches are asked for at the same time.
Conserved ==
  \A p \in Parents : \A d \in DOMAIN LimitsOf[p] : Issued(p, d) <= LimitsOf[p][d].quantity

\* What was checked still holds when the update is made, because the lock is
\* held from the one to the other.
AllocationInv ==
  /\ TypeOK
  /\ \A t \in Threads :
       /\ pc[t] # "idle"   => call[t] # NoCall
       /\ pc[t] = "update" => lock = t /\ Admits(call[t].parent, call[t].batch)

\* No limit has more digits than the decimal context.
Precise == \A p \in Parents : \A d \in DOMAIN LimitsOf[p] : LimitsOf[p][d].quantity < Power[Digits]

\* A batch that fits is not refused for its size: neither the rounding nor a
\* batch of another thread that was refused takes budget away.
Fits(p, batch) ==
  \A d \in DOMAIN LimitsOf[p] : Issued(p, d) + Sum(batch, d) <= LimitsOf[p][d].quantity

FittingIsNotRefused ==
  [][\A t \in Threads :
       LET p == call[t].parent IN
       Refuses(t) /\ p \in registered /\ IsNew(p, call[t].batch) /\ Comparable(p, call[t].batch)
         => ~Fits(p, call[t].batch)]_vars

\* The ledger is a budget authority: whole batches, out of the balance, for good.
Authority == INSTANCE BudgetAuthority WITH
  open     <- registered,
  balance  <- [p \in Parents |-> [d \in DOMAIN LimitsOf[p] |->
                 LimitsOf[p][d].quantity - Issued(p, d)]],
  children <- [p \in Parents |-> ChildrenOf(allocations[p])]

KeepsBudget == Authority!Spec
=============================================================================
