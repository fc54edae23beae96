---------------------- MODULE DelegatedVerifierProofs ----------------------
(***************************************************************************)
(* Proofs about DelegatedVerifier: checks of one transition at a time      *)
(* attenuate the whole lineage, for chains of any length, and the shared   *)
(* cache keeps revocation within what the profiles leave, for any number   *)
(* of threads.                                                             *)
(***************************************************************************)
EXTENDS DelegatedVerifier, FiniteSetTheorems, WellFoundedInduction, TLAPS

-----------------------------------------------------------------------------
(* Lists read as maps.                                                     *)

\* A nonempty set of indices has a last one.
LEMMA LastIndex ==
  ASSUME NEW n \in Nat, NEW S, S \subseteq 1..n, S # {}
  PROVE  \E i \in S : \A j \in S : j <= i
<1> DEFINE Tails == {i .. n : i \in S}
<1>1. Tails \subseteq FiniteSubsetsOf(Nat) /\ Tails # {}
  <2>1. \A i \in S : i .. n \in SUBSET Nat /\ i \in Int
    OBVIOUS
  <2>2. \A i \in S : IsFiniteSet(i .. n)
    BY <2>1, FS_Interval
  <2> QED
    BY <2>1, <2>2 DEF FiniteSubsetsOf
<1>2. PICK x \in S : \A y \in S : ~ (<<y .. n, x .. n>> \in StrictSubsetOrdering(Nat))
  <2>1. PICK T \in Tails : \A U \in Tails : ~ (<<U, T>> \in StrictSubsetOrdering(Nat))
    <3> HIDE DEF Tails
    <3> QED
      BY <1>1, FS_StrictSubsetOrderingWellFounded, WFMin
  <2> QED
    BY <2>1
<1>3. ASSUME NEW y \in S, x < y PROVE FALSE
  <2>1. y .. n \in SUBSET Nat /\ x .. n \in SUBSET Nat /\ y .. n \subseteq x .. n
    BY <1>3
  <2>2. x \in x .. n /\ x \notin y .. n
    BY <1>3
  <2> QED
    BY <1>2, <2>1, <2>2 DEF StrictSubsetOrdering
<1>4. \A y \in S : y <= x
  BY <1>3
<1> QED
  BY <1>4

\* Latest returns an item with the key that was asked for.
LEMMA LatestIsThere ==
  ASSUME NEW s, DOMAIN s = 1..Len(s), Len(s) \in Nat, NEW k \in Keys(s)
  PROVE  \E i \in DOMAIN s : Latest(s, k) = s[i] /\ s[i].key = k
<1> DEFINE S == {i \in DOMAIN s : s[i].key = k}
<1>1. S # {} /\ S \subseteq 1..Len(s)
  BY DEF Keys
<1>2. PICK i \in S : \A j \in S : j <= i
  BY <1>1, LastIndex
<1>3. \E m \in DOMAIN s : s[m].key = k /\ \A j \in DOMAIN s : s[j].key = k => j <= m
  BY <1>2
<1> QED
  BY <1>3 DEF Latest

-----------------------------------------------------------------------------
(* Attenuation is transitive.                                              *)

LEMMA DocumentsAre ==
  ASSUME NEW c \in Capsules
  PROVE  IsDocument(Doc[c])
BY DocumentAssumption

LEMMA PrefixTransitive ==
  ASSUME NEW u, NEW v, NEW w,
         DOMAIN u = 1..Len(u), Len(u) \in Nat, DOMAIN v = 1..Len(v), Len(v) \in Nat,
         DOMAIN w = 1..Len(w), Len(w) \in Nat,
         StartsWith(u, v), StartsWith(v, w)
  PROVE  StartsWith(u, w)
BY DEF StartsWith

LEMMA PrefixReflexive ==
  ASSUME NEW u, Len(u) \in Nat
  PROVE  StartsWith(u, u)
BY DEF StartsWith

LEMMA GrantsAre ==
  ASSUME NEW c \in Capsules, NEW g \in Doc[c].authority
  PROVE  IsGrant(g)
BY DocumentsAre DEF IsDocument

LEMMA ResourcesTransitive ==
  ASSUME NEW g, NEW h, NEW k, IsGrant(g), IsGrant(h), IsGrant(k),
         ResourceContained(g, h), ResourceContained(h, k)
  PROVE  ResourceContained(g, k)
<1>1. CASE k.match = "exact"
  BY <1>1 DEF ResourceContained
<1>2. CASE k.match # "exact" /\ h.match = "exact"
  BY <1>2 DEF ResourceContained
<1>3. CASE k.match # "exact" /\ h.match # "exact"
  BY <1>3, PrefixTransitive DEF ResourceContained, IsGrant
<1> QED
  BY <1>1, <1>2, <1>3

LEMMA LatestConstraint ==
  ASSUME NEW g, IsGrant(g), NEW k \in Keys(g.constraints)
  PROVE  IsConstraint(Latest(g.constraints, k)) /\ Latest(g.constraints, k).key = k
BY LatestIsThere DEF IsGrant

LEMMA ConstraintsTransitive ==
  ASSUME NEW a, NEW b, NEW c, IsConstraint(a), IsConstraint(b), IsConstraint(c),
         ConstraintAttenuates(a, b), ConstraintAttenuates(b, c)
  PROVE  ConstraintAttenuates(a, c)
<1>1. CASE c.op = "equals"
  BY <1>1 DEF ConstraintAttenuates
<1>2. CASE c.op = "decimal_lte"
  BY <1>2 DEF ConstraintAttenuates, IsConstraint
<1>3. CASE c.op = "set_subset"
  BY <1>3 DEF ConstraintAttenuates
<1> QED
  BY <1>1, <1>2, <1>3 DEF IsConstraint, Operators

LEMMA GrantsTransitive ==
  ASSUME NEW g, NEW h, NEW k, IsGrant(g), IsGrant(h), IsGrant(k),
         GrantContained(g, h), GrantContained(h, k)
  PROVE  GrantContained(g, k)
<1>1. g.action = k.action
  BY DEF GrantContained
<1>2. ResourceContained(g, k)
  BY ResourcesTransitive DEF GrantContained
<1>3. ASSUME NEW n \in Keys(k.constraints)
      PROVE  n \in Keys(g.constraints) /\ ConstraintAttenuates(Latest(g.constraints, n), Latest(k.constraints, n))
  <2>1. n \in Keys(h.constraints) /\ ConstraintAttenuates(Latest(h.constraints, n), Latest(k.constraints, n))
    BY <1>3 DEF GrantContained
  <2>2. n \in Keys(g.constraints) /\ ConstraintAttenuates(Latest(g.constraints, n), Latest(h.constraints, n))
    BY <2>1 DEF GrantContained
  <2> QED
    BY <1>3, <2>1, <2>2, LatestConstraint, ConstraintsTransitive
<1> QED
  BY <1>1, <1>2, <1>3 DEF GrantContained

LEMMA BudgetsAre ==
  ASSUME NEW c \in Capsules, NEW d \in Keys(Doc[c].budgets)
  PROVE  Latest(Doc[c].budgets, d).quantity \in Nat
<1>1. IsDocument(Doc[c])
  BY DocumentsAre
<1> QED
  BY <1>1, LatestIsThere DEF IsDocument

LEMMA AttenuationTransitive ==
  ASSUME NEW a \in Capsules, NEW b \in Capsules, NEW c \in Capsules,
         WindowKept(a, b), AuthorityKept(a, b), ObligationsKept(a, b), BudgetKept(a, b),
         WindowKept(b, c), AuthorityKept(b, c), ObligationsKept(b, c), BudgetKept(b, c)
  PROVE  WindowKept(a, c) /\ AuthorityKept(a, c) /\ ObligationsKept(a, c) /\ BudgetKept(a, c)
<1>d. IsDocument(Doc[a]) /\ IsDocument(Doc[b]) /\ IsDocument(Doc[c])
  BY DocumentsAre
<1>1. WindowKept(a, c)
  <2>1. /\ Doc[a].from \in Nat /\ Doc[b].from \in Nat /\ Doc[c].from \in Nat
        /\ Doc[a].until \in Nat /\ Doc[b].until \in Nat /\ Doc[c].until \in Nat
    BY <1>d DEF IsDocument
  <2> QED
    BY <2>1 DEF WindowKept
<1>2. AuthorityKept(a, c)
  <2>1. SUFFICES ASSUME NEW g \in Doc[c].authority
                 PROVE  \E k \in Doc[a].authority : GrantContained(g, k)
    BY DEF AuthorityKept
  <2>2. PICK h \in Doc[b].authority : GrantContained(g, h)
    BY <2>1 DEF AuthorityKept
  <2>3. PICK k \in Doc[a].authority : GrantContained(h, k)
    BY DEF AuthorityKept
  <2>4. IsGrant(g) /\ IsGrant(h) /\ IsGrant(k)
    BY <2>1, GrantsAre
  <2> QED
    BY <2>2, <2>3, <2>4, GrantsTransitive
<1>3. ObligationsKept(a, c)
  <2>1. SUFFICES ASSUME NEW i \in DOMAIN Doc[a].obligations, Doc[a].obligations[i].mandatory
                 PROVE  /\ Doc[a].obligations[i].key \in Keys(Doc[c].obligations)
                        /\ Latest(Doc[c].obligations, Doc[a].obligations[i].key) = Doc[a].obligations[i]
    BY DEF ObligationsKept
  <2> DEFINE o == Doc[a].obligations[i]
  <2>2. o.key \in Keys(Doc[b].obligations) /\ Latest(Doc[b].obligations, o.key) = o
    BY <2>1 DEF ObligationsKept
  <2>3. PICK j \in DOMAIN Doc[b].obligations : Doc[b].obligations[j] = o
    <3>1. DOMAIN Doc[b].obligations = 1..Len(Doc[b].obligations) /\ Len(Doc[b].obligations) \in Nat
      BY <1>d DEF IsDocument
    <3>2. PICK j \in DOMAIN Doc[b].obligations : Latest(Doc[b].obligations, o.key) = Doc[b].obligations[j]
      BY <2>2, <3>1, LatestIsThere
    <3> QED
      BY <2>2, <3>2
  <2> QED
    BY <2>1, <2>3 DEF ObligationsKept
<1>4. BudgetKept(a, c)
  <2>1. SUFFICES ASSUME NEW d \in Keys(Doc[c].budgets)
                 PROVE  /\ d \in Keys(Doc[a].budgets)
                        /\ Latest(Doc[c].budgets, d).unit = Latest(Doc[a].budgets, d).unit
                        /\ Latest(Doc[c].budgets, d).quantity <= Latest(Doc[a].budgets, d).quantity
    BY DEF BudgetKept
  <2>2. /\ d \in Keys(Doc[b].budgets)
        /\ Latest(Doc[c].budgets, d).unit = Latest(Doc[b].budgets, d).unit
        /\ Latest(Doc[c].budgets, d).quantity <= Latest(Doc[b].budgets, d).quantity
    BY <2>1 DEF BudgetKept
  <2>3. /\ d \in Keys(Doc[a].budgets)
        /\ Latest(Doc[b].budgets, d).unit = Latest(Doc[a].budgets, d).unit
        /\ Latest(Doc[b].budgets, d).quantity <= Latest(Doc[a].budgets, d).quantity
    BY <2>2 DEF BudgetKept
  <2>4. /\ Latest(Doc[a].budgets, d).quantity \in Nat
        /\ Latest(Doc[b].budgets, d).quantity \in Nat
        /\ Latest(Doc[c].budgets, d).quantity \in Nat
    BY <2>1, <2>2, <2>3, BudgetsAre
  <2> QED
    BY <2>2, <2>3, <2>4
<1> QED
  BY <1>1, <1>2, <1>3, <1>4

-----------------------------------------------------------------------------
(* The chain.                                                              *)

LEMMA LineageIs ==
  ASSUME NEW ch, IsChain(ch), Continuous(ch), NEW i \in 1..Len(ch)
  PROVE  /\ Lineage(ch)[i] = ch[i].parent /\ Lineage(ch)[i + 1] = ch[i].child
         /\ Lineage(ch)[i] \in Capsules /\ Lineage(ch)[i + 1] \in Capsules
<1>1. Len(ch) \in Nat /\ DOMAIN ch = 1..Len(ch) /\ ch[i].parent \in Capsules /\ ch[i].child \in Capsules
  BY DEF IsChain
<1>2. Lineage(ch)[i + 1] = ch[i].child
  BY <1>1 DEF Lineage
<1>3. Lineage(ch)[i] = ch[i].parent
  <2>1. CASE i = 1
    BY <1>1, <2>1 DEF Lineage
  <2>2. CASE i # 1
    <3>1. i - 1 \in 1..(Len(ch) - 1) /\ (i - 1) + 1 = i
      BY <1>1, <2>2
    <3>2. ch[i - 1].child = ch[i].parent
      BY <3>1 DEF Continuous
    <3>3. Lineage(ch)[i] = ch[i - 1].child
      BY <1>1, <2>2 DEF Lineage
    <3> QED
      BY <3>2, <3>3
  <2> QED
    BY <2>1, <2>2
<1> QED
  BY <1>1, <1>2, <1>3

LEMMA LineageMembers ==
  ASSUME NEW ch, IsChain(ch), Continuous(ch), NEW i \in 1..(Len(ch) + 1)
  PROVE  Lineage(ch)[i] \in Capsules
<1>1. Len(ch) \in Nat /\ Len(ch) > 0
  BY DEF IsChain, Continuous
<1>2. CASE i = 1
  BY <1>1, <1>2, LineageIs
<1>3. CASE i # 1
  <2>1. i - 1 \in 1..Len(ch) /\ (i - 1) + 1 = i
    BY <1>1, <1>3
  <2> QED
    BY <2>1, LineageIs
<1> QED
  BY <1>2, <1>3

LEMMA DepthSums ==
  ASSUME NEW x \in Nat, NEW y \in Nat, NEW z \in Nat, NEW n \in Nat, NEW i \in Nat, i <= n,
         x <= y - 1, y + (n - i) <= z
  PROVE  x + ((n + 1) - i) <= z
OBVIOUS

\* One more transition that holds: what was attenuated stays so with the child.
LEMMA AttenuationExtends ==
  ASSUME NEW ch, IsChain(ch), Continuous(ch), NEW n \in 1..Len(ch),
         Attenuated(ch, n), TransitionHolds(ch, n)
  PROVE  Attenuated(ch, n + 1)
<1> DEFINE L == Lineage(ch)
<1>0. Len(ch) \in Nat /\ n \in Nat /\ L[n] = ch[n].parent /\ L[n + 1] = ch[n].child
  BY LineageIs DEF IsChain
<1>c. \A i \in 1..(n + 1) : L[i] \in Capsules /\ Doc[L[i]].depth \in Nat
  <2>1. \A i \in 1..(n + 1) : i \in 1..(Len(ch) + 1)
    BY <1>0
  <2> QED
    BY <2>1, LineageMembers, DocumentsAre DEF IsDocument
<1>1. ValidDelegation(L[n], L[n + 1], Ancestors(ch, n))
  BY <1>0 DEF TransitionHolds
<1>2. /\ WindowKept(L[n], L[n + 1]) /\ AuthorityKept(L[n], L[n + 1])
      /\ ObligationsKept(L[n], L[n + 1]) /\ BudgetKept(L[n], L[n + 1])
      /\ DepthFalls(L[n], L[n + 1]) /\ Doc[L[n + 1]].id # Doc[L[n]].id
      /\ Doc[L[n + 1]].id \notin Ancestors(ch, n)
  BY <1>1 DEF ValidDelegation
<1>3. ASSUME NEW i \in 1..(n - 1)
      PROVE  Attenuates(L[i], L[n + 1]) /\ Doc[L[n + 1]].depth + ((n + 1) - i) <= Doc[L[i]].depth
  <2>1. Attenuates(L[i], L[n]) /\ Doc[L[n]].depth + (n - i) <= Doc[L[i]].depth
    BY <1>0 DEF Attenuated
  <2>2. i \in 1..Len(ch) /\ L[i] = ch[i].parent
    BY <1>0, LineageIs
  <2>3. Doc[L[n + 1]].id # Doc[L[i]].id
    BY <1>2, <2>2 DEF Ancestors
  <2>4. L[i] \in Capsules /\ L[n] \in Capsules /\ L[n + 1] \in Capsules
    BY <1>0, <1>c
  <2>5. Attenuates(L[i], L[n + 1])
    <3>1. WindowKept(L[i], L[n]) /\ AuthorityKept(L[i], L[n]) /\ ObligationsKept(L[i], L[n]) /\ BudgetKept(L[i], L[n])
      BY <2>1 DEF Attenuates
    <3> HIDE DEF L
    <3>2. /\ WindowKept(L[i], L[n + 1]) /\ AuthorityKept(L[i], L[n + 1])
          /\ ObligationsKept(L[i], L[n + 1]) /\ BudgetKept(L[i], L[n + 1])
      BY <3>1, <1>2, <2>4, AttenuationTransitive
    <3> QED
      BY <3>2, <2>3 DEF Attenuates
  <2>6. Doc[L[n + 1]].depth \in Nat /\ Doc[L[n]].depth \in Nat /\ Doc[L[i]].depth \in Nat
    BY <1>0, <1>c
  <2>7. Doc[L[n + 1]].depth <= Doc[L[n]].depth - 1
    BY <1>2 DEF DepthFalls
  <2> HIDE DEF L
  <2>8. Doc[L[n + 1]].depth + ((n + 1) - i) <= Doc[L[i]].depth
    <3>1. i \in Nat /\ i <= n
      BY <1>0, <1>3
    <3>2. Doc[L[n]].depth + (n - i) <= Doc[L[i]].depth
      BY <2>1
    <3> QED
      BY <1>0, <2>6, <2>7, <3>1, <3>2, DepthSums
  <2> QED
    BY <2>5, <2>8
<1>4. Attenuates(L[n], L[n + 1]) /\ Doc[L[n + 1]].depth + ((n + 1) - n) <= Doc[L[n]].depth
  <2>1. Doc[L[n + 1]].depth \in Nat /\ Doc[L[n]].depth \in Nat
    BY <1>0, <1>c
  <2>2. Attenuates(L[n], L[n + 1])
    BY <1>2 DEF Attenuates
  <2> HIDE DEF L
  <2>3. Doc[L[n + 1]].depth <= Doc[L[n]].depth - 1
    BY <1>2 DEF DepthFalls
  <2>4. (n + 1) - n = 1
    BY <1>0
  <2> QED
    BY <2>1, <2>2, <2>3, <2>4
<1>5. ASSUME NEW j \in 1..(n + 1), NEW i \in 1..(j - 1)
      PROVE  Attenuates(L[i], L[j]) /\ Doc[L[j]].depth + (j - i) <= Doc[L[i]].depth
  <2>1. CASE j # n + 1
    <3>1. j \in 1..n
      BY <1>0, <2>1
    <3> QED
      BY <3>1 DEF Attenuated
  <2>2. CASE j = n + 1 /\ i = n
    BY <1>4, <2>2
  <2>3. CASE j = n + 1 /\ i # n
    <3>1. i \in 1..(n - 1)
      BY <1>0, <2>3
    <3> QED
      BY <1>3, <2>3, <3>1
  <2> QED
    BY <2>1, <2>2, <2>3
<1> QED
  BY <1>5 DEF Attenuated

\* Nothing to attenuate in a lineage of one.
LEMMA AttenuationStarts ==
  ASSUME NEW ch
  PROVE  Attenuated(ch, 1)
<1>1. \A j \in 1..1 : 1..(j - 1) = {}
  OBVIOUS
<1> QED
  BY <1>1 DEF Attenuated

-----------------------------------------------------------------------------
(* What the leaf authorizes, its ancestors permit.                         *)

LEMMA VerifiesMonotone ==
  ASSUME NEW a, NEW b, IsConstraint(a), IsConstraint(b), a.key = b.key, ConstraintAttenuates(a, b),
         NEW q \in Proposals, Verifies(a, q)
  PROVE  Verifies(b, q)
<1>1. a.key \in DOMAIN q.parameters /\ a.op = b.op
  BY DEF Verifies, ConstraintAttenuates
<1>2. q.parameters[a.key].amount \in Nat
  BY <1>1, DocumentAssumption
<1>3. CASE b.op = "equals"
  BY <1>1, <1>3 DEF Verifies, ConstraintAttenuates
<1>4. CASE b.op = "decimal_lte"
  BY <1>1, <1>2, <1>4 DEF Verifies, ConstraintAttenuates, IsConstraint
<1>5. CASE b.op = "set_subset"
  BY <1>1, <1>5 DEF Verifies, ConstraintAttenuates
<1> QED
  BY <1>3, <1>4, <1>5 DEF IsConstraint, Operators

LEMMA MatchesMonotone ==
  ASSUME NEW g, NEW h, IsGrant(g), IsGrant(h), GrantContained(g, h), NEW q \in Proposals, Matches(g, q)
  PROVE  Matches(h, q)
<1>1. g.action = q.action /\ h.action = q.action
  BY DEF GrantContained, Matches
<1>2. DOMAIN q.resource = 1..Len(q.resource) /\ Len(q.resource) \in Nat
  BY DocumentAssumption
<1>3. ResourceContained(g, h)
  BY DEF GrantContained
<1>4. CASE h.match = "exact"
  BY <1>1, <1>3, <1>4 DEF ResourceContained, Matches
<1>5. CASE h.match # "exact" /\ g.match = "exact"
  BY <1>1, <1>3, <1>5 DEF ResourceContained, Matches
<1>6. CASE h.match # "exact" /\ g.match # "exact"
  <2>1. StartsWith(q.resource, g.uri) /\ StartsWith(g.uri, h.uri)
    BY <1>3, <1>6 DEF ResourceContained, Matches
  <2>2. StartsWith(q.resource, h.uri)
    BY <2>1, <1>2, PrefixTransitive DEF IsGrant
  <2> QED
    BY <1>1, <1>6, <2>2 DEF Matches
<1> QED
  BY <1>4, <1>5, <1>6

LEMMA AuthorizedIsPermitted ==
  ASSUME NEW a \in Capsules, NEW c \in Capsules, AuthorityKept(a, c), NEW q \in Proposals, Authorizes(c, q)
  PROVE  Permits(a, q)
<1>1. PICK g \in Doc[c].authority :
        Matches(g, q) /\ \A i \in DOMAIN g.constraints : Satisfied(g.constraints[i], q)
  BY DEF Authorizes
<1>2. PICK h \in Doc[a].authority : GrantContained(g, h)
  BY <1>1 DEF AuthorityKept
<1>3. IsGrant(g) /\ IsGrant(h)
  BY <1>1, <1>2, GrantsAre
<1>4. Matches(h, q)
  BY <1>1, <1>2, <1>3, MatchesMonotone
<1>5. ASSUME NEW k \in Keys(h.constraints) \cap Registered
      PROVE  Verifies(Latest(h.constraints, k), q)
  <2>1. k \in Keys(g.constraints) /\ ConstraintAttenuates(Latest(g.constraints, k), Latest(h.constraints, k))
    BY <1>2, <1>5 DEF GrantContained
  <2>2. PICK i \in DOMAIN g.constraints : Latest(g.constraints, k) = g.constraints[i] /\ g.constraints[i].key = k
    BY <1>3, <2>1, LatestIsThere DEF IsGrant
  <2>3. Verifies(Latest(g.constraints, k), q)
    BY <1>1, <1>5, <2>2 DEF Satisfied
  <2>4. /\ IsConstraint(Latest(g.constraints, k)) /\ Latest(g.constraints, k).key = k
        /\ IsConstraint(Latest(h.constraints, k)) /\ Latest(h.constraints, k).key = k
    BY <1>3, <1>5, <2>1, LatestConstraint
  <2> QED
    BY <2>1, <2>3, <2>4, VerifiesMonotone
<1> QED
  BY <1>4, <1>5 DEF Permits

\* A leaf permits what it authorizes.
LEMMA LeafPermits ==
  ASSUME NEW c \in Capsules, NEW q \in Proposals, Authorizes(c, q)
  PROVE  Permits(c, q)
<1>1. PICK g \in Doc[c].authority :
        Matches(g, q) /\ \A i \in DOMAIN g.constraints : Satisfied(g.constraints[i], q)
  BY DEF Authorizes
<1>2. ASSUME NEW k \in Keys(g.constraints) \cap Registered
      PROVE  Verifies(Latest(g.constraints, k), q)
  <2>1. PICK i \in DOMAIN g.constraints : Latest(g.constraints, k) = g.constraints[i] /\ g.constraints[i].key = k
    BY <1>1, <1>2, GrantsAre, LatestIsThere DEF IsGrant
  <2> QED
    BY <1>1, <1>2, <2>1 DEF Satisfied
<1> QED
  BY <1>1, <1>2 DEF Permits

LEMMA ObligationsHandedOn ==
  ASSUME NEW a \in Capsules, NEW c \in Capsules, ObligationsKept(a, c), NEW o \in Due(a)
  PROVE  o \in Due(c)
<1>1. PICK i \in DOMAIN Doc[a].obligations : o = Doc[a].obligations[i]
  BY DEF Due, Demands
<1>2. o.key \in Keys(Doc[c].obligations) /\ Latest(Doc[c].obligations, o.key) = o
  BY <1>1 DEF ObligationsKept, Due
<1>3. DOMAIN Doc[c].obligations = 1..Len(Doc[c].obligations) /\ Len(Doc[c].obligations) \in Nat
  BY DocumentsAre DEF IsDocument
<1>4. PICK j \in DOMAIN Doc[c].obligations : Latest(Doc[c].obligations, o.key) = Doc[c].obligations[j]
  BY <1>2, <1>3, LatestIsThere
<1> QED
  BY <1>2, <1>4 DEF Due, Demands

-----------------------------------------------------------------------------
(* What steps elsewhere leave alone.                                       *)

\* Time goes on and capsules are revoked as of the present.
AuthorityGrows ==
  /\ clock' \in Nat /\ clock <= clock'
  /\ \A c \in DOMAIN revoked : c \in DOMAIN revoked' /\ revoked'[c] = revoked[c]
  /\ \A c \in DOMAIN revoked' \ DOMAIN revoked : revoked'[c].at \in Nat /\ clock <= revoked'[c].at

LEMMA AuthorityStays ==
  ASSUME VerifierTypeOK, UNCHANGED authority
  PROVE  AuthorityGrows
BY DEF VerifierTypeOK, AuthorityGrows, authority

LEMMA TruthStays ==
  ASSUME VerifierTypeOK, AuthorityGrows, NEW c, NEW r, r.at \in Nat, Truthful(c, r)
  PROVE  Truthful(c, r)'
<1>1. /\ r.at <= clock /\ clock \in Nat
      /\ r.revoked  => c \in DOMAIN revoked /\ revoked[c].at <= r.at /\ r.cascade = revoked[c].cascade
      /\ ~r.revoked => (c \in DOMAIN revoked => r.at <= revoked[c].at)
  BY DEF Truthful, VerifierTypeOK
<1>2. r.at <= clock'
  BY <1>1 DEF AuthorityGrows
<1>3. r.revoked => c \in DOMAIN revoked' /\ revoked'[c].at <= r.at /\ r.cascade = revoked'[c].cascade
  BY <1>1 DEF AuthorityGrows
<1>4. ~r.revoked /\ c \in DOMAIN revoked' => r.at <= revoked'[c].at
  <2>1. CASE c \in DOMAIN revoked
    BY <1>1, <2>1 DEF AuthorityGrows
  <2>2. CASE c \notin DOMAIN revoked
    BY <1>1, <2>2 DEF AuthorityGrows
  <2> QED
    BY <2>1, <2>2
<1> QED
  BY <1>2, <1>3, <1>4 DEF Truthful

LEMMA CallsAre ==
  ASSUME VerifierTypeOK, NEW t \in Threads
  PROVE  /\ call[t] \in Calls /\ IsChain(Chain(t)) /\ call[t].proposal \in Proposals
         /\ Len(Chain(t)) \in Nat /\ Last(t) = Len(Chain(t)) + 1
         /\ place[t] \in Places /\ step[t] \in 1..Last(t) /\ now[t] \in Nat
<1>1. call[t] \in Calls /\ place[t] \in Places /\ step[t] \in Nat \ {0} /\ step[t] <= Last(t) /\ now[t] \in Nat
  BY DEF VerifierTypeOK
<1>2. IsChain(Chain(t)) /\ call[t].proposal \in Proposals
  BY <1>1, CallsAssumption DEF Chain
<1> QED
  BY <1>1, <1>2 DEF IsChain, Last

LEMMA SlackIs ==
  ASSUME NEW c \in Capsules
  PROVE  Slack(c) \in Nat /\ Lag <= Slack(c)
         /\ (Doc[c].profile = "bounded-stale" => Doc[c].staleness <= Slack(c))
BY DocumentsAre, CallsAssumption DEF Slack, Larger, IsDocument

LEMMA GoodTimeStays ==
  ASSUME VerifierTypeOK, AuthorityGrows, NEW t \in Threads, NEW i \in 1..Last(t), Continuous(Chain(t)),
         InGoodTime(t, i), now[t] <= clock, call' = call, now'[t] = now[t]
  PROVE  InGoodTime(t, i)'
<1> DEFINE c == Lineage(Chain(t))[i]
<1>1. c \in Capsules
  BY CallsAre, LineageMembers
<1>2. Lineage(Chain(t))[i]' = c /\ Last(t)' = Last(t)
  BY DEF Chain, Last
<1>3. Slack(c) \in Nat /\ now[t] \in Nat /\ clock \in Nat
  BY <1>1, SlackIs DEF VerifierTypeOK
<1>4. SUFFICES ASSUME c \in DOMAIN revoked', i = Last(t) \/ revoked'[c].cascade, Doc[c].profile # "offline-until-expiry"
               PROVE  now[t] <= revoked'[c].at + Slack(c)
  BY <1>2 DEF InGoodTime, Applies
<1> HIDE DEF c
<1>5. CASE c \in DOMAIN revoked
  <2>1. revoked'[c] = revoked[c]
    BY <1>5 DEF AuthorityGrows
  <2> QED
    BY <1>4, <1>5, <2>1 DEF InGoodTime, Applies, c
<1>6. CASE c \notin DOMAIN revoked
  <2>1. revoked'[c].at \in Nat /\ clock <= revoked'[c].at
    BY <1>4, <1>6 DEF AuthorityGrows
  <2> QED
    BY <1>3, <2>1
<1> QED
  BY <1>5, <1>6

\* What a call has established stays as long as its thread does nothing.
LEMMA CallStays ==
  ASSUME VerifierInv, AuthorityGrows, NEW t \in Threads,
         call' = call, place'[t] = place[t], step'[t] = step[t], now'[t] = now[t], answer'[t] = answer[t]
  PROVE  CallInv(t)'
<1>0. VerifierTypeOK /\ CallInv(t)
  BY DEF VerifierInv
<1>1. /\ Chain(t)' = Chain(t) /\ Last(t)' = Last(t) /\ Leaf(t)' = Leaf(t) /\ Item(t)' = Item(t)
      /\ Profile(t)' = Profile(t) /\ LineageVerified(t)' = LineageVerified(t)
  BY DEF Chain, Last, Leaf, Item, Profile, LineageVerified
<1>2. now'[t] <= clock'
  BY <1>0 DEF CallInv, VerifierTypeOK, AuthorityGrows
<1>3. ASSUME NEW i \in 1..Last(t), Continuous(Chain(t)), InGoodTime(t, i)
      PROVE  InGoodTime(t, i)'
  BY <1>0, <1>3, GoodTimeStays DEF CallInv
<1>4. place[t] \in AtStatus => \A i \in 1..(step[t] - 1) : InGoodTime(t, i)'
  <2>1. SUFFICES ASSUME place[t] \in AtStatus, NEW i \in 1..(step[t] - 1)
                 PROVE  InGoodTime(t, i)'
    OBVIOUS
  <2>2. i \in 1..Last(t)
    BY <1>0, CallsAre
  <2> QED
    BY <1>0, <1>3, <2>1, <2>2 DEF CallInv, LineageVerified
<1>5. place[t] \in {"grant", "passed"} => \A i \in 1..Last(t) : InGoodTime(t, i)'
  BY <1>0, <1>3 DEF CallInv, LineageVerified
<1>6. place[t] = "answered" => Truthful(Item(t), answer[t])'
  <2>1. SUFFICES ASSUME place[t] = "answered"
                 PROVE  Truthful(Item(t), answer[t])'
    OBVIOUS
  <2>2. Truthful(Item(t), answer[t]) /\ answer[t].at \in Nat
    BY <1>0, <2>1 DEF CallInv, Records, VerifierTypeOK
  <2> QED
    BY <1>0, <1>1, <2>2, TruthStays DEF Truthful
<1> QED
  BY <1>0, <1>1, <1>2, <1>4, <1>5, <1>6 DEF CallInv

-----------------------------------------------------------------------------
(* Steps of a call.                                                        *)

\* A step in which t alone moves.
Moves(t) ==
  /\ UNCHANGED <<authority, call>>
  /\ \A u \in Threads \ {t} :
       place'[u] = place[u] /\ step'[u] = step[u] /\ now'[u] = now[u] /\ answer'[u] = answer[u]
  /\ place' \in [Threads -> Places] /\ step' \in [Threads -> Nat \ {0}] /\ now' \in [Threads -> Nat]
  /\ answer' \in [Threads -> Records]
  /\ step'[t] <= Last(t)

CacheKept ==
  /\ DOMAIN cache' \subseteq Capsules
  /\ \A c \in DOMAIN cache' : cache'[c].at \in Nat /\ cache'[c].revoked \in BOOLEAN /\ cache'[c].cascade \in BOOLEAN
  /\ CacheTruthful'

LEMMA OneMoves ==
  ASSUME VerifierInv, NEW t \in Threads, Moves(t), CacheKept, CallInv(t)'
  PROVE  VerifierInv'
<1>1. VerifierTypeOK /\ AuthorityGrows
  BY AuthorityStays DEF VerifierInv, Moves
<1>2. \A u \in Threads : Last(u)' = Last(u)
  BY DEF Moves, Last, Chain
<1>3. VerifierTypeOK'
  <2>1. clock' \in Nat /\ DOMAIN revoked' \subseteq Capsules
        /\ (\A c \in DOMAIN revoked' : revoked'[c].at \in Nat /\ revoked'[c].cascade \in BOOLEAN)
        /\ call' \in [Threads -> Calls]
    BY <1>1 DEF Moves, authority, VerifierTypeOK
  <2>2. \A u \in Threads : step'[u] <= Last(u)
    BY <1>1 DEF Moves, VerifierTypeOK
  <2> QED
    BY <1>2, <2>1, <2>2 DEF Moves, CacheKept, VerifierTypeOK
<1>4. \A u \in Threads : CallInv(u)'
  <2>1. SUFFICES ASSUME NEW u \in Threads \ {t} PROVE CallInv(u)'
    OBVIOUS
  <2>2. call' = call
    BY DEF Moves
  <2> QED
    BY <1>1, <2>1, <2>2, CallStays DEF Moves
<1> QED
  BY <1>3, <1>4 DEF VerifierInv, CacheKept

\* The cache is not touched, or the truth is stored.
LEMMA CacheUntouched ==
  ASSUME VerifierInv, AuthorityGrows, UNCHANGED cache
  PROVE  CacheKept
<1>1. \A c \in DOMAIN cache : Truthful(c, cache[c])'
  <2>1. SUFFICES ASSUME NEW c \in DOMAIN cache PROVE Truthful(c, cache[c])'
    OBVIOUS
  <2>2. Truthful(c, cache[c]) /\ cache[c].at \in Nat
    BY DEF VerifierInv, CacheTruthful, VerifierTypeOK
  <2> QED
    BY <2>2, TruthStays DEF Truthful, VerifierInv
<1> QED
  BY <1>1 DEF CacheKept, VerifierInv, VerifierTypeOK, CacheTruthful, Truthful

LEMMA StoresTruth ==
  ASSUME VerifierInv, UNCHANGED authority, NEW c \in Capsules,
         NEW r, r.at \in Nat, r.revoked \in BOOLEAN, r.cascade \in BOOLEAN, Truthful(c, r), Store(c, r)
  PROVE  CacheKept
<1>0. VerifierTypeOK /\ CacheTruthful
  BY DEF VerifierInv
<1>1. DOMAIN cache' = DOMAIN cache \cup {c}
  BY DEF Store
<1>2. ASSUME NEW d \in DOMAIN cache'
      PROVE  /\ cache'[d].at \in Nat /\ cache'[d].revoked \in BOOLEAN /\ cache'[d].cascade \in BOOLEAN
             /\ Truthful(d, cache'[d])
  <2>1. CASE d # c \/ (c \in DOMAIN cache /\ r.at < cache[c].at)
    <3>1. d \in DOMAIN cache /\ cache'[d] = cache[d]
      BY <1>2, <2>1 DEF Store, Merged
    <3> QED
      BY <1>0, <3>1 DEF CacheTruthful, VerifierTypeOK
  <2>2. CASE d = c /\ ~(c \in DOMAIN cache /\ r.at < cache[c].at)
    <3>1. cache'[d] = r
      BY <1>1, <2>2 DEF Store, Merged
    <3> QED
      BY <2>2, <3>1
  <2> QED
    BY <2>1, <2>2
<1>3. \A d \in DOMAIN cache' : Truthful(d, cache[d])'
  BY <1>2 DEF Truthful, authority
<1> QED
  BY <1>0, <1>1, <1>2, <1>3 DEF CacheKept, CacheTruthful, VerifierTypeOK

LEMMA CallStarts ==
  ASSUME VerifierInv, NEW t \in Threads, Call(t)
  PROVE  VerifierInv'
<1>0. VerifierTypeOK /\ CallInv(t) /\ AuthorityGrows
  BY AuthorityStays DEF VerifierInv, Call
<1>1. Moves(t)
  <2>1. step' \in [Threads -> Nat \ {0}] /\ step'[t] = 1 /\ place' \in [Threads -> Places]
        /\ now' \in [Threads -> Nat]
    BY <1>0 DEF Call, Goto, Turn, VerifierTypeOK, Places
  <2>2. Last(t) \in Nat /\ 1 <= Last(t)
    BY <1>0, CallsAre
  <2> QED
    BY <1>0, <2>1, <2>2 DEF Call, Goto, Turn, Moves, VerifierTypeOK
<1>2. CacheKept
  BY <1>0, CacheUntouched DEF Call
<1>3. CallInv(t)'
  <2>1. /\ place'[t] = IF Continuous(Chain(t)) THEN "lineage" ELSE "refused"
        /\ step'[t] = 1
    BY <1>0 DEF Call, Goto, Turn, VerifierTypeOK
  <2>2. /\ place'[t] \notin AtStatus \cup {"grant", "passed"}
        /\ (place'[t] = "lineage" => Continuous(Chain(t)))
    BY <2>1 DEF AtStatus
  <2>3. now'[t] <= clock'
    BY <1>0 DEF Call, CallInv, authority
  <2>4. Chain(t)' = Chain(t)
    BY DEF Call, Chain
  <2>5. Attenuated(Chain(t), 1)
    BY AttenuationStarts
  <2> QED
    BY <2>1, <2>2, <2>3, <2>4, <2>5 DEF CallInv, LineageVerified, AtStatus
<1> QED
  BY <1>1, <1>2, <1>3, OneMoves

\* A call that is refused keeps nothing.
LEMMA CallRefused ==
  ASSUME VerifierInv, NEW t \in Threads, Goto(t, "refused"), UNCHANGED <<authority, call, step, now>>,
         answer' \in [Threads -> Records], \A u \in Threads \ {t} : answer'[u] = answer[u], CacheKept
  PROVE  VerifierInv'
<1>0. VerifierTypeOK /\ CallInv(t)
  BY DEF VerifierInv
<1>1. Moves(t) /\ place'[t] = "refused"
  BY <1>0 DEF Goto, Moves, VerifierTypeOK, Places
<1>2. CallInv(t)'
  BY <1>0, <1>1 DEF CallInv, LineageVerified, AtStatus, authority
<1> QED
  BY <1>1, <1>2, OneMoves

LEMMA TransitionChecked ==
  ASSUME VerifierInv, NEW t \in Threads, CheckTransition(t)
  PROVE  VerifierInv'
<1>0. VerifierTypeOK /\ CallInv(t) /\ AuthorityGrows
  BY AuthorityStays DEF VerifierInv, CheckTransition
<1>2. CacheKept
  BY <1>0, CacheUntouched DEF CheckTransition
<1>3. CASE TransitionHolds(Chain(t), step[t])
  <2>1. step' = [step EXCEPT ![t] = step[t] + 1] /\ place' = place
    BY <1>3 DEF CheckTransition, Turn
  <2>2. step[t] \in 1..Len(Chain(t)) /\ IsChain(Chain(t)) /\ Last(t) = Len(Chain(t)) + 1 /\ Len(Chain(t)) \in Nat
    BY <1>0, CallsAre DEF CheckTransition
  <2>3. Continuous(Chain(t)) /\ Attenuated(Chain(t), step[t])
    BY <1>0 DEF CheckTransition, CallInv
  <2>4. Attenuated(Chain(t), step[t] + 1)
    BY <1>3, <2>2, <2>3, AttenuationExtends
  <2>5. Moves(t)
    <3>1. step' \in [Threads -> Nat \ {0}] /\ step'[t] = step[t] + 1
      BY <1>0, <2>1 DEF VerifierTypeOK
    <3> QED
      BY <1>0, <2>1, <2>2, <3>1 DEF CheckTransition, Moves, VerifierTypeOK
  <2>6. CallInv(t)'
    <3>1. place'[t] = "lineage" /\ Chain(t)' = Chain(t) /\ step'[t] = step[t] + 1
      BY <1>0, <2>1 DEF CheckTransition, Chain, VerifierTypeOK
    <3>2. now'[t] <= clock'
      BY <1>0 DEF CheckTransition, CallInv, authority
    <3> QED
      BY <2>3, <2>4, <3>1, <3>2 DEF CallInv, LineageVerified, AtStatus
  <2> QED
    BY <1>2, <2>5, <2>6, OneMoves
<1>4. CASE ~TransitionHolds(Chain(t), step[t])
  BY <1>0, <1>2, <1>4, CallRefused DEF CheckTransition, VerifierTypeOK
<1> QED
  BY <1>3, <1>4

LEMMA LeafChecked ==
  ASSUME VerifierInv, NEW t \in Threads, CheckLeaf(t)
  PROVE  VerifierInv'
<1>0. VerifierTypeOK /\ CallInv(t) /\ AuthorityGrows
  BY AuthorityStays DEF VerifierInv, CheckLeaf
<1>2. CacheKept
  BY <1>0, CacheUntouched DEF CheckLeaf
<1>3. clock \in Nat /\ clock' = clock /\ now'[t] = clock
      /\ Last(t) \in Nat /\ 1 <= Last(t) /\ step[t] \in 1..Last(t)
  BY <1>0, CallsAre DEF CheckLeaf, VerifierTypeOK, authority
<1>4. Moves(t)
  <2>1. place' \in [Threads -> Places] /\ step' \in [Threads -> Nat \ {0}] /\ now' \in [Threads -> Nat]
    BY <1>0, <1>3 DEF CheckLeaf, Goto, Turn, VerifierTypeOK, Places, AtStatus
  <2>2. step'[t] \in 1..Last(t)
    BY <1>0, <1>3 DEF CheckLeaf, Goto, Turn, VerifierTypeOK
  <2> QED
    BY <1>0, <1>3, <2>1, <2>2 DEF CheckLeaf, Goto, Turn, Moves, VerifierTypeOK
<1>5. CASE AudienceIs(Leaf(t), call[t].presenter) /\ InForce(Leaf(t), clock)
  <2>1. place'[t] = "status" /\ step'[t] = 1
    BY <1>0, <1>5 DEF CheckLeaf, Goto, Turn, VerifierTypeOK
  <2>2. Chain(t)' = Chain(t) /\ Last(t)' = Last(t) /\ Leaf(t)' = Leaf(t)
    BY DEF CheckLeaf, Chain, Last, Leaf
  <2>3. Attenuated(Chain(t), Last(t)) /\ Continuous(Chain(t))
    BY <1>0 DEF CheckLeaf, CallInv
  <2>4. 1..(step'[t] - 1) = {}
    BY <2>1
  <2>5. CallInv(t)'
    BY <1>3, <1>5, <2>1, <2>2, <2>3, <2>4 DEF CallInv, LineageVerified, AtStatus
  <2> QED
    BY <1>2, <1>4, <2>5, OneMoves
<1>6. CASE ~(AudienceIs(Leaf(t), call[t].presenter) /\ InForce(Leaf(t), clock))
  <2>1. place'[t] = "refused" /\ now'[t] <= clock'
    BY <1>0, <1>3, <1>6 DEF CheckLeaf, Goto, VerifierTypeOK
  <2>2. CallInv(t)'
    BY <2>1 DEF CallInv, LineageVerified, AtStatus
  <2> QED
    BY <1>2, <1>4, <2>2, OneMoves
<1> QED
  BY <1>5, <1>6

-----------------------------------------------------------------------------
(* Steps that ask for a status.                                            *)

ItemOf(t) == Lineage(Chain(t))[step[t]]

LEMMA ItemsAre ==
  ASSUME VerifierInv, NEW t \in Threads, place[t] \in AtStatus
  PROVE  /\ Item(t) \in Capsules /\ Continuous(Chain(t)) /\ step[t] \in 1..Last(t) /\ Last(t) \in Nat
         /\ \A i \in 1..(step[t] - 1) : InGoodTime(t, i)
<1>0. VerifierTypeOK /\ CallInv(t)
  BY DEF VerifierInv
<1>1. Continuous(Chain(t)) /\ \A i \in 1..(step[t] - 1) : InGoodTime(t, i)
  BY <1>0 DEF CallInv, LineageVerified
<1>2. step[t] \in 1..Last(t) /\ IsChain(Chain(t)) /\ Last(t) = Len(Chain(t)) + 1 /\ Len(Chain(t)) \in Nat
  BY <1>0, CallsAre
<1>3. Item(t) \in Capsules
  BY <1>1, <1>2, LineageMembers DEF Item
<1> QED
  BY <1>1, <1>2, <1>3

\* A true record that does not stop the call and is recent enough.
LEMMA RecordClears ==
  ASSUME VerifierInv, NEW t \in Threads, place[t] \in AtStatus, NEW r, r.at \in Nat, Truthful(Item(t), r),
         ~Stops(t, r), now[t] <= r.at + Slack(Item(t))
  PROVE  InGoodTime(t, step[t])
<1> DEFINE c == Item(t)
<1>0. VerifierTypeOK /\ c \in Capsules
  BY ItemsAre DEF VerifierInv
<1>1. SUFFICES ASSUME Applies(t, step[t], c)
               PROVE  now[t] <= revoked[c].at + Slack(c)
  BY DEF InGoodTime, Item
<1>2. ~r.revoked
  BY <1>1 DEF Truthful, Stops, Applies
<1>3. r.at <= revoked[c].at
  BY <1>1, <1>2 DEF Truthful, Applies
<1>4. revoked[c].at \in Nat /\ Slack(c) \in Nat /\ now[t] \in Nat
  BY <1>0, <1>1, SlackIs DEF VerifierTypeOK, Applies
<1> HIDE DEF c
<1>5. now[t] <= r.at + Slack(c)
  BY DEF c
<1> QED
  BY <1>3, <1>4, <1>5

\* The call goes on to the next capsule, or to its grant.
LEMMA CallProceeds ==
  ASSUME VerifierInv, NEW t \in Threads, place[t] \in AtStatus, InGoodTime(t, step[t]), Proceed(t),
         UNCHANGED <<authority, call, now>>, answer' \in [Threads -> Records], \A u \in Threads \ {t} : answer'[u] = answer[u], CacheKept
  PROVE  VerifierInv'
<1>0. VerifierTypeOK /\ CallInv(t) /\ AuthorityGrows
  BY AuthorityStays DEF VerifierInv
<1>1. /\ Continuous(Chain(t)) /\ step[t] \in 1..Last(t) /\ Last(t) \in Nat
      /\ \A i \in 1..step[t] : InGoodTime(t, i)
  BY ItemsAre
<1>2. \A i \in 1..step[t] : InGoodTime(t, i)'
  <2>1. \A i \in 1..step[t] : i \in 1..Last(t)
    BY <1>1
  <2>2. now[t] <= clock /\ call' = call /\ now'[t] = now[t]
    BY <1>0 DEF CallInv
  <2> QED
    BY <1>0, <1>1, <2>1, <2>2, GoodTimeStays
<1>3. /\ Chain(t)' = Chain(t) /\ Last(t)' = Last(t) /\ Leaf(t)' = Leaf(t)
      /\ Attenuated(Chain(t), Last(t)) /\ InForce(Leaf(t), now[t]) /\ now'[t] = now[t] /\ now'[t] <= clock'
  BY <1>0 DEF Chain, Last, Leaf, CallInv, LineageVerified, authority
<1>4. CASE step[t] = Last(t)
  <2>1. place'[t] = "grant" /\ step' = step
    BY <1>0, <1>4 DEF Proceed, Goto, VerifierTypeOK
  <2>2. Moves(t)
    BY <1>0, <1>1, <1>4 DEF Proceed, Goto, Moves, VerifierTypeOK, Places
  <2>3. CallInv(t)'
    BY <1>1, <1>2, <1>3, <1>4, <2>1 DEF CallInv, LineageVerified, AtStatus
  <2> QED
    BY <2>2, <2>3, OneMoves
<1>5. CASE step[t] # Last(t)
  <2>1. place'[t] = "status" /\ step'[t] = step[t] + 1 /\ step' \in [Threads -> Nat \ {0}]
        /\ place' \in [Threads -> Places]
    BY <1>0, <1>5 DEF Proceed, Goto, Turn, VerifierTypeOK, Places, AtStatus
  <2>2. Moves(t)
    <3>1. step[t] + 1 <= Last(t)
      BY <1>1, <1>5
    <3> QED
      BY <1>0, <1>5, <2>1, <3>1 DEF Proceed, Goto, Turn, Moves, VerifierTypeOK
  <2>3. CallInv(t)'
    <3>1. step'[t] - 1 = step[t]
      BY <1>1, <2>1
    <3> QED
      BY <1>1, <1>2, <1>3, <2>1, <3>1 DEF CallInv, LineageVerified, AtStatus
  <2> QED
    BY <2>2, <2>3, OneMoves
<1> QED
  BY <1>4, <1>5

LEMMA CachedUsed ==
  ASSUME VerifierInv, NEW t \in Threads, UseCached(t)
  PROVE  VerifierInv'
<1> DEFINE c == Item(t)
<1>0. VerifierTypeOK /\ AuthorityGrows /\ place[t] \in AtStatus
  BY AuthorityStays DEF VerifierInv, UseCached, AtStatus
<1>1. CacheKept
  BY <1>0, CacheUntouched DEF UseCached
<1>2. CASE c \in DOMAIN cache /\ Stops(t, cache[c])
  BY <1>0, <1>1, <1>2, CallRefused DEF UseCached, Judge, VerifierTypeOK
<1>3. CASE ~(c \in DOMAIN cache /\ Stops(t, cache[c]))
  <2>1. Proceed(t)
    BY <1>3 DEF UseCached, Judge
  <2>2. InGoodTime(t, step[t])
    <3>1. CASE Profile(t) = "offline-until-expiry"
      BY <3>1 DEF InGoodTime, Profile, Item
    <3>2. CASE Profile(t) = "bounded-stale" /\ Fresh(t)
      <4>1. c \in DOMAIN cache /\ now[t] <= cache[c].at + Doc[c].staleness
        BY <3>2 DEF Fresh
      <4>2. c \in Capsules /\ cache[c].at \in Nat /\ Truthful(c, cache[c]) /\ ~Stops(t, cache[c])
        BY <1>0, <1>3, <4>1 DEF VerifierInv, VerifierTypeOK, CacheTruthful
      <4>3. Doc[c].staleness \in Nat /\ Doc[c].staleness <= Slack(c) /\ Slack(c) \in Nat /\ now[t] \in Nat
        BY <1>0, <3>2, <4>2, SlackIs, DocumentsAre DEF Profile, IsDocument, VerifierTypeOK
      <4>4. now[t] <= cache[c].at + Slack(c)
        <5> HIDE DEF c
        <5> QED
          BY <4>1, <4>2, <4>3
      <4> QED
        BY <1>0, <4>2, <4>4, RecordClears
    <3> QED
      BY <3>1, <3>2 DEF UseCached, TakesCached
  <2> QED
    BY <1>0, <1>1, <2>1, <2>2, CallProceeds DEF UseCached, VerifierTypeOK
<1> QED
  BY <1>2, <1>3

LEMMA StatusAsked ==
  ASSUME VerifierInv, NEW t \in Threads, AskStatus(t)
  PROVE  VerifierInv'
<1>0. VerifierTypeOK /\ CallInv(t) /\ AuthorityGrows /\ place[t] = "status"
  BY AuthorityStays DEF VerifierInv, AskStatus
<1>1. CacheKept
  BY <1>0, CacheUntouched DEF AskStatus
<1>2. Moves(t) /\ place'[t] = "asked"
  BY <1>0 DEF AskStatus, Goto, Moves, VerifierTypeOK, Places, AtStatus
<1>3. /\ Continuous(Chain(t)) /\ step[t] \in 1..Last(t)
      /\ \A i \in 1..(step[t] - 1) : InGoodTime(t, i)'
  <2>1. /\ Continuous(Chain(t)) /\ step[t] \in 1..Last(t) /\ Last(t) \in Nat
        /\ \A i \in 1..(step[t] - 1) : InGoodTime(t, i)
    BY <1>0, ItemsAre DEF AtStatus
  <2>2. \A i \in 1..(step[t] - 1) : i \in 1..Last(t)
    BY <2>1
  <2>3. now[t] <= clock /\ call' = call /\ now'[t] = now[t]
    BY <1>0 DEF CallInv, AskStatus
  <2> QED
    BY <1>0, <2>1, <2>2, <2>3, GoodTimeStays
<1>4. /\ Chain(t)' = Chain(t) /\ Last(t)' = Last(t) /\ Leaf(t)' = Leaf(t) /\ Profile(t)' = Profile(t)
      /\ step'[t] = step[t] /\ now'[t] = now[t] /\ clock' = clock
  BY DEF AskStatus, Chain, Last, Leaf, Profile, Item, authority
<1>5. Profile(t) # "offline-until-expiry"
  BY DEF AskStatus, NeedsLive
<1>6. CallInv(t)'
  BY <1>0, <1>2, <1>3, <1>4, <1>5 DEF CallInv, LineageVerified, AtStatus
<1> QED
  BY <1>1, <1>2, <1>6, OneMoves

LEMMA ProviderAnswered ==
  ASSUME VerifierInv, NEW t \in Threads, ProviderAnswers(t)
  PROVE  VerifierInv'
<1>0. VerifierTypeOK /\ CallInv(t) /\ AuthorityGrows /\ place[t] = "asked"
  BY AuthorityStays DEF VerifierInv, ProviderAnswers
<1>1. CacheKept
  BY <1>0, CacheUntouched DEF ProviderAnswers
<1>2. PICK s \in 0..clock : Recent(s) /\ \E r \in Truth(Item(t), s) : answer' = [answer EXCEPT ![t] = r]
  BY DEF ProviderAnswers
<1>3. PICK r \in Truth(Item(t), s) : answer' = [answer EXCEPT ![t] = r]
  BY <1>2
<1>4. r \in Records /\ r.at = s /\ clock \in Nat /\ now[t] \in Nat
  BY <1>0, <1>3 DEF Truth, Records, VerifierTypeOK
<1>5. Truthful(Item(t), r) /\ now[t] <= r.at + Lag
  <2>1. now[t] <= clock
    BY <1>0 DEF CallInv
  <2>2. Lag \in Nat
    BY CallsAssumption
  <2>3. Truthful(Item(t), r)
    BY <1>2, <1>3, <1>4 DEF Truth, Truthful, Recent
  <2> QED
    BY <1>2, <1>4, <2>1, <2>2, <2>3 DEF Recent
<1>6. Moves(t) /\ place'[t] = "answered" /\ answer'[t] = r
  <2>1. answer' \in [Threads -> Records] /\ answer'[t] = r /\ \A u \in Threads \ {t} : answer'[u] = answer[u]
    BY <1>0, <1>3, <1>4 DEF VerifierTypeOK
  <2>2. place' \in [Threads -> Places] /\ place'[t] = "answered" /\ \A u \in Threads \ {t} : place'[u] = place[u]
    BY <1>0 DEF ProviderAnswers, Goto, VerifierTypeOK, Places, AtStatus
  <2> QED
    BY <1>0, <2>1, <2>2 DEF ProviderAnswers, Moves, VerifierTypeOK
<1>7. /\ Continuous(Chain(t)) /\ step[t] \in 1..Last(t)
      /\ \A i \in 1..(step[t] - 1) : InGoodTime(t, i)'
  <2>1. /\ Continuous(Chain(t)) /\ step[t] \in 1..Last(t) /\ Last(t) \in Nat
        /\ \A i \in 1..(step[t] - 1) : InGoodTime(t, i)
    BY <1>0, ItemsAre DEF AtStatus
  <2>2. \A i \in 1..(step[t] - 1) : i \in 1..Last(t)
    BY <2>1
  <2>3. now[t] <= clock /\ call' = call /\ now'[t] = now[t]
    BY <1>0 DEF CallInv, ProviderAnswers
  <2> QED
    BY <1>0, <2>1, <2>2, <2>3, GoodTimeStays
<1>8. /\ Chain(t)' = Chain(t) /\ Last(t)' = Last(t) /\ Leaf(t)' = Leaf(t) /\ Profile(t)' = Profile(t)
      /\ Item(t)' = Item(t) /\ step'[t] = step[t] /\ now'[t] = now[t] /\ clock' = clock /\ revoked' = revoked
  BY DEF ProviderAnswers, Chain, Last, Leaf, Profile, Item, authority
<1>9. Truthful(Item(t), answer[t])'
  BY <1>5, <1>6, <1>8 DEF Truthful
<1>10. CallInv(t)'
  BY <1>0, <1>5, <1>6, <1>7, <1>8, <1>9 DEF CallInv, LineageVerified, AtStatus
<1> QED
  BY <1>1, <1>6, <1>10, OneMoves

LEMMA FetchEnded ==
  ASSUME VerifierInv, NEW t \in Threads, FetchEnds(t)
  PROVE  VerifierInv'
<1> DEFINE c == Item(t)
           r == answer[t]
<1>0. VerifierTypeOK /\ CallInv(t) /\ place[t] = "answered" /\ place[t] \in AtStatus
  BY DEF VerifierInv, FetchEnds, AtStatus
<1>1. /\ c \in Capsules /\ Truthful(c, r) /\ now[t] <= r.at + Lag
      /\ r.at \in Nat /\ r.revoked \in BOOLEAN /\ r.cascade \in BOOLEAN
  BY <1>0, ItemsAre DEF CallInv, VerifierTypeOK, Records
<1>2. CacheKept
  <2> HIDE DEF c, r
  <2>1. Store(c, r)
    BY DEF FetchEnds, c, r
  <2> QED
    BY <1>1, <2>1, StoresTruth DEF FetchEnds
<1>3. answer' \in [Threads -> Records] /\ \A u \in Threads \ {t} : answer'[u] = answer[u]
  BY <1>0 DEF FetchEnds, VerifierTypeOK, NoAnswer, Records
<1>4. CASE Stops(t, r)
  BY <1>2, <1>3, <1>4, CallRefused DEF FetchEnds, Judge
<1>5. CASE ~Stops(t, r)
  <2>1. Proceed(t)
    BY <1>5 DEF FetchEnds, Judge
  <2>2. Slack(c) \in Nat /\ Lag <= Slack(c) /\ Lag \in Nat /\ now[t] \in Nat
    BY <1>0, <1>1, SlackIs, CallsAssumption DEF VerifierTypeOK
  <2>3. now[t] <= r.at + Slack(c)
    <3> HIDE DEF c, r
    <3> QED
      BY <1>1, <2>2
  <2>4. InGoodTime(t, step[t])
    BY <1>0, <1>1, <1>5, <2>3, RecordClears
  <2> QED
    BY <1>0, <1>2, <1>3, <2>1, <2>4, CallProceeds DEF FetchEnds
<1> QED
  BY <1>4, <1>5

LEMMA CallDecided ==
  ASSUME VerifierInv, NEW t \in Threads, Decide(t)
  PROVE  VerifierInv'
<1>0. VerifierTypeOK /\ CallInv(t) /\ AuthorityGrows /\ place[t] = "grant"
  BY AuthorityStays DEF VerifierInv, Decide
<1>1. CacheKept
  BY <1>0, CacheUntouched DEF Decide
<1>2. Moves(t)
  BY <1>0 DEF Decide, Goto, Moves, VerifierTypeOK, Places
<1>3. /\ Chain(t)' = Chain(t) /\ Last(t)' = Last(t) /\ Leaf(t)' = Leaf(t) /\ call'[t] = call[t]
      /\ now'[t] = now[t] /\ clock' = clock
  BY DEF Decide, Chain, Last, Leaf, authority
<1>4. /\ Continuous(Chain(t)) /\ Attenuated(Chain(t), Last(t)) /\ InForce(Leaf(t), now[t]) /\ now[t] <= clock
      /\ \A i \in 1..Last(t) : InGoodTime(t, i)'
  <2>1. /\ Continuous(Chain(t)) /\ Attenuated(Chain(t), Last(t)) /\ InForce(Leaf(t), now[t]) /\ now[t] <= clock
        /\ \A i \in 1..Last(t) : InGoodTime(t, i)
    BY <1>0 DEF CallInv, LineageVerified
  <2> QED
    BY <1>0, <2>1, GoodTimeStays DEF Decide
<1>5. \/ place'[t] = "refused"
      \/ place'[t] = "passed" /\ Authorizes(Leaf(t), call[t].proposal)
           /\ \A o \in Due(Leaf(t)) : Discharges(o, call[t].proposal)
  BY <1>0 DEF Decide, Goto, VerifierTypeOK
<1>6. CallInv(t)'
  BY <1>3, <1>4, <1>5 DEF CallInv, LineageVerified, AtStatus
<1> QED
  BY <1>1, <1>2, <1>6, OneMoves

-----------------------------------------------------------------------------
(* Steps around the calls.                                                 *)

LEMMA AuthorityActed ==
  ASSUME VerifierInv, AuthorityGrows, UNCHANGED <<call, calls>>, CacheKept,
         DOMAIN revoked' \subseteq Capsules,
         \A c \in DOMAIN revoked' : revoked'[c].at \in Nat /\ revoked'[c].cascade \in BOOLEAN
  PROVE  VerifierInv'
<1>1. VerifierTypeOK'
  BY DEF VerifierInv, VerifierTypeOK, AuthorityGrows, CacheKept, calls, Last, Chain
<1>2. \A t \in Threads : CallInv(t)'
  BY CallStays DEF calls
<1> QED
  BY <1>1, <1>2 DEF VerifierInv, CacheKept

LEMMA WorldActed ==
  ASSUME VerifierInv, Around
  PROVE  VerifierInv'
<1>0. /\ VerifierTypeOK /\ clock \in Nat
      /\ \A c \in DOMAIN revoked : revoked[c].at \in Nat /\ revoked[c].cascade \in BOOLEAN
  BY DEF VerifierInv, VerifierTypeOK
<1>1. CASE Tick
  <2>1. AuthorityGrows
    BY <1>0, <1>1 DEF Tick, AuthorityGrows
  <2>2. CacheKept
    BY <1>1, <2>1, CacheUntouched DEF Tick
  <2> QED
    BY <1>0, <1>1, <2>1, <2>2, AuthorityActed DEF Tick, VerifierTypeOK
<1>2. ASSUME NEW c \in Capsules, NEW b \in BOOLEAN, NEW s \in Nat, Revoke(c, b, s) PROVE VerifierInv'
  <2>1. /\ DOMAIN revoked' = DOMAIN revoked \cup {c} /\ clock' = clock /\ clock <= s
        /\ revoked'[c] = [at |-> s, cascade |-> b]
        /\ \A d \in DOMAIN revoked : revoked'[d] = revoked[d]
    BY <1>2 DEF Revoke
  <2>2. AuthorityGrows
    BY <1>0, <2>1 DEF AuthorityGrows
  <2>3. CacheKept
    BY <1>2, <2>2, CacheUntouched DEF Revoke
  <2>4. /\ DOMAIN revoked' \subseteq Capsules
        /\ \A d \in DOMAIN revoked' : revoked'[d].at \in Nat /\ revoked'[d].cascade \in BOOLEAN
    BY <1>0, <2>1 DEF VerifierTypeOK
  <2> QED
    BY <1>2, <2>2, <2>3, <2>4, AuthorityActed DEF Revoke
<1>3. ASSUME NEW c \in Capsules, NEW s \in 0..clock, Notify(c, s) PROVE VerifierInv'
  <2> DEFINE r == [at |-> s, revoked |-> revoked[c].at <= s, cascade |-> revoked[c].cascade]
  <2>1. AuthorityGrows
    BY <1>0, <1>3, AuthorityStays DEF Notify
  <2>2. CacheKept
    <3>1. c \in DOMAIN revoked /\ revoked[c].at \in Nat /\ revoked[c].cascade \in BOOLEAN /\ s \in Nat /\ s <= clock
      BY <1>0, <1>3 DEF Notify
    <3>2. /\ r.at = s /\ r.cascade = revoked[c].cascade /\ r.revoked \in BOOLEAN
          /\ (r.revoked => revoked[c].at <= s) /\ (~r.revoked => ~(revoked[c].at <= s))
      <4>1. r.revoked = (revoked[c].at <= s) /\ (revoked[c].at <= s) \in BOOLEAN
        OBVIOUS
      <4> QED
        BY <4>1, Zenon
    <3>3. Store(c, r) /\ UNCHANGED authority
      BY <1>3 DEF Notify
    <3> HIDE DEF r
    <3>4. Truthful(c, r)
      BY <3>1, <3>2 DEF Truthful
    <3>5. r.at \in Nat /\ r.revoked \in BOOLEAN /\ r.cascade \in BOOLEAN
      BY <3>1, <3>2
    <3> QED
      BY <3>3, <3>4, <3>5, StoresTruth
  <2>3. clock' = clock /\ revoked' = revoked /\ UNCHANGED <<call, calls>>
    BY <1>3 DEF Notify, authority
  <2> QED
    BY <1>0, <2>1, <2>2, <2>3, AuthorityActed DEF VerifierTypeOK
<1>4. \A s \in clock..MaxTime : s \in Nat
  BY <1>0
<1> QED
  BY <1>1, <1>2, <1>3, <1>4 DEF Around

-----------------------------------------------------------------------------
(* The theorems.                                                           *)

LEMMA StepKeeps ==
  ASSUME VerifierInv, [VerifierNext]_dvars
  PROVE  VerifierInv'
<1>1. CASE Around
  BY <1>1, WorldActed
<1>2. ASSUME NEW t \in Threads, Call(t) \/ Serve(t) PROVE VerifierInv'
  <2>0. ASSUME UNCHANGED <<authority, call, step, now, cache, answer>>, Goto(t, "refused") PROVE VerifierInv'
    <3>1. AuthorityGrows /\ answer \in [Threads -> Records]
      BY <2>0, AuthorityStays DEF VerifierInv, VerifierTypeOK
    <3>2. CacheKept
      BY <2>0, <3>1, CacheUntouched
    <3> QED
      BY <2>0, <3>1, <3>2, CallRefused
  <2>1. CASE NoStatus(t)
    BY <2>0, <2>1 DEF NoStatus
  <2>2. CASE ProviderFails(t)
    BY <2>0, <2>2 DEF ProviderFails
  <2> QED
    BY <1>2, <2>1, <2>2, CallStarts, TransitionChecked, LeafChecked, CachedUsed, StatusAsked,
       ProviderAnswered, FetchEnded, CallDecided DEF Serve
<1>3. CASE UNCHANGED dvars
  <2>1. UNCHANGED <<authority, call, calls, cache>>
    BY <1>3 DEF dvars
  <2>2. AuthorityGrows
    BY <2>1, AuthorityStays DEF VerifierInv
  <2>3. CacheKept
    BY <2>1, <2>2, CacheUntouched
  <2>4. DOMAIN revoked' \subseteq Capsules /\ \A c \in DOMAIN revoked' :
          revoked'[c].at \in Nat /\ revoked'[c].cascade \in BOOLEAN
    BY <2>1 DEF authority, VerifierInv, VerifierTypeOK
  <2> QED
    BY <2>1, <2>2, <2>3, <2>4, AuthorityActed
<1> QED
  BY <1>1, <1>2, <1>3 DEF VerifierNext

LEMMA InitKeeps ==
  ASSUME VerifierInit
  PROVE  VerifierInv
<1>1. \A t \in Threads : Last(t) \in Nat /\ 1 <= Last(t)
  <2>1. \A t \in Threads : call[t] \in Calls
    BY DEF VerifierInit
  <2> QED
    BY <2>1, CallsAssumption DEF Last, Chain, IsChain
<1>2. VerifierTypeOK
  BY <1>1 DEF VerifierInit, VerifierTypeOK, Places, Records, NoAnswer
<1>3. \A t \in Threads : CallInv(t)
  BY DEF VerifierInit, CallInv, LineageVerified, AtStatus
<1> QED
  BY <1>2, <1>3 DEF VerifierInv, VerifierInit, CacheTruthful

\* VerifierInv is inductive: chains, clock, threads, authority and cache may
\* be anything, and any number of calls interleave.
THEOREM VerifierInvariant == VerifierSpec => []VerifierInv
<1>1. VerifierInit => VerifierInv
  BY InitKeeps
<1>2. VerifierInv /\ [VerifierNext]_dvars => VerifierInv'
  BY StepKeeps
<1> QED
  BY <1>1, <1>2, PTL DEF VerifierSpec

LEMMA InvAttenuates ==
  ASSUME VerifierInv
  PROVE  LineageIsAttenuated
BY DEF VerifierInv, CallInv, LineageIsAttenuated

\* The check of every transition against its direct parent makes each capsule
\* of a lineage, of any length, narrower than every one of its ancestors.
THEOREM LineageNarrows == VerifierSpec => []LineageIsAttenuated
<1>1. VerifierInv => LineageIsAttenuated
  BY InvAttenuates
<1> QED
  BY <1>1, VerifierInvariant, PTL

\* A call that has passed: its leaf is within each of its ancestors.
LEMMA PassedIs ==
  ASSUME VerifierInv, NEW t \in Threads, place[t] = "passed", NEW i \in 1..Last(t)
  PROVE  LET a == Lineage(Chain(t))[i] IN
         /\ a \in Capsules /\ Leaf(t) \in Capsules /\ call[t].proposal \in Proposals
         /\ a = Leaf(t) \/ Attenuates(a, Leaf(t))
         /\ Authorizes(Leaf(t), call[t].proposal) /\ InForce(Leaf(t), now[t])
         /\ \A o \in Due(Leaf(t)) : Discharges(o, call[t].proposal)
         /\ now[t] \in Nat
<1>0. VerifierTypeOK /\ CallInv(t)
  BY DEF VerifierInv
<1>1. /\ Continuous(Chain(t)) /\ Attenuated(Chain(t), Last(t)) /\ InForce(Leaf(t), now[t])
      /\ Authorizes(Leaf(t), call[t].proposal) /\ \A o \in Due(Leaf(t)) : Discharges(o, call[t].proposal)
  BY <1>0 DEF CallInv, LineageVerified
<1>2. IsChain(Chain(t)) /\ Len(Chain(t)) \in Nat /\ Last(t) = Len(Chain(t)) + 1 /\ call[t].proposal \in Proposals
      /\ now[t] \in Nat
  BY <1>0, CallsAre
<1>3. Lineage(Chain(t))[i] \in Capsules /\ Leaf(t) \in Capsules
  BY <1>1, <1>2, LineageMembers DEF Leaf
<1>4. Lineage(Chain(t))[i] = Leaf(t) \/ Attenuates(Lineage(Chain(t))[i], Leaf(t))
  <2>1. CASE i = Last(t)
    BY <2>1 DEF Leaf
  <2>2. CASE i # Last(t)
    <3>1. Last(t) \in 1..Last(t) /\ i \in 1..(Last(t) - 1)
      BY <1>2, <2>2
    <3> QED
      BY <1>1, <3>1 DEF Attenuated, Leaf
  <2> QED
    BY <2>1, <2>2
<1> QED
  BY <1>1, <1>2, <1>3, <1>4

LEMMA InvInherits ==
  ASSUME VerifierInv
  PROVE  AuthorityIsInherited /\ ObligationsAreInherited
<1>1. ASSUME NEW t \in Threads, place[t] = "passed", NEW i \in 1..Last(t)
      PROVE  LET a == Lineage(Chain(t))[i] IN
             /\ Permits(a, call[t].proposal) /\ InForce(a, now[t])
             /\ \A o \in Due(a) : Discharges(o, call[t].proposal)
  <2> DEFINE a == Lineage(Chain(t))[i]
             l == Leaf(t)
             q == call[t].proposal
  <2>1. /\ a \in Capsules /\ l \in Capsules /\ q \in Proposals /\ (a = l \/ Attenuates(a, l))
        /\ Authorizes(l, q) /\ InForce(l, now[t]) /\ \A o \in Due(l) : Discharges(o, q)
        /\ now[t] \in Nat
    BY <1>1, PassedIs
  <2> HIDE DEF a, l, q
  <2>2. Permits(a, q) /\ InForce(a, now[t]) /\ \A o \in Due(a) : Discharges(o, q)
    <3>1. CASE a = l
      BY <2>1, <3>1, LeafPermits
    <3>2. CASE Attenuates(a, l)
      <4>1. Permits(a, q)
        BY <2>1, <3>2, AuthorizedIsPermitted DEF Attenuates
      <4>2. /\ Doc[a].from \in Nat /\ Doc[l].from \in Nat /\ Doc[a].until \in Nat /\ Doc[l].until \in Nat
        BY <2>1, DocumentsAre DEF IsDocument
      <4>3. InForce(a, now[t])
        BY <2>1, <3>2, <4>2 DEF Attenuates, WindowKept, InForce
      <4>4. \A o \in Due(a) : o \in Due(l)
        BY <2>1, <3>2, ObligationsHandedOn DEF Attenuates
      <4> QED
        BY <2>1, <4>1, <4>3, <4>4
    <3> QED
      BY <2>1, <3>1, <3>2
  <2> QED
    BY <2>2 DEF a, q
<1> QED
  BY <1>1 DEF AuthorityIsInherited, ObligationsAreInherited

\* Asking the leaf alone is asking every ancestor, for what the receiver can
\* verify.
THEOREM AuthorityInherited == VerifierSpec => []AuthorityIsInherited
<1>1. VerifierInv => AuthorityIsInherited
  BY InvInherits
<1> QED
  BY <1>1, VerifierInvariant, PTL

\* No mandatory obligation is lost on the way down.
THEOREM ObligationsInherited == VerifierSpec => []ObligationsAreInherited
<1>1. VerifierInv => ObligationsAreInherited
  BY InvInherits
<1> QED
  BY <1>1, VerifierInvariant, PTL

LEMMA InvBites ==
  ASSUME VerifierInv
  PROVE  RevocationBites
BY DEF VerifierInv, CallInv, RevocationBites

\* The staleness a profile permits, and the age of what the provider hands out,
\* bound how long a revocation may go unnoticed, with any number of threads
\* sharing the cache and any delay of notices.
THEOREM RevocationHolds == VerifierSpec => []RevocationBites
<1>1. VerifierInv => RevocationBites
  BY InvBites
<1> QED
  BY <1>1, VerifierInvariant, PTL

\* A true record stored over a learned revocation leaves it learned.
LEMMA StoreKeepsLearned ==
  ASSUME VerifierInv, UNCHANGED authority, NEW d \in Capsules, NEW r, r.at \in Nat, Truthful(d, r), Store(d, r),
         NEW c \in Capsules, Learned(c)
  PROVE  Learned(c)'
<1>1. /\ c \in DOMAIN cache /\ cache[c].revoked /\ cache[c].at > revoked[c].at
      /\ c \in DOMAIN revoked /\ revoked[c].at \in Nat /\ cache[c].at \in Nat
  BY DEF Learned, VerifierInv, VerifierTypeOK, CacheTruthful, Truthful
<1>2. revoked' = revoked /\ c \in DOMAIN cache'
  BY <1>1 DEF Store, authority
<1>3. CASE c # d \/ r.at < cache[c].at
  <2>1. cache'[c] = cache[c]
    BY <1>1, <1>3 DEF Store, Merged
  <2> QED
    BY <1>1, <1>2, <2>1 DEF Learned
<1>4. CASE c = d /\ ~(r.at < cache[c].at)
  <2>1. cache'[c] = r
    BY <1>1, <1>4 DEF Store, Merged
  <2>2. r.at > revoked[c].at
    BY <1>1, <1>4
  <2>3. r.revoked
    BY <1>1, <1>4, <2>2 DEF Truthful
  <2> QED
    BY <1>2, <2>1, <2>2, <2>3 DEF Learned
<1> QED
  BY <1>3, <1>4

LEMMA StepKeepsLearned ==
  ASSUME VerifierInv, [VerifierNext]_dvars, NEW c \in Capsules, Learned(c)
  PROVE  Learned(c)'
<1>0. /\ VerifierTypeOK /\ CacheTruthful /\ c \in DOMAIN cache /\ c \in DOMAIN revoked
  BY DEF VerifierInv, Learned, CacheTruthful, Truthful
<1>1. CASE UNCHANGED cache /\ revoked'[c] = revoked[c]
  BY <1>1 DEF Learned
<1>2. ASSUME NEW t \in Threads, FetchEnds(t) PROVE Learned(c)'
  <2>1. CallInv(t) /\ place[t] = "answered" /\ Store(Item(t), answer[t])
    BY <1>2 DEF VerifierInv, FetchEnds
  <2>2. Item(t) \in Capsules /\ Truthful(Item(t), answer[t]) /\ answer[t].at \in Nat
    BY <1>0, <2>1, ItemsAre DEF CallInv, AtStatus, VerifierTypeOK, Records
  <2> QED
    BY <1>2, <2>1, <2>2, StoreKeepsLearned DEF FetchEnds
<1>3. ASSUME NEW d \in Capsules, NEW s \in 0..clock, Notify(d, s) PROVE Learned(c)'
  <2> DEFINE r == [at |-> s, revoked |-> revoked[d].at <= s, cascade |-> revoked[d].cascade]
  <2>1. Store(d, r) /\ UNCHANGED authority /\ d \in DOMAIN revoked /\ s \in Nat /\ s <= clock
    BY <1>0, <1>3 DEF Notify, VerifierTypeOK
  <2>2. r.revoked = (revoked[d].at <= s) /\ (revoked[d].at <= s) \in BOOLEAN
    OBVIOUS
  <2>3. /\ r.at = s /\ r.cascade = revoked[d].cascade /\ (r.revoked => revoked[d].at <= s)
        /\ (~r.revoked => ~(revoked[d].at <= s))
    BY <2>2, Zenon
  <2> HIDE DEF r
  <2>4. revoked[d].at \in Nat
    BY <1>0, <2>1 DEF VerifierTypeOK
  <2>5. Truthful(d, r)
    BY <2>1, <2>3, <2>4 DEF Truthful
  <2> QED
    BY <2>1, <2>3, <2>5, StoreKeepsLearned
<1>4. ASSUME NEW d \in Capsules, NEW b \in BOOLEAN, NEW s \in clock..MaxTime, Revoke(d, b, s) PROVE Learned(c)'
  <2>1. cache' = cache /\ d # c /\ revoked'[c] = revoked[c]
    BY <1>0, <1>4 DEF Revoke
  <2> QED
    BY <1>1, <2>1
<1>5. ASSUME NEW t \in Threads, Call(t) \/ Serve(t), ~FetchEnds(t) PROVE UNCHANGED cache /\ revoked'[c] = revoked[c]
  BY <1>5 DEF Serve, Call, CheckTransition, CheckLeaf, UseCached, AskStatus, NoStatus, ProviderAnswers,
     ProviderFails, Decide, authority
<1>6. CASE Tick \/ UNCHANGED dvars
  BY <1>1, <1>6 DEF Tick, dvars, authority
<1> QED
  BY <1>1, <1>2, <1>3, <1>4, <1>5, <1>6 DEF VerifierNext, Around

\* What the shared cache has learned of a revocation survives every late
\* answer and notice, in every interleaving.
THEOREM RevocationsAreNotForgotten == VerifierSpec => LearnedRevocationStays
<1>1. VerifierInv /\ VerifierInv' /\ [VerifierNext]_dvars => [\A c \in Capsules : Learned(c) => Learned(c)']_dvars
  BY StepKeepsLearned
<1> QED
  BY <1>1, VerifierInvariant, PTL DEF VerifierSpec, LearnedRevocationStays
=============================================================================
