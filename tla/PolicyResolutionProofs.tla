----------------------- MODULE PolicyResolutionProofs -----------------------
(***************************************************************************)
(* Proofs about PolicyResolution, for reports of any length: the decision  *)
(* is a function of the set of policies that are reported, one more        *)
(* blocking policy never loosens it, and automation blocks only what all   *)
(* policies block.                                                         *)
(***************************************************************************)
EXTENDS PolicyResolution, FiniteSetTheorems, WellFoundedInduction, TLAPS

LEMMA LeastExists ==
  ASSUME NEW S, S \subseteq Nat, S # {}
  PROVE  \E m \in S : \A n \in S : m <= n
<1> DEFINE Heads == {0 .. n : n \in S}
<1>1. Heads \subseteq FiniteSubsetsOf(Nat) /\ Heads # {}
  <2>1. \A n \in S : 0 .. n \in SUBSET Nat /\ n \in Int
    OBVIOUS
  <2>2. \A n \in S : IsFiniteSet(0 .. n)
    BY <2>1, FS_Interval
  <2> QED
    BY <2>1, <2>2 DEF FiniteSubsetsOf
<1>2. PICK m \in S : \A n \in S : ~ (<<0 .. n, 0 .. m>> \in StrictSubsetOrdering(Nat))
  <2>1. PICK T \in Heads : \A U \in Heads : ~ (<<U, T>> \in StrictSubsetOrdering(Nat))
    <3> HIDE DEF Heads
    <3> QED
      BY <1>1, FS_StrictSubsetOrderingWellFounded, WFMin
  <2> QED
    BY <2>1
<1>3. ASSUME NEW n \in S, n < m PROVE FALSE
  <2>1. 0 .. n \in SUBSET Nat /\ 0 .. m \in SUBSET Nat /\ 0 .. n \subseteq 0 .. m
    BY <1>3
  <2>2. m \in 0 .. m /\ m \notin 0 .. n
    BY <1>3
  <2> QED
    BY <1>2, <2>1, <2>2 DEF StrictSubsetOrdering
<1>4. \A n \in S : m <= n
  BY <1>3
<1> QED
  BY <1>4

-----------------------------------------------------------------------------
(* The policy of the highest rank, and the worst severity.                 *)

LEMMA WeightsAre ==
  ASSUME NEW e, IsEvaluation(e)
  PROVE  Weight(e.layer) \in 1..3 /\ e.id \in Nat /\ e.version \in Nat
BY DEF IsEvaluation, Weight, Layers

LEMMA LeaderIs ==
  ASSUME NEW E, E # {}, \A e \in E : IsEvaluation(e)
  PROVE  Leader(E) \in E /\ \A f \in E : Outranks(Leader(E), f)
<1>0. \A e \in E : Weight(e.layer) \in 1..3 /\ e.id \in Nat /\ e.version \in Nat
  BY WeightsAre
<1> DEFINE W == {3 - Weight(e.layer) : e \in E}
<1>1. PICK a \in E : \A f \in E : Weight(f.layer) <= Weight(a.layer)
  <2>1. W \subseteq Nat /\ W # {}
    BY <1>0
  <2>2. PICK m \in W : \A n \in W : m <= n
    <3> HIDE DEF W
    <3> QED
      BY <2>1, LeastExists
  <2>3. PICK a \in E : m = 3 - Weight(a.layer)
    BY <2>2
  <2>4. \A f \in E : 3 - Weight(a.layer) <= 3 - Weight(f.layer)
    BY <2>2, <2>3
  <2> QED
    BY <1>0, <2>4
<1> DEFINE A == {e \in E : Weight(e.layer) = Weight(a.layer)}
           I == {e.id : e \in A}
<1>2. PICK b \in A : \A f \in A : b.id <= f.id
  <2>1. I \subseteq Nat /\ I # {}
    BY <1>0
  <2>2. PICK m \in I : \A n \in I : m <= n
    <3> HIDE DEF I
    <3> QED
      BY <2>1, LeastExists
  <2> QED
    BY <2>2
<1> DEFINE B == {e \in A : e.id = b.id}
           V == {e.version : e \in B}
<1>3. PICK c \in B : \A f \in B : c.version <= f.version
  <2>1. V \subseteq Nat /\ V # {}
    BY <1>0
  <2>2. PICK m \in V : \A n \in V : m <= n
    <3> HIDE DEF V
    <3> QED
      BY <2>1, LeastExists
  <2> QED
    BY <2>2
<1>4. \A f \in E : Outranks(c, f)
  <2>1. SUFFICES ASSUME NEW f \in E PROVE Outranks(c, f)
    OBVIOUS
  <2>2. Weight(c.layer) = Weight(a.layer) /\ c.id = b.id
    BY <1>3
  <2>3. CASE f \notin A
    <3>1. Weight(f.layer) <= Weight(c.layer) /\ Weight(f.layer) # Weight(c.layer)
      BY <1>1, <2>1, <2>2, <2>3
    <3> QED
      BY <1>0, <1>3, <2>1, <3>1 DEF Outranks
  <2>4. CASE f \in A /\ f \notin B
    <3>1. Weight(f.layer) = Weight(c.layer) /\ c.id <= f.id /\ c.id # f.id
      BY <1>2, <2>2, <2>4
    <3> QED
      BY <1>0, <1>3, <2>1, <3>1 DEF Outranks
  <2>5. CASE f \in B
    BY <1>3, <2>2, <2>5 DEF Outranks
  <2> QED
    BY <2>3, <2>4, <2>5
<1>5. \E e \in E : \A f \in E : Outranks(e, f)
  BY <1>3, <1>4
<1> QED
  BY <1>5 DEF Leader

\* Policies of different keys do not share a rank.
LEMMA RanksDiffer ==
  ASSUME NEW e, NEW f, IsEvaluation(e), IsEvaluation(f), Outranks(e, f), Outranks(f, e)
  PROVE  e.id = f.id /\ e.version = f.version
BY WeightsAre DEF Outranks

LEMMA ConflictsAre ==
  ASSUME NEW values, NEW k \in Conflicts(values)
  PROVE  \E i, j \in DOMAIN values : /\ i < j /\ k = <<values[i], values[j]>> /\ k[1] = values[i] /\ k[2] = values[j]
                                     /\ Conflict(values[i], values[j])
BY DEF Conflicts

LEMMA ConflictIs ==
  ASSUME NEW values, NEW i \in DOMAIN values, NEW j \in DOMAIN values, i < j, Conflict(values[i], values[j])
  PROVE  <<values[i], values[j]>> \in Conflicts(values)
<1>1. <<i, j>> \in {p \in (DOMAIN values) \X (DOMAIN values) : p[1] < p[2] /\ Conflict(values[p[1]], values[p[2]])}
  OBVIOUS
<1> QED
  BY <1>1 DEF Conflicts

-----------------------------------------------------------------------------
(* The order of a report.                                                  *)

\* A conflict is between two policies, whichever is reported first.
LEMMA MembersConflict ==
  ASSUME NEW w, AreEvaluations(w), NEW i \in DOMAIN w, NEW j \in DOMAIN w, Conflict(w[i], w[j])
  PROVE  \E k \in Conflicts(w) : /\ {k[1], k[2]} = {w[i], w[j]} /\ Severity(k) = Weight(w[i].layer) * Weight(w[j].layer)
<1>0. DOMAIN w = 1..Len(w) /\ Len(w) \in Nat
  BY DEF AreEvaluations
<1>1. i # j /\ Conflict(w[j], w[i])
  BY DEF Conflict
<1>2. CASE i < j
  <2>1. <<w[i], w[j]>> \in Conflicts(w)
    BY <1>2, ConflictIs
  <2> QED
    BY <2>1 DEF Severity
<1>3. CASE j < i
  <2>1. <<w[j], w[i]>> \in Conflicts(w)
    BY <1>1, <1>3, ConflictIs
  <2>2. Weight(w[i].layer) \in Nat /\ Weight(w[j].layer) \in Nat
    BY WeightsAre DEF AreEvaluations
  <2>3. Weight(w[j].layer) * Weight(w[i].layer) = Weight(w[i].layer) * Weight(w[j].layer)
    BY <2>2
  <2>4. Severity(<<w[j], w[i]>>) = Weight(w[j].layer) * Weight(w[i].layer)
    BY DEF Severity
  <2> QED
    BY <2>1, <2>3, <2>4
<1>4. i < j \/ j < i
  BY <1>0, <1>1
<1> QED
  BY <1>2, <1>3, <1>4

\* Whatever conflicts in one report conflicts in one that contains it.
LEMMA ConflictsCarryOver ==
  ASSUME NEW v, NEW w, AreEvaluations(w), \A i \in DOMAIN v : \E j \in DOMAIN w : w[j] = v[i],
         NEW k \in Conflicts(v)
  PROVE  \E l \in Conflicts(w) : {l[1], l[2]} = {k[1], k[2]} /\ Severity(l) = Severity(k)
<1>1. PICK a, b \in DOMAIN v : k[1] = v[a] /\ k[2] = v[b] /\ Conflict(v[a], v[b])
  BY ConflictsAre
<1>2. PICK c, d \in DOMAIN w : w[c] = v[a] /\ w[d] = v[b]
  BY <1>1
<1>3. Severity(k) = Weight(w[c].layer) * Weight(w[d].layer)
  BY <1>1, <1>2 DEF Severity
<1>4. Conflict(w[c], w[d])
  BY <1>1, <1>2
<1>5. PICK l \in Conflicts(w) : {l[1], l[2]} = {w[c], w[d]} /\ Severity(l) = Weight(w[c].layer) * Weight(w[d].layer)
  BY <1>4, MembersConflict
<1> QED
  BY <1>1, <1>2, <1>3, <1>5

LEMMA PartiesCarryOver ==
  ASSUME NEW C, NEW D,
         \A k \in C : \E l \in D : {l[1], l[2]} = {k[1], k[2]} /\ Severity(l) = Severity(k),
         \A k \in D : \E l \in C : {l[1], l[2]} = {k[1], k[2]} /\ Severity(l) = Severity(k)
  PROVE  Parties(C) = Parties(D)
<1>1. \A x : x \in Parties(C) <=> \E k \in C : x \in {k[1], k[2]}
  BY DEF Parties
<1>2. \A x : x \in Parties(D) <=> \E k \in D : x \in {k[1], k[2]}
  BY DEF Parties
<1>3. \A x : x \in Parties(C) <=> x \in Parties(D)
  BY <1>1, <1>2, Zenon
<1> QED
  BY <1>3

\* The decision depends on which policies are reported, and not on the order.
THEOREM OrderDoesNotMatter ==
  ASSUME NEW v, NEW w, AreEvaluations(v), AreEvaluations(w), SameEvaluations(v, w),
         NEW confidence, NEW score
  PROVE  Resolve(v, confidence, score) = Resolve(w, confidence, score)
<1>1. /\ \A i \in DOMAIN v : \E j \in DOMAIN w : w[j] = v[i]
      /\ \A i \in DOMAIN w : \E j \in DOMAIN v : v[j] = w[i]
  BY DEF SameEvaluations
<1>2. \A effect : Reports(v, effect) <=> Reports(w, effect)
  BY <1>1 DEF Reports
<1>3. /\ \A k \in Conflicts(v) : \E l \in Conflicts(w) : {l[1], l[2]} = {k[1], k[2]} /\ Severity(l) = Severity(k)
      /\ \A k \in Conflicts(w) : \E l \in Conflicts(v) : {l[1], l[2]} = {k[1], k[2]} /\ Severity(l) = Severity(k)
  BY <1>1, ConflictsCarryOver
<1>4. Conflicts(v) = {} <=> Conflicts(w) = {}
  BY <1>3
<1>5. Parties(Conflicts(v)) = Parties(Conflicts(w))
  BY <1>3, PartiesCarryOver
<1>6. \A n : IsWorst(n, Conflicts(v)) <=> IsWorst(n, Conflicts(w))
  BY <1>3 DEF IsWorst
<1>7. WorstSeverity(Conflicts(v)) = WorstSeverity(Conflicts(w))
  BY <1>6 DEF WorstSeverity
<1>8. ResolveConflicts(Conflicts(v), confidence, score) = ResolveConflicts(Conflicts(w), confidence, score)
  BY <1>5, <1>7 DEF ResolveConflicts, PriorityEffect
<1> QED
  BY <1>2, <1>4, <1>8 DEF Resolve

-----------------------------------------------------------------------------
(* One more policy that blocks.                                            *)

LEMMA SeveritiesAre ==
  ASSUME NEW v, AreEvaluations(v), NEW k \in Conflicts(v)
  PROVE  Severity(k) \in 1..9 /\ IsEvaluation(k[1]) /\ IsEvaluation(k[2])
<1>1. IsEvaluation(k[1]) /\ IsEvaluation(k[2])
  BY ConflictsAre DEF AreEvaluations
<1>2. Weight(k[1].layer) \in {1, 2, 3} /\ Weight(k[2].layer) \in {1, 2, 3}
  BY <1>1, WeightsAre
<1>3. \A m \in {1, 2, 3}, n \in {1, 2, 3} : m * n \in 1..9
  OBVIOUS
<1> QED
  BY <1>1, <1>2, <1>3 DEF Severity

LEMMA WorstIs ==
  ASSUME NEW v, AreEvaluations(v), Conflicts(v) # {}
  PROVE  WorstSeverity(Conflicts(v)) \in 1..9 /\ IsWorst(WorstSeverity(Conflicts(v)), Conflicts(v))
<1> DEFINE S == {9 - Severity(k) : k \in Conflicts(v)}
<1>1. S \subseteq Nat /\ S # {}
  BY SeveritiesAre
<1>2. PICK m \in S : \A n \in S : m <= n
  <2> HIDE DEF S
  <2> QED
    BY <1>1, LeastExists
<1>3. PICK k \in Conflicts(v) : m = 9 - Severity(k)
  BY <1>2
<1>4. \A l \in Conflicts(v) : Severity(l) <= Severity(k)
  <2>1. \A l \in Conflicts(v) : 9 - Severity(k) <= 9 - Severity(l)
    BY <1>2, <1>3
  <2> QED
    BY <2>1, SeveritiesAre
<1>5. Severity(k) \in 1..9 /\ IsWorst(Severity(k), Conflicts(v))
  BY <1>4, SeveritiesAre DEF IsWorst
<1> QED
  BY <1>5 DEF WorstSeverity

\* What a decision is when nothing is escalated: everything blocks, nothing
\* does, or policies conflict, and then all of them are parties.
LEMMA Unanimous ==
  ASSUME NEW v, AreEvaluations(v), ~Reports(v, "REQUIRE_APPROVAL")
  PROVE  Conflicts(v) = {} <=> ~(Reports(v, "BLOCK") /\ Reports(v, "ALLOW"))
<1>0. \A i \in DOMAIN v : v[i].effect \in {"ALLOW", "BLOCK"}
  BY DEF AreEvaluations, IsEvaluation, Effects, Reports
<1>1. ASSUME Reports(v, "BLOCK"), Reports(v, "ALLOW") PROVE Conflicts(v) # {}
  BY <1>1, MembersConflict DEF Reports, Conflict
<1>2. ASSUME Conflicts(v) # {} PROVE Reports(v, "BLOCK") /\ Reports(v, "ALLOW")
  BY <1>0, <1>2, ConflictsAre DEF Reports, Conflict
<1> QED
  BY <1>1, <1>2

LEMMA AllAreParties ==
  ASSUME NEW v, AreEvaluations(v), ~Reports(v, "REQUIRE_APPROVAL"), Conflicts(v) # {}
  PROVE  Parties(Conflicts(v)) = {v[i] : i \in DOMAIN v}
<1>1. ASSUME NEW i \in DOMAIN v PROVE v[i] \in Parties(Conflicts(v))
  <2>1. PICK j \in DOMAIN v : v[j].effect # v[i].effect /\ v[j].effect # "REQUIRE_APPROVAL"
    BY Unanimous DEF Reports
  <2>2. Conflict(v[i], v[j])
    BY <2>1 DEF Conflict, Reports
  <2>3. PICK k \in Conflicts(v) : {k[1], k[2]} = {v[i], v[j]}
    BY <2>2, MembersConflict
  <2>4. v[i] = k[1] \/ v[i] = k[2]
    BY <2>3
  <2> QED
    BY <2>4 DEF Parties
<1>2. ASSUME NEW x \in Parties(Conflicts(v)) PROVE x \in {v[i] : i \in DOMAIN v}
  BY <1>2, ConflictsAre DEF Parties
<1> QED
  BY <1>1, <1>2

LEMMA ResolvesToDecision ==
  ASSUME NEW v, AreEvaluations(v), NEW confidence, NEW score
  PROVE  Resolve(v, confidence, score).decision \in Decisions
<1>1. CASE ~Reports(v, "REQUIRE_APPROVAL") /\ Conflicts(v) # {}
  <2> DEFINE e == Leader(Parties(Conflicts(v)))
  <2>1. e \in Parties(Conflicts(v))
    <3>1. Parties(Conflicts(v)) # {} /\ \A x \in Parties(Conflicts(v)) : IsEvaluation(x)
      <4>1. Parties(Conflicts(v)) = {v[i] : i \in DOMAIN v}
        BY <1>1, AllAreParties
      <4>2. DOMAIN v # {}
        BY <1>1, ConflictsAre
      <4> QED
        BY <4>1, <4>2 DEF AreEvaluations
    <3> QED
      BY <3>1, LeaderIs
  <2>2. e.effect \in {"ALLOW", "BLOCK"}
    BY <1>1, <2>1, AllAreParties DEF AreEvaluations, IsEvaluation, Effects, Reports
  <2> HIDE DEF e
  <2>3. Enforce(e.effect).decision \in Decisions
    BY <2>2 DEF Enforce, Escalation, Resolution, Decisions
  <2> QED
    BY <1>1, <2>3 DEF Resolve, ResolveConflicts, PriorityEffect, Escalation, Resolution, Decisions, e
<1>2. CASE Reports(v, "REQUIRE_APPROVAL") \/ Conflicts(v) = {}
  BY <1>2 DEF Resolve, Escalation, Resolution, Decisions
<1> QED
  BY <1>1, <1>2

\* One more blocking policy, wherever in the report and of whatever layer,
\* never makes the decision more permissive.
THEOREM BlocksTighten ==
  ASSUME NEW v, NEW w, AreEvaluations(v), AreEvaluations(w), ~Repeats(v),
         NEW b, b.effect = "BLOCK", {w[i] : i \in DOMAIN w} = {v[i] : i \in DOMAIN v} \cup {b},
         NEW confidence, NEW score
  PROVE  Strictness(Resolve(v, confidence, score).decision) <= Strictness(Resolve(w, confidence, score).decision)
<1>0. /\ \A i \in DOMAIN v : \E j \in DOMAIN w : w[j] = v[i]
      /\ \A j \in DOMAIN w : w[j] = b \/ \E i \in DOMAIN v : v[i] = w[j]
      /\ \E j \in DOMAIN w : w[j] = b
      /\ IsEvaluation(b)
  <2>1. \E j \in DOMAIN w : w[j] = b
    OBVIOUS
  <2> QED
    BY <2>1 DEF AreEvaluations
<1>1. CASE Reports(v, "REQUIRE_APPROVAL")
  <2>1. Reports(w, "REQUIRE_APPROVAL")
    BY <1>0, <1>1 DEF Reports
  <2> QED
    BY <1>1, <2>1 DEF Resolve, Escalation, Resolution, Strictness
<1>2. CASE ~Reports(v, "REQUIRE_APPROVAL") /\ Conflicts(v) = {} /\ ~Reports(v, "BLOCK")
  <2>1. Resolve(v, confidence, score).decision = "ALLOW"
    BY <1>2 DEF Resolve, Resolution
  <2>2. Resolve(w, confidence, score).decision \in Decisions
    BY ResolvesToDecision
  <2> QED
    BY <2>1, <2>2 DEF Strictness, Decisions
<1>3. CASE ~Reports(v, "REQUIRE_APPROVAL") /\ Conflicts(v) = {} /\ Reports(v, "BLOCK")
  <2>1. ~Reports(w, "REQUIRE_APPROVAL") /\ ~Reports(w, "ALLOW") /\ Reports(w, "BLOCK")
    BY <1>0, <1>3, Unanimous DEF Reports
  <2> QED
    BY <1>3, <2>1, Unanimous DEF Resolve, Resolution, Strictness
<1>4. CASE ~Reports(v, "REQUIRE_APPROVAL") /\ Conflicts(v) # {}
  <2>1. ~Reports(w, "REQUIRE_APPROVAL") /\ Conflicts(w) # {}
    <3>1. ~Reports(w, "REQUIRE_APPROVAL")
      BY <1>0, <1>4 DEF Reports
    <3> QED
      BY <1>0, <1>4, <3>1, ConflictsCarryOver
  <2> DEFINE m == WorstSeverity(Conflicts(v))
             n == WorstSeverity(Conflicts(w))
             e == Leader(Parties(Conflicts(v)))
             f == Leader(Parties(Conflicts(w)))
  <2>2. m \in Nat /\ n \in Nat /\ m <= n
    <3>1. /\ m \in 1..9 /\ IsWorst(m, Conflicts(v)) /\ n \in 1..9 /\ IsWorst(n, Conflicts(w))
      BY <1>4, <2>1, WorstIs
    <3>2. PICK k \in Conflicts(v) : m = Severity(k)
      BY <3>1 DEF IsWorst
    <3>3. PICK l \in Conflicts(w) : Severity(l) = m
      BY <1>0, <3>2, ConflictsCarryOver
    <3> QED
      BY <3>1, <3>3 DEF IsWorst
  <2>3. e.effect \in {"ALLOW", "BLOCK"} /\ (f = e \/ f.effect = "BLOCK")
    <3> DEFINE E == {v[i] : i \in DOMAIN v}
               F == {w[i] : i \in DOMAIN w}
    <3>1. Parties(Conflicts(v)) = E /\ Parties(Conflicts(w)) = F /\ F = E \cup {b}
      BY <1>4, <2>1, AllAreParties
    <3>2. E # {} /\ (\A x \in E : IsEvaluation(x)) /\ F # {} /\ (\A x \in F : IsEvaluation(x))
      BY <1>4, <3>1, ConflictsAre DEF AreEvaluations
    <3>3. \A x \in E : x.effect \in {"ALLOW", "BLOCK"}
      BY <1>4, <3>2 DEF Reports, IsEvaluation, Effects
    <3>4. \A x, y \in E : x.id = y.id /\ x.version = y.version => x = y
      BY DEF Repeats
    <3> HIDE DEF E, F
    <3>5. e \in E /\ \A x \in E : Outranks(e, x)
      BY <3>1, <3>2, LeaderIs
    <3>6. f \in F /\ \A x \in F : Outranks(f, x)
      BY <3>1, <3>2, LeaderIs
    <3>7. ASSUME f \in E PROVE f = e
      BY <3>1, <3>2, <3>4, <3>5, <3>6, <3>7, RanksDiffer
    <3> QED
      BY <3>1, <3>3, <3>5, <3>6, <3>7
  <2> DEFINE Decided(c, k, effect) ==
        IF c < MinimumConfidence \/ (k >= SeverityThreshold /\ score >= ReachThreshold) THEN "APPROVAL_REQUIRED"
        ELSE IF k >= SeverityThreshold THEN Enforce(effect).decision ELSE "ALLOW"
  <2>4. /\ Resolve(v, confidence, score).decision = Decided(confidence, m, e.effect)
        /\ Resolve(w, confidence, score).decision = Decided(confidence, n, f.effect)
    BY <1>4, <2>1 DEF Resolve, ResolveConflicts, PriorityEffect, Escalation, Resolution
  <2> HIDE DEF m, n, e, f
  <2>5. Strictness(Decided(confidence, m, e.effect)) <= Strictness(Decided(confidence, n, f.effect))
    <3>1. m >= SeverityThreshold => n >= SeverityThreshold
      BY <2>2, ConfigAssumption
    <3>2. \/ Enforce(f.effect) = Enforce(e.effect)
          \/ Enforce(f.effect).decision \in {"APPROVAL_REQUIRED", "BLOCK"} /\ Enforce(e.effect).decision = "ALLOW"
      BY <2>3 DEF Enforce, Resolution, Escalation
    <3>3. Enforce(e.effect).decision \in {"ALLOW", "BLOCK", "APPROVAL_REQUIRED"}
      BY <2>3 DEF Enforce, Resolution, Escalation
    <3>4. Enforce(f.effect).decision \in {"ALLOW", "BLOCK", "APPROVAL_REQUIRED"}
      BY <2>3 DEF Enforce, Resolution, Escalation
    <3> QED
      BY <3>1, <3>2, <3>3, <3>4 DEF Strictness
  <2> QED
    BY <2>4, <2>5
<1> QED
  BY <1>1, <1>2, <1>3, <1>4

\* With automated blocking prevented, only what all policies block is blocked.
THEOREM BlockedByAll ==
  ASSUME PreventAutomatedBlocking, NEW v, AreEvaluations(v), NEW confidence, NEW score
  PROVE  Resolve(v, confidence, score).decision = "BLOCK" <=> Len(v) > 0 /\ \A i \in DOMAIN v : v[i].effect = "BLOCK"
<1>0. DOMAIN v = 1..Len(v) /\ Len(v) \in Nat /\ \A i \in DOMAIN v : v[i].effect \in Effects
  BY DEF AreEvaluations, IsEvaluation
<1>1. CASE Reports(v, "REQUIRE_APPROVAL")
  BY <1>1 DEF Resolve, Escalation, Resolution, Reports
<1>2. CASE ~Reports(v, "REQUIRE_APPROVAL") /\ Conflicts(v) # {}
  <2>1. Resolve(v, confidence, score).decision # "BLOCK"
    BY <1>2 DEF Resolve, ResolveConflicts, Enforce, Escalation, Resolution
  <2>2. Reports(v, "ALLOW")
    BY <1>2, Unanimous
  <2> QED
    BY <2>1, <2>2 DEF Reports
<1>3. CASE ~Reports(v, "REQUIRE_APPROVAL") /\ Conflicts(v) = {}
  <2>1. Resolve(v, confidence, score).decision = "BLOCK" <=> Reports(v, "BLOCK")
    BY <1>3 DEF Resolve, Resolution
  <2>2. ~(Reports(v, "BLOCK") /\ Reports(v, "ALLOW"))
    BY <1>3, Unanimous
  <2>3. Reports(v, "BLOCK") <=> Len(v) > 0 /\ \A i \in DOMAIN v : v[i].effect = "BLOCK"
    <3>1. ASSUME Reports(v, "BLOCK"), NEW i \in DOMAIN v PROVE Len(v) > 0 /\ v[i].effect = "BLOCK"
      <4>1. v[i].effect # "ALLOW" /\ v[i].effect # "REQUIRE_APPROVAL"
        BY <1>3, <2>2, <3>1 DEF Reports
      <4> QED
        BY <1>0, <4>1 DEF Effects
    <3>2. ASSUME Reports(v, "BLOCK") PROVE Len(v) > 0
      BY <1>0, <3>2 DEF Reports
    <3>3. ASSUME Len(v) > 0, \A i \in DOMAIN v : v[i].effect = "BLOCK" PROVE Reports(v, "BLOCK")
      <4>1. 1 \in DOMAIN v
        BY <1>0, <3>3
      <4> QED
        BY <3>3, <4>1 DEF Reports
    <3> QED
      BY <3>1, <3>2, <3>3
  <2> QED
    BY <2>1, <2>3
<1> QED
  BY <1>1, <1>2, <1>3
=============================================================================
