----------------------- MODULE GovernanceGraphProofs -----------------------
(***************************************************************************)
(* Proofs about GovernanceGraph: for every declaration, whatever order the *)
(* sort and the walk take, exactly the cyclic graphs are refused and an    *)
(* estimate covers exactly what lies downstream of its source.             *)
(***************************************************************************)
EXTENDS GovernanceGraph, FiniteSetTheorems, WellFoundedInduction, TLAPS

LEMMA IdsFinite ==
  ASSUME NEW g, IsDeclaration(g)
  PROVE  /\ Ids(g) \subseteq NodeIds /\ IsFiniteSet(Ids(g))
         /\ \A n : IsFiniteSet(In(g, n)) /\ In(g, n) \subseteq Ids(g) /\ Out(g, n) \subseteq Ids(g)
<1>1. Ids(g) \in SUBSET NodeIds
  BY DEF Ids, IsDeclaration
<1>2. IsFiniteSet(Ids(g))
  BY <1>1, DeclarationAssumption, FS_Subset
<1>3. \A n : In(g, n) \in SUBSET Ids(g) /\ Out(g, n) \in SUBSET Ids(g)
  BY DEF In, Out
<1>4. \A n : IsFiniteSet(In(g, n))
  BY <1>2, <1>3, FS_Subset
<1> QED
  BY <1>1, <1>2, <1>3, <1>4

\* A nonempty set of naturals has a least member, and Min returns it.
LEMMA MinIsLeast ==
  ASSUME NEW S, S \subseteq Nat, S # {}
  PROVE  IsLeast(Min(S), S)
<1> DEFINE Segments == {0 .. n : n \in S}
<1>1. Segments \subseteq FiniteSubsetsOf(Nat) /\ Segments # {}
  <2>1. \A n \in S : 0 .. n \in SUBSET Nat /\ n \in Int
    OBVIOUS
  <2>2. \A n \in S : IsFiniteSet(0 .. n)
    BY <2>1, FS_Interval
  <2> QED
    BY <2>1, <2>2 DEF FiniteSubsetsOf
<1>2. PICK x \in S : \A y \in S : ~ (<<0 .. y, 0 .. x>> \in StrictSubsetOrdering(Nat))
  <2>1. PICK T \in Segments : \A U \in Segments : ~ (<<U, T>> \in StrictSubsetOrdering(Nat))
    <3> HIDE DEF Segments
    <3> QED
      BY <1>1, FS_StrictSubsetOrderingWellFounded, WFMin
  <2> QED
    BY <2>1
<1>3. ASSUME NEW y \in S, y < x PROVE FALSE
  <2>1. 0 .. y \in SUBSET Nat /\ 0 .. x \in SUBSET Nat /\ 0 .. y \subseteq 0 .. x
    BY <1>3
  <2>2. x \in 0 .. x /\ x \notin 0 .. y
    BY <1>3
  <2> QED
    BY <1>2, <2>1, <2>2 DEF StrictSubsetOrdering
<1>4. \A y \in S : x <= y
  BY <1>3
<1> QED
  BY <1>4 DEF Min, IsLeast

LEMMA LeastOfUnion ==
  ASSUME NEW c \in Nat, NEW S, NEW T, IsLeast(c, S), S \subseteq Nat, T \subseteq Nat
  PROVE  IsLeast(Min({c} \cup T), S \cup T)
<1>1. IsLeast(Min({c} \cup T), {c} \cup T)
  BY MinIsLeast
<1> DEFINE m == Min({c} \cup T)
<1>2. m \in {c} \cup T /\ m \in Nat /\ m <= c /\ (\A t \in T : m <= t)
  BY <1>1 DEF IsLeast
<1>3. c \in S /\ \A d \in S : c <= d /\ d \in Nat
  BY DEF IsLeast
<1> HIDE DEF m
<1>4. m \in S \cup T
  BY <1>2, <1>3
<1>5. \A d \in S \cup T : m <= d
  BY <1>2, <1>3
<1> QED
  BY <1>4, <1>5 DEF IsLeast, m

LEMMA TrustIsNatural ==
  ASSUME NEW g, IsDeclaration(g), NEW n \in Ids(g)
  PROVE  Trust(g, n) \in Nat /\ TrustAt(g, n) \subseteq Nat
<1>1. Trust(g, n) \in Nat
  BY DEF Trust, Ids, IsDeclaration
<1>2. ASSUME NEW m \in In(g, n) PROVE EdgeTrust(g, m, n) \in Nat
  <2>1. PICK i \in DOMAIN g.edges : <<m, n>> = <<g.edges[i].source, g.edges[i].target>>
    BY DEF In, Edges
  <2> QED
    BY <2>1 DEF EdgeTrust, IsDeclaration
<1> QED
  BY <1>1, <1>2 DEF TrustAt

-----------------------------------------------------------------------------
(* Sorting.                                                                *)

\* A node that is sorted was ready: no cycle has it, and its targets wait for
\* one node less.
LEMMA SortStep ==
  ASSUME GraphInv, NEW current \in ready, Sort(current)
  PROVE  GraphInv'
<1> USE DEF gvars
<1>1. /\ phase = "sorting" /\ phase' = "sorting" /\ graph' = graph
      /\ sorted' = sorted \cup {current} /\ indegree' = Relaxed(current)
      /\ UNCHANGED <<source, frontier, reachable, confidence, score>>
  BY DEF Sort
<1>2. GraphTypeOK /\ SortInv /\ current \in Ids(graph) /\ current \notin sorted /\ In(graph, current) \subseteq sorted
  BY <1>1 DEF GraphInv, SortInv
<1>3. IsDeclaration(graph) /\ IsFiniteSet(Ids(graph)) /\ IsFiniteSet(sorted) /\ indegree \in [Ids(graph) -> Nat]
  BY <1>1, <1>2, IdsFinite, FS_Subset DEF GraphTypeOK
<1>4. \A n : current \in In(graph, n) <=> n \in Out(graph, current) /\ n \in Ids(graph)
  <2>1. \A n : <<current, n>> \in Edges(graph) => n \in Ids(graph)
    BY <1>1, <1>2 DEF SortInv, WellDeclared, EdgesDeclared, Edges
  <2> QED
    BY <1>2, <2>1 DEF In, Out
<1>5. \A n \in Ids(graph) : n \in Out(graph, current) => n \notin sorted'
  <2>1. current \notin In(graph, current)
    BY <1>2
  <2> QED
    BY <1>1, <1>2, <1>4, <2>1 DEF SortInv
<1>6. \A n \in Ids(graph) : indegree'[n] = Cardinality(In(graph, n) \ sorted') /\ indegree'[n] \in Nat
  <2> SUFFICES ASSUME NEW n \in Ids(graph)
               PROVE  indegree'[n] = Cardinality(In(graph, n) \ sorted') /\ indegree'[n] \in Nat
    OBVIOUS
  <2>1. IsFiniteSet(In(graph, n) \ sorted) /\ IsFiniteSet(In(graph, n) \ sorted')
    BY <1>3, IdsFinite, FS_Difference
  <2>2. indegree[n] = Cardinality(In(graph, n) \ sorted)
    BY <1>1, <1>2 DEF SortInv
  <2>3. In(graph, n) \ sorted' = (In(graph, n) \ sorted) \ {current}
    BY <1>1
  <2>4. Cardinality(In(graph, n) \ sorted') \in Nat
    BY <2>1, FS_CardinalityType
  <2>5. indegree'[n] = IF n \in Out(graph, current) THEN indegree[n] - 1 ELSE indegree[n]
    BY <1>1, <1>3 DEF Relaxed
  <2>6. CASE n \in Out(graph, current)
    <3>1. current \in In(graph, n) \ sorted
      BY <1>2, <1>4, <2>6
    <3>2. Cardinality(In(graph, n) \ sorted') = Cardinality(In(graph, n) \ sorted) - 1
      BY <2>1, <2>3, <3>1, FS_RemoveElement
    <3> QED
      BY <2>2, <2>4, <2>5, <2>6, <3>2
  <2>7. CASE n \notin Out(graph, current)
    <3>1. In(graph, n) \ sorted' = In(graph, n) \ sorted
      BY <1>4, <2>3, <2>7
    <3> QED
      BY <2>2, <2>4, <2>5, <2>7, <3>1
  <2> QED
    BY <2>6, <2>7
<1>7. visited' = Cardinality(sorted') /\ visited' \in Nat
  BY <1>1, <1>2, <1>3, FS_AddElement, FS_CardinalityType DEF Sort, SortInv
<1>8. sorted' \subseteq Ids(graph) /\ \A n \in sorted' : In(graph, n) \subseteq sorted'
  BY <1>1, <1>2 DEF SortInv, GraphTypeOK
<1>9. ready' = {n \in Ids(graph) \ sorted' : In(graph, n) \subseteq sorted'}
  <2>1. \A n \in Ids(graph) : Relaxed(current)[n] = 0 <=> In(graph, n) \subseteq sorted'
    <3> SUFFICES ASSUME NEW n \in Ids(graph) PROVE Relaxed(current)[n] = 0 <=> In(graph, n) \subseteq sorted'
      OBVIOUS
    <3>1. IsFiniteSet(In(graph, n) \ sorted')
      BY <1>3, IdsFinite, FS_Difference
    <3>2. Cardinality(In(graph, n) \ sorted') = 0 <=> In(graph, n) \ sorted' = {}
      BY <3>1, FS_EmptySet
    <3>3. Relaxed(current)[n] = Cardinality(In(graph, n) \ sorted')
      BY <1>1, <1>6
    <3> QED
      BY <3>2, <3>3
  <2>2. ready' = (ready \ {current}) \cup {n \in Out(graph, current) : Relaxed(current)[n] = 0}
    BY DEF Sort
  <2>3. ready = {n \in Ids(graph) \ sorted : In(graph, n) \subseteq sorted}
    BY <1>1, <1>2 DEF SortInv
  <2>4. Out(graph, current) \subseteq Ids(graph)
    BY <1>3, IdsFinite
  <2>5. \A n \in Ids(graph) : n \in ready' <=> n \notin sorted' /\ In(graph, n) \subseteq sorted'
    <3> SUFFICES ASSUME NEW n \in Ids(graph) PROVE n \in ready' <=> n \notin sorted' /\ In(graph, n) \subseteq sorted'
      OBVIOUS
    <3>1. CASE n \in Out(graph, current)
      <4>1. n \notin sorted' /\ current \in In(graph, n) /\ n \notin ready
        BY <1>2, <1>4, <1>5, <2>3, <3>1
      <4> QED
        BY <2>1, <2>2, <3>1, <4>1
    <3>2. CASE n \notin Out(graph, current)
      <4>1. In(graph, n) \subseteq sorted' <=> In(graph, n) \subseteq sorted
        BY <1>1, <1>4, <3>2
      <4> QED
        BY <1>1, <2>2, <2>3, <3>2, <4>1
    <3> QED
      BY <3>1, <3>2
  <2>6. ready' \subseteq Ids(graph)
    BY <2>2, <2>3, <2>4
  <2> QED
    BY <2>5, <2>6
<1>10. \A C \in SUBSET Ids(graph) : IsCycle(graph, C) => C \cap sorted' = {}
  <2> SUFFICES ASSUME NEW C \in SUBSET Ids(graph), IsCycle(graph, C) PROVE current \notin C
    BY <1>1, <1>2 DEF SortInv
  <2>1. C \cap sorted = {}
    BY <1>1, <1>2 DEF SortInv
  <2> QED
    BY <1>2, <2>1 DEF IsCycle
<1>11. SortInv'
  BY <1>1, <1>2, <1>6, <1>7, <1>8, <1>9, <1>10 DEF SortInv
<1>12. indegree' \in [Ids(graph) -> Nat]
  <2>1. indegree' = [n \in Ids(graph) |-> indegree'[n]]
    BY <1>1, <1>3 DEF Relaxed
  <2> QED
    BY <1>6, <2>1
<1>13. GraphTypeOK'
  BY <1>1, <1>2, <1>7, <1>8, <1>9, <1>12 DEF GraphTypeOK
<1> QED
  BY <1>1, <1>11, <1>13 DEF GraphInv, Untouched, AcceptedIffAcyclic, WalkInv, ReachIsDownstream, ConfidenceIsWeakest

\* When nothing is ready any more, what is left over is a cycle.
LEMMA EndSortStep ==
  ASSUME GraphInv, EndSort
  PROVE  GraphInv'
<1>1. /\ phase = "sorting" /\ ready = {}
      /\ UNCHANGED <<graph, indegree, ready, visited, sorted, source, frontier, reachable, confidence, score>>
      /\ phase' = IF visited = Cardinality(Ids(graph)) THEN "usable" ELSE "rejected"
  BY DEF EndSort
<1>2. GraphTypeOK /\ SortInv /\ WellDeclared(graph) /\ visited = Cardinality(sorted)
  BY <1>1 DEF GraphInv, SortInv
<1>3. IsFiniteSet(Ids(graph)) /\ sorted \in SUBSET Ids(graph)
  BY <1>2, IdsFinite DEF GraphTypeOK
<1>4. visited = Cardinality(Ids(graph)) <=> sorted = Ids(graph)
  BY <1>2, <1>3, FS_Subset
<1>5. sorted = Ids(graph) => ~Cyclic(graph)
  <2> SUFFICES ASSUME sorted = Ids(graph), NEW C \in SUBSET Ids(graph), IsCycle(graph, C) PROVE FALSE
    BY DEF Cyclic
  <2> QED
    BY <1>1, <1>2 DEF SortInv, IsCycle
<1>6. sorted # Ids(graph) => Cyclic(graph)
  <2> SUFFICES ASSUME sorted # Ids(graph) PROVE IsCycle(graph, Ids(graph) \ sorted)
    BY DEF Cyclic
  <2>1. ASSUME NEW n \in Ids(graph) \ sorted PROVE In(graph, n) \cap (Ids(graph) \ sorted) # {}
    <3>1. n \notin ready
      BY <1>1
    <3>2. ~(In(graph, n) \subseteq sorted)
      BY <1>1, <1>2, <3>1 DEF SortInv
    <3> QED
      BY <3>2 DEF In
  <2> QED
    BY <1>3, <2>1 DEF IsCycle
<1>7. AcceptedIffAcyclic'
  BY <1>1, <1>2, <1>4, <1>5, <1>6 DEF AcceptedIffAcyclic
<1>8. GraphTypeOK'
  BY <1>1, <1>2 DEF GraphTypeOK
<1> QED
  BY <1>1, <1>7, <1>8 DEF GraphInv, Untouched, SortInv, WalkInv, ReachIsDownstream, ConfidenceIsWeakest

LEMMA ConstructStep ==
  ASSUME GraphInv, Construct \/ RefuseDeclaration
  PROVE  GraphInv'
<1>1. CASE RefuseDeclaration
  BY <1>1 DEF RefuseDeclaration, GraphInv, Untouched, GraphTypeOK, AcceptedIffAcyclic, SortInv, WalkInv, ReachIsDownstream, ConfidenceIsWeakest
<1>2. CASE Construct
  <2>1. /\ phase' = "sorting" /\ WellDeclared(graph) /\ graph' = graph /\ sorted' = sorted /\ sorted = {} /\ visited' = 0
        /\ UNCHANGED <<source, frontier, reachable, confidence, score>> /\ GraphTypeOK
        /\ indegree' = [n \in Ids(graph) |-> Cardinality(In(graph, n))]
        /\ ready' = {n \in Ids(graph) : Cardinality(In(graph, n)) = 0}
    BY <1>2 DEF Construct, GraphInv, Untouched
  <2>2. \A n \in Ids(graph) : IsFiniteSet(In(graph, n)) /\ In(graph, n) \ {} = In(graph, n)
    BY <2>1, IdsFinite DEF GraphTypeOK
  <2>3. \A n \in Ids(graph) : Cardinality(In(graph, n)) \in Nat /\ (Cardinality(In(graph, n)) = 0 <=> In(graph, n) = {})
    BY <2>2, FS_CardinalityType, FS_EmptySet
  <2>4. Cardinality({}) = 0
    BY FS_EmptySet
  <2>5. SortInv'
    BY <2>1, <2>2, <2>3, <2>4 DEF SortInv
  <2>6. GraphTypeOK'
    BY <2>1, <2>3 DEF GraphTypeOK
  <2> QED
    BY <2>1, <2>5, <2>6 DEF GraphInv, Untouched, AcceptedIffAcyclic, WalkInv, ReachIsDownstream, ConfidenceIsWeakest
<1> QED
  BY <1>1, <1>2

-----------------------------------------------------------------------------
(* Walking.                                                                *)

LEMMA EstimateStep ==
  ASSUME GraphInv, NEW n \in NodeIds, EstimateReach(n)
  PROVE  GraphInv'
<1>1. /\ phase \in {"usable", "estimated"} /\ n \in Ids(graph) /\ phase' = "walking" /\ source' = n
      /\ frontier' = Out(graph, n) /\ reachable' = {} /\ confidence' = Trust(graph, n)
      /\ UNCHANGED <<graph, indegree, ready, visited, sorted>> /\ GraphTypeOK /\ AcceptedIffAcyclic
  BY DEF EstimateReach, GraphInv
<1>2. Out(graph, n) \subseteq Ids(graph) /\ Trust(graph, n) \in Nat
  BY <1>1, IdsFinite, TrustIsNatural DEF GraphTypeOK
<1>3. Out(graph, n) \subseteq Downstream(graph, n)
  BY DEF Out, Downstream
<1>4. IsLeast(Trust(graph, n), RestsOn(graph, n, {}))
  BY <1>2 DEF IsLeast, RestsOn
<1>5. WalkInv'
  BY <1>1, <1>3, <1>4 DEF WalkInv
<1>6. GraphTypeOK' /\ AcceptedIffAcyclic'
  BY <1>1, <1>2 DEF GraphTypeOK, AcceptedIffAcyclic
<1> QED
  BY <1>1, <1>5, <1>6 DEF GraphInv, Untouched, SortInv, ReachIsDownstream, ConfidenceIsWeakest

LEMMA VisitStep ==
  ASSUME GraphInv, NEW current \in frontier, Visit(current)
  PROVE  GraphInv'
<1>1. /\ phase = "walking" /\ phase' = "walking" /\ UNCHANGED <<graph, source, indegree, ready, visited, sorted>>
      /\ reachable' = reachable \cup {current}
      /\ confidence' = Min({confidence} \cup TrustAt(graph, current))
      /\ frontier' = (frontier \ {current}) \cup (Out(graph, current) \ reachable')
      /\ GraphTypeOK /\ AcceptedIffAcyclic /\ WalkInv
  BY DEF Visit, GraphInv
<1>2. /\ IsDeclaration(graph) /\ current \in Ids(graph) /\ source \in Ids(graph)
      /\ Out(graph, current) \subseteq Ids(graph) /\ reachable \subseteq Ids(graph) /\ confidence \in Nat
  BY <1>1, IdsFinite DEF GraphTypeOK, WalkInv
<1>3. Out(graph, current) \subseteq Downstream(graph, source)
  <2>1. current \in Downstream(graph, source)
    BY <1>1 DEF WalkInv
  <2> QED
    BY <1>2, <2>1 DEF Downstream
<1>4. RestsOn(graph, source, reachable) \subseteq Nat /\ TrustAt(graph, current) \subseteq Nat
  BY <1>2, TrustIsNatural DEF RestsOn
<1>5. RestsOn(graph, source, reachable') = RestsOn(graph, source, reachable) \cup TrustAt(graph, current)
  BY <1>1 DEF RestsOn
<1>6. IsLeast(confidence', RestsOn(graph, source, reachable'))
  <2>1. IsLeast(confidence, RestsOn(graph, source, reachable)) /\ confidence \in Nat
    BY <1>1, <1>2 DEF WalkInv
  <2>2. IsLeast(Min({confidence} \cup TrustAt(graph, current)), RestsOn(graph, source, reachable) \cup TrustAt(graph, current))
    BY <1>4, <2>1, LeastOfUnion
  <2> QED
    BY <1>1, <1>5, <2>2
<1>7. WalkInv'
  <2>1. Out(graph, source) \subseteq reachable' \cup frontier'
    BY <1>1 DEF WalkInv
  <2>2. \A r \in reachable' : Out(graph, r) \subseteq reachable' \cup frontier'
    BY <1>1 DEF WalkInv
  <2>3. reachable' \cup frontier' \subseteq Downstream(graph, source)
    BY <1>1, <1>3 DEF WalkInv
  <2> QED
    BY <1>1, <1>2, <1>6, <2>1, <2>2, <2>3 DEF WalkInv
<1>8. confidence' \in Nat
  BY <1>4, <1>5, <1>6 DEF IsLeast
<1>9. GraphTypeOK' /\ AcceptedIffAcyclic'
  BY <1>1, <1>2, <1>8 DEF GraphTypeOK, AcceptedIffAcyclic
<1> QED
  BY <1>1, <1>7, <1>9 DEF GraphInv, Untouched, SortInv, ReachIsDownstream, ConfidenceIsWeakest

\* In a graph without cycles nothing lies downstream of itself: otherwise what
\* lies downstream would be a cycle, because a member without a dependency in
\* the set could be left out of it.
LEMMA NotDownstreamOfItself ==
  ASSUME NEW g, ~Cyclic(g), NEW n \in Ids(g)
  PROVE  n \notin Downstream(g, n)
<1> SUFFICES ASSUME n \in Downstream(g, n) PROVE FALSE
  OBVIOUS
<1> DEFINE D == Downstream(g, n)
<1>1. D \subseteq Ids(g) /\ Out(g, n) \subseteq D /\ \A d \in D : Out(g, d) \subseteq D
  BY DEF Downstream, Out
<1>2. PICK d \in D : In(g, d) \cap D = {}
  BY <1>1 DEF Cyclic, IsCycle
<1>3. \A c \in D : d \notin Out(g, c)
  BY <1>1, <1>2 DEF In, Out
<1>4. Out(g, n) \subseteq D \ {d} /\ \A c \in D \ {d} : Out(g, c) \subseteq D \ {d}
  BY <1>1, <1>3
<1>5. D \ {d} \in SUBSET Ids(g)
  BY <1>1
<1>6. d \in D \ {d}
  BY <1>2, <1>4, <1>5 DEF Downstream
<1> QED
  BY <1>6

LEMMA EndEstimateStep ==
  ASSUME GraphInv, EndEstimate
  PROVE  GraphInv'
<1>1. /\ phase = "walking" /\ phase' = "estimated" /\ frontier = {}
      /\ UNCHANGED <<graph, source, frontier, reachable, indegree, ready, visited, sorted>>
      /\ confidence' = IF Unknowns = {} THEN confidence ELSE Min({confidence, Doubtful})
      /\ GraphTypeOK /\ AcceptedIffAcyclic /\ WalkInv /\ Unknowns' = Unknowns
  BY DEF EndEstimate, GraphInv, Unknowns
<1>2. /\ IsDeclaration(graph) /\ source \in Ids(graph) /\ reachable \in SUBSET Ids(graph)
      /\ reachable \subseteq Downstream(graph, source) /\ confidence \in Nat /\ ~Cyclic(graph)
  BY <1>1 DEF GraphTypeOK, WalkInv, AcceptedIffAcyclic
<1>3. Downstream(graph, source) \subseteq reachable
  BY <1>1, <1>2 DEF WalkInv, Downstream
<1>4. ReachIsDownstream'
  BY <1>1, <1>2, <1>3, NotDownstreamOfItself DEF ReachIsDownstream
<1>5. RestsOn(graph, source, reachable) \subseteq Nat
  BY <1>2, TrustIsNatural DEF RestsOn
<1>6. ConfidenceIsWeakest' /\ confidence' \in Nat
  <2>1. IsLeast(confidence, RestsOn(graph, source, reachable))
    BY <1>1 DEF WalkInv
  <2>2. CASE Unknowns = {}
    BY <1>1, <1>2, <2>1, <2>2 DEF ConfidenceIsWeakest
  <2>3. CASE Unknowns # {}
    <3>1. {Doubtful} \subseteq Nat /\ {confidence, Doubtful} = {confidence} \cup {Doubtful}
      BY DEF Doubtful
    <3>2. IsLeast(confidence', RestsOn(graph, source, reachable) \cup {Doubtful})
      BY <1>1, <1>2, <1>5, <2>1, <2>3, <3>1, LeastOfUnion
    <3> QED
      BY <1>1, <1>5, <2>3, <3>1, <3>2 DEF ConfidenceIsWeakest, IsLeast
  <2> QED
    BY <2>2, <2>3
<1>7. GraphTypeOK' /\ AcceptedIffAcyclic'
  BY <1>1, <1>6 DEF GraphTypeOK, AcceptedIffAcyclic
<1> QED
  BY <1>1, <1>4, <1>6, <1>7 DEF GraphInv, Untouched, SortInv, WalkInv

-----------------------------------------------------------------------------
\* The invariant of the constructor and the walk holds for any declaration
\* and any order of work.
THEOREM GraphInvariant == GraphSpec => []GraphInv
<1>1. GraphInit => GraphInv
  BY DeclarationAssumption DEF GraphInit, GraphInv, Untouched, GraphTypeOK, AcceptedIffAcyclic, SortInv, WalkInv,
     ReachIsDownstream, ConfidenceIsWeakest
<1>2. GraphInv /\ [GraphNext]_gvars => GraphInv'
  <2> SUFFICES ASSUME GraphInv, [GraphNext]_gvars PROVE GraphInv'
    OBVIOUS
  <2>1. CASE UNCHANGED gvars
    BY <2>1 DEF gvars, GraphInv, Untouched, GraphTypeOK, AcceptedIffAcyclic, SortInv, WalkInv,
       ReachIsDownstream, ConfidenceIsWeakest, Unknowns
  <2> QED
    BY <2>1, ConstructStep, SortStep, EndSortStep, VisitStep, EndEstimateStep, EstimateStep
    DEF GraphNext, Constructing, Estimating
<1> QED
  BY <1>1, <1>2, PTL DEF GraphSpec

\* The constructor accepts exactly the well-declared graphs without a cycle.
THEOREM SortIsExact == GraphSpec => []AcceptedIffAcyclic
<1>1. GraphInv => AcceptedIffAcyclic
  BY DEF GraphInv
<1> QED
  BY <1>1, GraphInvariant, PTL

\* The breadth-first walk computes the closure, and never returns to its source.
THEOREM WalkIsExact == GraphSpec => []ReachIsDownstream
<1>1. GraphInv => ReachIsDownstream
  BY DEF GraphInv
<1> QED
  BY <1>1, GraphInvariant, PTL

\* No declaration that an estimate rests on is stronger than it is reported.
THEOREM ConfidenceHolds == GraphSpec => []ConfidenceIsWeakest
<1>1. GraphInv => ConfidenceIsWeakest
  BY DEF GraphInv
<1> QED
  BY <1>1, GraphInvariant, PTL
=============================================================================
