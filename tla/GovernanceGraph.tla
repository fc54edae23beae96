-------------------------- MODULE GovernanceGraph --------------------------
(***************************************************************************)
(* The governance graph (governance_graph.py): the constructor checks what *)
(* was declared, sorts it topologically to refuse cycles, and afterwards   *)
(* estimates what lies downstream of a node, with what confidence.         *)
(*                                                                         *)
(* Confidences are in percent.  The code keeps the nodes that are ready    *)
(* and the frontier in lists and takes them from the front; here they are  *)
(* sets and any member is next, which covers every order.  A repeated      *)
(* entry of the frontier list is skipped by the code (lines 142-143), so   *)
(* the set has the same effect.                                            *)
(***************************************************************************)
EXTENDS Naturals, Sequences, FiniteSetsExt, Functions

CONSTANTS
  NodeIds,
  Declarations,  \* the nodes and edges that constructors are called with
  Scale          \* one, as an integer: 10^28 for the code's decimals

JoinTypes == {"SINGLE", "OR", "AND", "UNKNOWN"}
Certain   == 100
Doubtful  == 50

IsDeclaration(g) ==
  /\ \A i \in DOMAIN g.nodes :
       g.nodes[i].id \in NodeIds /\ g.nodes[i].join \in JoinTypes /\ g.nodes[i].confidence \in Nat
  /\ \A i \in DOMAIN g.edges :
       g.edges[i].source \in NodeIds /\ g.edges[i].target \in NodeIds /\ g.edges[i].confidence \in Nat

ASSUME DeclarationAssumption ==
  /\ IsFiniteSet(NodeIds) /\ Scale \in Nat \ {0}
  /\ \A g \in Declarations : IsDeclaration(g)

VARIABLES
  graph,       \* what was declared
  phase,       \* how far the constructor or an estimate is
  indegree,
  ready,
  visited,     \* how many nodes have been sorted
  sorted,      \* history: which
  source,      \* the node whose reach is estimated
  frontier,
  reachable,
  confidence,
  score

gvars == <<graph, phase, indegree, ready, visited, sorted, source, frontier, reachable, confidence, score>>

-----------------------------------------------------------------------------
Ids(g)    == {g.nodes[i].id : i \in DOMAIN g.nodes}
Edges(g)  == {<<g.edges[i].source, g.edges[i].target>> : i \in DOMAIN g.edges}
In(g, n)  == {m \in Ids(g) : <<m, n>> \in Edges(g)}
Out(g, m) == {n \in Ids(g) : <<m, n>> \in Edges(g)}

JoinOf(g, n) == g.nodes[CHOOSE i \in DOMAIN g.nodes : g.nodes[i].id = n].join
Trust(g, n)  == g.nodes[CHOOSE i \in DOMAIN g.nodes : g.nodes[i].id = n].confidence
EdgeTrust(g, m, n) ==
  g.edges[CHOOSE i \in DOMAIN g.edges : g.edges[i].source = m /\ g.edges[i].target = n].confidence

NodesDeclared(g) ==
  /\ \A i, j \in DOMAIN g.nodes : g.nodes[i].id = g.nodes[j].id => i = j
  /\ \A i \in DOMAIN g.nodes : g.nodes[i].confidence <= Certain

EdgesDeclared(g) ==
  \A i \in DOMAIN g.edges : LET e == g.edges[i] IN
    /\ e.source \in Ids(g) /\ e.target \in Ids(g) /\ e.source # e.target
    /\ e.confidence <= Certain
    /\ \A j \in DOMAIN g.edges : e.source = g.edges[j].source /\ e.target = g.edges[j].target => i = j

JoinsDeclared(g) ==
  \A n \in Ids(g) : IF Cardinality(In(g, n)) <= 1 THEN JoinOf(g, n) \notin {"AND", "OR"}
                                                  ELSE JoinOf(g, n) # "SINGLE"

WellDeclared(g) == NodesDeclared(g) /\ EdgesDeclared(g) /\ JoinsDeclared(g)

-----------------------------------------------------------------------------
(* The constructor.                                                        *)

Construct ==
  /\ phase = "declared" /\ WellDeclared(graph)
  /\ indegree' = [n \in Ids(graph) |-> Cardinality(In(graph, n))]
  /\ ready' = {n \in Ids(graph) : Cardinality(In(graph, n)) = 0}
  /\ phase' = "sorting"
  /\ UNCHANGED <<graph, visited, sorted, source, frontier, reachable, confidence, score>>

RefuseDeclaration ==
  /\ phase = "declared" /\ ~WellDeclared(graph)
  /\ phase' = "rejected"
  /\ UNCHANGED <<graph, indegree, ready, visited, sorted, source, frontier, reachable, confidence, score>>

\* Mutant: one incoming edge is as good as all.
ReadyAtOnce(current) == [n \in DOMAIN indegree |-> IF n \in Out(graph, current) THEN 0 ELSE indegree[n]]

\* One turn of the loop: the targets of current lose an incoming edge.
Relaxed(current) == [n \in DOMAIN indegree |-> IF n \in Out(graph, current) THEN indegree[n] - 1 ELSE indegree[n]]

Sort(current) ==
  /\ phase = "sorting" /\ current \in ready
  /\ visited' = visited + 1
  /\ sorted' = sorted \cup {current}
  /\ indegree' = Relaxed(current)
  /\ ready' = (ready \ {current}) \cup {n \in Out(graph, current) : Relaxed(current)[n] = 0}
  /\ UNCHANGED <<graph, phase, source, frontier, reachable, confidence, score>>

\* Mutant: the nodes that were visited are not counted.
EndSortUncounted ==
  /\ phase = "sorting" /\ ready = {}
  /\ phase' = "usable"
  /\ UNCHANGED <<graph, indegree, ready, visited, sorted, source, frontier, reachable, confidence, score>>

EndSort ==
  /\ phase = "sorting" /\ ready = {}
  /\ phase' = IF visited = Cardinality(Ids(graph)) THEN "usable" ELSE "rejected"
  /\ UNCHANGED <<graph, indegree, ready, visited, sorted, source, frontier, reachable, confidence, score>>

-----------------------------------------------------------------------------
(* An estimate.                                                            *)

EstimateReach(n) ==
  /\ phase \in {"usable", "estimated"} /\ n \in Ids(graph)
  /\ source' = n
  /\ frontier' = Out(graph, n)
  /\ reachable' = {}
  /\ confidence' = Trust(graph, n)
  /\ score' = 0
  /\ phase' = "walking"
  /\ UNCHANGED <<graph, indegree, ready, visited, sorted>>

\* A node's own confidence, and that of every edge into it.
TrustAt(g, n) == {Trust(g, n)} \cup {EdgeTrust(g, m, n) : m \in In(g, n)}

\* Mutant: edges are trusted.
VisitTrusting(current) ==
  /\ phase = "walking" /\ current \in frontier
  /\ reachable' = reachable \cup {current}
  /\ confidence' = Min({confidence, Trust(graph, current)})
  /\ frontier' = (frontier \ {current}) \cup (Out(graph, current) \ reachable')
  /\ UNCHANGED <<graph, phase, indegree, ready, visited, sorted, source, score>>

\* Mutant: what a reached node points to is not looked at.
VisitOnly(current) ==
  /\ phase = "walking" /\ current \in frontier
  /\ reachable' = reachable \cup {current}
  /\ confidence' = Min({confidence} \cup TrustAt(graph, current))
  /\ frontier' = frontier \ {current}
  /\ UNCHANGED <<graph, phase, indegree, ready, visited, sorted, source, score>>

Visit(current) ==
  /\ phase = "walking" /\ current \in frontier
  /\ reachable' = reachable \cup {current}
  /\ confidence' = Min({confidence} \cup TrustAt(graph, current))
  /\ frontier' = (frontier \ {current}) \cup (Out(graph, current) \ reachable')
  /\ UNCHANGED <<graph, phase, indegree, ready, visited, sorted, source, score>>

\* The decimal quotient, rounded in its last digit.
Share(n) == IF JoinOf(graph, n) = "OR" THEN LET d == Cardinality(In(graph, n))
                                            IN  (2 * Scale + d) \div (2 * d)
                                       ELSE Scale
Unknowns == {n \in reachable : JoinOf(graph, n) = "UNKNOWN"}

EndEstimate ==
  /\ phase = "walking" /\ frontier = {}
  /\ score' = MapThenSumSet(Share, reachable)
  /\ confidence' = IF Unknowns = {} THEN confidence ELSE Min({confidence, Doubtful})
  /\ phase' = "estimated"
  /\ UNCHANGED <<graph, indegree, ready, visited, sorted, source, frontier, reachable>>

GraphInit ==
  /\ graph \in Declarations
  /\ phase = "declared"
  /\ indegree = [n \in {} |-> 0] /\ ready = {} /\ visited = 0 /\ sorted = {}
  /\ source \in NodeIds /\ frontier = {} /\ reachable = {} /\ confidence = 0 /\ score = 0

Constructing == Construct \/ RefuseDeclaration \/ (\E n \in ready : Sort(n)) \/ EndSort
Estimating   == (\E n \in frontier : Visit(n)) \/ EndEstimate
GraphNext    == Constructing \/ Estimating \/ \E n \in NodeIds : EstimateReach(n)
GraphSpec    == GraphInit /\ [][GraphNext]_gvars

-----------------------------------------------------------------------------
(* What it is all for.                                                     *)

\* Some nodes each have a dependency among themselves.
IsCycle(g, C) == C # {} /\ \A n \in C : In(g, n) \cap C # {}
Cyclic(g)     == \E C \in SUBSET Ids(g) : IsCycle(g, C)

\* The least set that holds what n points to and everything its members point to.
Downstream(g, n) ==
  {d \in Ids(g) : \A C \in SUBSET Ids(g) :
     Out(g, n) \subseteq C /\ (\A c \in C : Out(g, c) \subseteq C) => d \in C}

GraphTypeOK ==
  /\ IsDeclaration(graph)
  /\ phase \in {"declared", "sorting", "rejected", "usable", "walking", "estimated"}
  /\ phase = "sorting" => indegree \in [Ids(graph) -> Nat]
  /\ ready \subseteq Ids(graph) /\ sorted \subseteq Ids(graph) /\ visited \in Nat
  /\ frontier \subseteq Ids(graph) /\ reachable \subseteq Ids(graph)
  /\ confidence \in Nat

\* A graph is refused for a bad declaration or a cycle and for nothing else:
\* whatever order the sort takes, it visits every node iff there is no cycle.
AcceptedIffAcyclic ==
  /\ phase \in {"usable", "walking", "estimated"} => WellDeclared(graph) /\ ~Cyclic(graph)
  /\ phase = "rejected" => ~WellDeclared(graph) \/ Cyclic(graph)

\* An estimate covers exactly what depends on its source, directly or not,
\* and never the source itself.
ReachIsDownstream ==
  phase = "estimated" => reachable = Downstream(graph, source) /\ source \notin reachable

\* Every declaration an estimate rests on: its source, the nodes it reached,
\* and all edges into these, from wherever they come.
RestsOn(g, n, R)  == {Trust(g, n)} \cup UNION {TrustAt(g, r) : r \in R}
IsLeast(c, S)     == c \in S /\ \A d \in S : c <= d

\* The confidence is that of the weakest declaration the estimate rests on,
\* and no better than doubtful if a join of unknown kind is among them.
ConfidenceIsWeakest ==
  phase = "estimated" =>
    IsLeast(confidence, RestsOn(graph, source, reachable) \cup (IF Unknowns = {} THEN {} ELSE {Doubtful}))

\* The inductive invariant.  While sorting, indegrees count the dependencies
\* that are not sorted yet, and no member of a cycle has been sorted.
SortInv ==
  phase = "sorting" =>
    /\ WellDeclared(graph) /\ visited = Cardinality(sorted)
    /\ \A n \in Ids(graph) : indegree[n] = Cardinality(In(graph, n) \ sorted)
    /\ ready = {n \in Ids(graph) \ sorted : In(graph, n) \subseteq sorted}
    /\ \A n \in sorted : In(graph, n) \subseteq sorted
    /\ \A C \in SUBSET Ids(graph) : IsCycle(graph, C) => C \cap sorted = {}

\* While walking, whatever reached nodes point to is reached or on the frontier.
WalkInv ==
  phase = "walking" =>
    /\ source \in Ids(graph)
    /\ Out(graph, source) \subseteq reachable \cup frontier
    /\ \A r \in reachable : Out(graph, r) \subseteq reachable \cup frontier
    /\ reachable \cup frontier \subseteq Downstream(graph, source)
    /\ IsLeast(confidence, RestsOn(graph, source, reachable))

Untouched == phase = "declared" => sorted = {} /\ visited = 0

GraphInv == GraphTypeOK /\ Untouched /\ AcceptedIffAcyclic /\ SortInv /\ WalkInv /\ ReachIsDownstream /\ ConfidenceIsWeakest
=============================================================================
