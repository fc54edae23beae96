---------------------------- MODULE MCEvaluation ----------------------------
(* Deployments for TLC.  A site varies one part at a time and keeps the    *)
(* others simple, so that the instances add up instead of multiplying.     *)
EXTENDS GovernedEvaluation, TLC

-----------------------------------------------------------------------------
(* Documents: a root, a child, a grandchild and what may be wrong with one. *)

Limit(n)   == [key |-> "amount", op |-> "decimal_lte", value |-> n, critical |-> TRUE]
Regions(S) == [key |-> "region", op |-> "set_subset", value |-> S, critical |-> TRUE]
Payee(p)   == [key |-> "payee", op |-> "equals", value |-> p, critical |-> TRUE]
Memo(critical) == [key |-> "memo", op |-> "equals", value |-> "m", critical |-> critical]
Pays(u, m, cs) == [action |-> "pay", match |-> m, uri |-> u, constraints |-> cs]
Audit      == [key |-> "audit", mandatory |-> TRUE, point |-> "before_action", what |-> "log"]
Euros(n)   == [key |-> "eur", unit |-> "cent", quantity |-> n]
Named(c)   == [id |-> <<c>>, task |-> "t", digest |-> c]

Root == [id |-> <<1>>, kind |-> "root", task |-> "t", workflow |-> "w",
         parent |-> Named(0),
         subject |-> "planner", delegator |-> "none", depth |-> 2, from |-> 0, until |-> 3,
         profile |-> "offline-until-expiry", staleness |-> 0, revision |-> 1, sequence |-> 1,
         authority |-> {Pays(<<"orders">>, "prefix", <<Limit(2), Regions({"eu", "us"}), Payee("acme")>>)},
         obligations |-> <<Audit>>, budgets |-> <<Euros(2)>>]
Child == [Root EXCEPT !.id = <<2>>, !.kind = "derived", !.parent = Named(1), !.subject = "buyer",
                      !.delegator = "planner", !.depth = 1]
Grandchild == [Child EXCEPT !.id = <<3>>, !.parent = Named(2), !.delegator = "buyer", !.depth = 0,
                 !.authority = {Pays(<<"orders", 7>>, "exact", <<Limit(1), Regions({"eu"}), Payee("acme")>>)}]

InGrants(d, change(_)) == [d EXCEPT !.authority = {change(g) : g \in @}]
Variants == [d \in {Child, Grandchild} |-> <<
  [d EXCEPT !.kind = "root"], [d EXCEPT !.parent.digest = 99], [d EXCEPT !.workflow = "v"], [d EXCEPT !.id = <<1>>],
  [d EXCEPT !.depth = 2], [d EXCEPT !.until = 4], [d EXCEPT !.subject = "thief"], [d EXCEPT !.from = 1],
  InGrants(d, LAMBDA g : [g EXCEPT !.action = "refund"]),
  InGrants(d, LAMBDA g : [g EXCEPT !.uri = <<"stock">>]),
  InGrants(d, LAMBDA g : [g EXCEPT !.constraints[1] = Limit(3)]),
  InGrants(d, LAMBDA g : [g EXCEPT !.constraints[2] = Regions({"eu", "cn"})]),
  InGrants(d, LAMBDA g : [g EXCEPT !.constraints[3] = Payee("other")]),
  InGrants(d, LAMBDA g : [g EXCEPT !.constraints[3].critical = FALSE]),
  InGrants(d, LAMBDA g : [g EXCEPT !.constraints = <<@[1]>>]),
  InGrants(d, LAMBDA g : [g EXCEPT !.constraints = <<Limit(3)>> \o @]),
  [d EXCEPT !.obligations = <<>>], [d EXCEPT !.obligations[1].what = "nothing"],
  [d EXCEPT !.budgets = <<Euros(3)>>], [d EXCEPT !.budgets[1].unit = "usd"],
  [d EXCEPT !.budgets = Append(@, [Euros(2) EXCEPT !.key = "usd"])] >>]

\* Variants of the child are 11, 12, ... with a grandchild 101, 102, ... below
\* each (104 below the one that takes another id), variants of the grandchild
\* 41, 42, ...  A lineage whose status is followed closely is 5 and 6, and 7
\* below it; 8 and 9 are later revisions of 2; 4 has a constraint that no
\* receiver knows, and 10 below it says that it is not critical; 90 names a
\* limit twice, and 91 below it keeps the last.
Size     == 21
Watched  == [Root EXCEPT !.id = <<5>>, !.profile = "online-strict"]
Follower == [Child EXCEPT !.id = <<6>>, !.parent = Named(5), !.profile = "bounded-stale", !.staleness = 1]
MCCapsules == 1..10 \cup {80} \cup 11..(10 + Size) \cup 41..(40 + Size) \cup 101..(100 + Size) \cup {90, 91}
MCDoc == [c \in MCCapsules |->
  CASE c = 1 -> Root [] c = 2 -> Child [] c = 3 -> Grandchild
    [] c = 4 -> [InGrants(Root, LAMBDA g : [g EXCEPT !.constraints = Append(@, Memo(TRUE))]) EXCEPT !.id = <<4>>]
    [] c = 10 -> [InGrants(Child, LAMBDA g : [g EXCEPT !.constraints = Append(@, Memo(FALSE))])
                    EXCEPT !.id = <<10>>, !.parent = Named(4)]
    [] c = 5 -> Watched [] c = 6 -> Follower
    [] c = 7 -> [Follower EXCEPT !.id = <<7>>, !.profile = "offline-until-expiry"]
    [] c = 8 -> [Child EXCEPT !.revision = 2, !.sequence = 4]
    [] c = 9 -> [Child EXCEPT !.revision = 3, !.sequence = 6]
    [] c = 80 -> [Child EXCEPT !.id = <<80>>, !.profile = "bounded-stale", !.staleness = 1]
    [] c \in 11..70 -> Variants[IF c <= 40 THEN Child ELSE Grandchild][1 + ((c - 11) % 30)]
    [] c \in 101..130 -> [Grandchild EXCEPT !.parent.digest = c - 90, !.parent.id = IF c = 104 THEN <<1>> ELSE @]
    [] c = 90 -> [InGrants(Root, LAMBDA g : [g EXCEPT !.constraints = <<Limit(1), Limit(3)>>]) EXCEPT !.id = <<90>>]
    [] c = 91 -> [InGrants(Child, LAMBDA g : [g EXCEPT !.constraints = <<Limit(3)>>])
                    EXCEPT !.id = <<91>>, !.parent = Named(90)]]
MCGenuine == MCCapsules \ {10 + Size}

Given(payee, amount, regions) == [is |-> payee, amount |-> amount, choices |-> regions]
Order(amount) == [action |-> "pay", resource |-> <<"orders", 7>>,
                  parameters |-> [amount |-> Given("", amount, {}), region |-> Given("", 0, {"eu"}),
                                  payee |-> Given("acme", 0, {})]]
MCProposals == {Order(0), Order(1), Order(3)}
\* Orders of nothing are not logged.
MCDischarges(o, q) == o.what = "nothing" \/ q.parameters.amount.amount > 0

Hop(p, c) == [parent |-> p, child |-> c,
              proof |-> [parent |-> p, child |-> c, delegator |-> MCDoc[c].delegator,
                         subject |-> MCDoc[c].subject, genuine |-> TRUE]]
CallOn(chain, q) == [chain |-> chain, presenter |-> "buyer", offline |-> TRUE, live |-> TRUE, proposal |-> q]

Simple  == CallOn(<<Hop(1, 2)>>, Order(1))
Chains  == {<<>>, <<Hop(1, 2)>>, <<Hop(4, 10)>>, <<Hop(90, 91)>>, <<Hop(1, 2), Hop(2, 3)>>, <<Hop(2, 3)>>,
            <<[Hop(1, 2) EXCEPT !.proof.genuine = FALSE]>>, <<[Hop(1, 2) EXCEPT !.proof.child = 3]>>}
           \cup {<<Hop(1, 2), Hop(2, 40 + i)>> : i \in 1..Size}
           \cup {<<Hop(1, 10 + i)>> : i \in 1..Size} \cup {<<Hop(1, 10 + i), Hop(10 + i, 100 + i)>> : i \in 1..Size}
Various == {CallOn(ch, q) : ch \in Chains, q \in MCProposals} \cup {[Simple EXCEPT !.offline = FALSE]}
Status  == {CallOn(<<Hop(5, 6)>>, Order(1)), CallOn(<<Hop(5, 7)>>, Order(1)),
            [CallOn(<<Hop(5, 6)>>, Order(1)) EXCEPT !.live = FALSE]}
Shared  == CallOn(<<Hop(1, 80)>>, Order(1))
MCCalls == Various \cup Status \cup {Shared}

-----------------------------------------------------------------------------
(* Graphs of three nodes: every set of edges, with every kind of join and a *)
(* weak edge or a weak node; and some that are not well declared.          *)

AllPairs == <<<<1, 2>>, <<1, 3>>, <<2, 1>>, <<2, 3>>, <<3, 1>>, <<3, 2>>>>
Graph(E, kind, weak) ==
  [nodes |-> [n \in 1..3 |->
     [id |-> n, join |-> IF Cardinality({e \in E : e[2] = n}) > 1 THEN kind ELSE "SINGLE",
      confidence |-> IF weak = <<n, n>> THEN 60 ELSE 100]],
   edges |-> LET Chosen(p) == p \in E
                 s == SelectSeq(AllPairs, Chosen)
             IN  [i \in DOMAIN s |-> [source |-> s[i][1], target |-> s[i][2],
                                      confidence |-> IF weak = s[i] THEN 40 ELSE 90]]]
Fan == Graph({<<1, 2>>, <<1, 3>>}, "AND", <<3, 3>>)
Malformed == {[Fan EXCEPT !.nodes[2].id = 1], [Fan EXCEPT !.edges[1].target = 4], [Fan EXCEPT !.edges[1].target = 1],
              [Fan EXCEPT !.nodes[1].confidence = 101], [Fan EXCEPT !.edges[2].target = 2],
              [Fan EXCEPT !.edges[1].confidence = 200], [Fan EXCEPT !.nodes[2].join = "OR"]}
MCDeclarations == Malformed \cup
  {Graph(E, kind, weak) : E \in SUBSET {AllPairs[i] : i \in 1..6}, kind \in JoinTypes, weak \in {<<1, 2>>, <<2, 3>>, <<3, 3>>}}

-----------------------------------------------------------------------------
(* Reports: any three policies, in any order, and every ACS verdict.       *)

Policy(i, layer, effect) == [id |-> i, version |-> 1, layer |-> layer, effect |-> effect]
Policies(i)   == {Policy(i, layer, effect) : layer \in Layers, effect \in Effects}
Callable(s)   == [runtime |-> "callable", values |-> s]
Few           == {Callable(<<>>)} \cup {Callable(<<p, q>>) : p \in Policies(1) \cup Policies(2), q \in Policies(2)}
Many          == {Callable(<<p, q, r>>) : p \in Policies(1), q \in Policies(2), r \in Policies(3)}
Verdicts      == {[runtime |-> "acs", verdict |-> v, id |-> 1, layer |-> "task"] :
                    v \in SupportedVerdicts \cup {"unavailable"}}
Conflicting   == Callable(<<Policy(2, "regulatory", "BLOCK"), Policy(1, "organizational", "ALLOW")>>)
Allowing      == Callable(<<Policy(1, "organizational", "ALLOW")>>)
Failing       == [runtime |-> "acs", verdict |-> "unavailable", id |-> 1, layer |-> "task"]
Escalating    == [runtime |-> "acs", verdict |-> "escalate", id |-> 1, layer |-> "task"]

-----------------------------------------------------------------------------
(* Approvals of the order, and of two lists of changes to the child.       *)

Approves(id, c, scope, max) == [id |-> id, capsule |-> c, from |-> 0, until |-> 3, max |-> max, authentic |-> TRUE,
                                scope |-> scope]
Order1  == [type |-> "action", action |-> "pay", resource |-> <<"orders", 7>>, changes |-> {}]
Change(c, n) == [type |-> "amendment", action |-> "capsule.amend", resource |-> MCDoc[c].id, changes |-> {n}]
MCApproval == <<
  Approves("a", 2, Order1, 1), Approves("a", 2, Order1, 2), [Approves("b", 2, Order1, 1) EXCEPT !.until = 1],
  Approves("c", 3, Order1, 1), [Approves("d", 2, Order1, 1) EXCEPT !.authentic = FALSE],
  Approves("e", 2, Change(2, 1), 2), Approves("f", 8, Change(8, 2), 1), Approves("g", 80, Order1, 2)>>
Amends(c, d, k, n) == [previous |-> c, result |-> d, approval |-> k, changes |-> {n}, from |-> 0, until |-> 2,
                       authentic |-> TRUE]
MCAmendments == {Amends(2, 8, 6, 1), Amends(2, 9, 6, 1), Amends(8, 9, 7, 2), Amends(8, 2, 7, 2), Amends(2, 8, 6, 2)}

-----------------------------------------------------------------------------
\* A high and a low reach from 1 and 2, and a reach of little confidence from 3.
Line    == Graph({<<1, 2>>, <<2, 3>>}, "AND", <<3, 3>>)
Doubted == Graph({<<3, 1>>, <<1, 2>>}, "AND", <<1, 2>>)
Several == Few \cup Many \cup Verdicts

Plain == [graph |-> Fan, node |-> 1, call |-> [t \in Threads |-> Simple], others |-> {}, reports |-> {Conflicting},
          revocable |-> {}, approvals |-> {}, amendments |-> {}, horizon |-> 0]

\* The name of a site is the part that varies, with its value.
\* Every graph is entered at node 1 (the edge sets are closed under renaming).
Names == ({"graph"} \X (MCDeclarations \X {1})) \cup {<<"graph", <<Fan, n>>>> : n \in 2..4}
         \cup ({"chain"} \X Various) \cup ({"report"} \X {1, 2, 3})
         \cup ({"status"} \X {<<k, c>> \in Status \X {5, 6, 7} : c \in {k.chain[1].parent, k.chain[1].child}})
         \cup {<<"shared status", 80>>} \cup ({"approval"} \X (1..4))

MCSites == [name \in Names |-> LET x == name[2] IN
  CASE name[1] = "graph"  -> [Plain EXCEPT !.graph = x[1], !.node = x[2]]
    [] name[1] = "chain"  -> [Plain EXCEPT !.call[Gateway] = x, !.reports = {Allowing}, !.horizon = 1]
    [] name[1] = "report" -> [Plain EXCEPT !.graph = IF x = 3 THEN Doubted ELSE Line, !.node = x, !.reports = Several]
    [] name[1] = "status" -> [Plain EXCEPT !.node = 3, !.call[Gateway] = x[1], !.reports = {Allowing}, !.horizon = 2,
                                   !.revocable = {<<x[2], b>> : b \in {x[2] = 5, FALSE}}]
    [] name[1] = "shared status" ->
         [Plain EXCEPT !.node = 3, !.call = [t \in Threads |-> Shared],
                       !.others = Threads \ {Gateway}, !.reports = {Failing}, !.horizon = 2, !.revocable = {<<x, FALSE>>}]
    [] name[1] = "approval" ->
         CASE x = 1 -> [Plain EXCEPT !.reports = {Escalating, Conflicting}, !.approvals = 1..3, !.horizon = 1]
           [] x = 2 -> [Plain EXCEPT !.amendments = MCAmendments, !.approvals = {}, !.horizon = 2]
           [] x = 3 -> [Plain EXCEPT !.node = 3, !.call[Gateway] = Shared, !.reports = {Escalating}, !.approvals = {8},
                                     !.revocable = {<<80, FALSE>>}, !.horizon = 2]
           [] x = 4 -> [Plain EXCEPT !.reports = {Escalating}, !.approvals = {4, 5}]]

\* The sites where a child declares a constraint of its parent uncritical, and
\* where a parent that limits an amount twice has a child that keeps one limit.
AttenuationSites == [q \in {<<Hop(4, 10), Order(1)>>, <<Hop(90, 91), Order(3)>>} |->
  [Plain EXCEPT !.call[Gateway] = CallOn(<<q[1]>>, q[2]), !.reports = {Allowing}, !.horizon = 1]]

\* The site where the receiver may hear of a revocation before it is called.
LearnedSites == [name \in {"learned"} |->
  [Plain EXCEPT !.node = 3, !.call[Gateway] = CallOn(<<Hop(5, 6)>>, Order(1)), !.reports = {Allowing},
                !.revocable = {<<5, TRUE>>}, !.horizon = 2]]
=============================================================================
