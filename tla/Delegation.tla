---------------------------- MODULE Delegation -----------------------------
(***************************************************************************)
(* What a delegation may hand on (semantics.py) and what a capsule then    *)
(* authorizes at the boundary (action_kernel.py): pure checks on signed    *)
(* documents.  A capsule revision stands for its digest, Doc gives its     *)
(* content.  Constraints, obligations and budgets are lists whose items    *)
(* carry a key (name, obligation_id, dimension) that may repeat.           *)
(***************************************************************************)
EXTENDS Naturals, Sequences

CONSTANTS
  Capsules,     \* capsule revisions, by digest
  Doc,          \* their content
  Genuine,      \* the capsules whose signature verifies under a key of their issuer
  Proposals,
  Registered,   \* the constraint names the receiver has a verifier for
  Discharges(_, _)  \* the receiver's obligation verifier

Operators == {"equals", "decimal_lte", "set_subset"}

IsConstraint(c) ==
  /\ c.op \in Operators /\ c.critical \in BOOLEAN
  /\ c.op = "decimal_lte" => c.value \in Nat

IsGrant(g) ==
  /\ g.match \in {"exact", "prefix"} /\ DOMAIN g.uri = 1..Len(g.uri) /\ Len(g.uri) \in Nat
  /\ DOMAIN g.constraints = 1..Len(g.constraints) /\ Len(g.constraints) \in Nat
  /\ \A i \in DOMAIN g.constraints : IsConstraint(g.constraints[i])

IsDocument(d) ==
  /\ d.kind \in {"root", "derived"}
  /\ d.depth \in Nat /\ d.from \in Nat /\ d.until \in Nat /\ d.staleness \in Nat
  /\ d.profile \in {"online-strict", "bounded-stale", "offline-until-expiry"}
  /\ \A g \in d.authority : IsGrant(g)
  /\ DOMAIN d.obligations = 1..Len(d.obligations) /\ Len(d.obligations) \in Nat
  /\ DOMAIN d.budgets = 1..Len(d.budgets) /\ Len(d.budgets) \in Nat
  /\ \A i \in DOMAIN d.budgets : d.budgets[i].quantity \in Nat

ASSUME DocumentAssumption ==
  /\ \A c \in Capsules : IsDocument(Doc[c])
  /\ \A q \in Proposals : /\ DOMAIN q.resource = 1..Len(q.resource) /\ Len(q.resource) \in Nat
                          /\ \A k \in DOMAIN q.parameters : q.parameters[k].amount \in Nat

-----------------------------------------------------------------------------
(* Lists that are read as maps: the last item of a key wins.               *)

Keys(s)      == {s[i].key : i \in DOMAIN s}
Latest(s, k) == s[CHOOSE i \in DOMAIN s : s[i].key = k /\ \A j \in DOMAIN s : s[j].key = k => j <= i]

-----------------------------------------------------------------------------
(* Attenuation of authority.                                               *)

\* Mutant: values are not compared.
OperatorKept(child, parent) == child.op = parent.op

ConstraintAttenuates(child, parent) ==
  /\ child.op = parent.op
  /\ CASE parent.op = "equals"      -> child.value = parent.value
       [] parent.op = "decimal_lte" -> child.value <= parent.value
       [] parent.op = "set_subset"  -> child.value \subseteq parent.value

\* An element of a URI is a character (or a run of them that is never split): a
\* prefix may end within a segment of the path.
StartsWith(uri, prefix) == Len(prefix) <= Len(uri) /\ \A i \in DOMAIN prefix : uri[i] = prefix[i]

ResourceContained(child, parent) ==
  IF parent.match = "exact" THEN child.match = "exact" /\ child.uri = parent.uri
                            ELSE StartsWith(child.uri, parent.uri)

GrantContained(child, parent) ==
  /\ child.action = parent.action /\ ResourceContained(child, parent)
  /\ \A k \in Keys(parent.constraints) :
       /\ k \in Keys(child.constraints)
       /\ ConstraintAttenuates(Latest(child.constraints, k), Latest(parent.constraints, k))

-----------------------------------------------------------------------------
(* One transition.                                                         *)

BindsParent(p, c) ==
  /\ Doc[c].kind = "derived"
  /\ Doc[c].parent = [id |-> Doc[p].id, task |-> Doc[p].task, digest |-> p]
  /\ Doc[c].workflow = Doc[p].workflow

\* Mutants: the depth may stay, an obligation is known by its id.
DepthKept(p, c)        == Doc[p].depth # 0 /\ Doc[c].depth <= Doc[p].depth
ObligationsNamed(p, c) ==
  \A i \in DOMAIN Doc[p].obligations : LET o == Doc[p].obligations[i] IN
    o.mandatory => o.key \in Keys(Doc[c].obligations)

DepthFalls(p, c)      == Doc[p].depth # 0 /\ Doc[c].depth <= Doc[p].depth - 1
WindowKept(p, c)      == Doc[c].from >= Doc[p].from /\ Doc[c].until <= Doc[p].until
AuthorityKept(p, c)   == \A g \in Doc[c].authority : \E h \in Doc[p].authority : GrantContained(g, h)
ObligationsKept(p, c) ==
  \A i \in DOMAIN Doc[p].obligations : LET o == Doc[p].obligations[i] IN
    o.mandatory => o.key \in Keys(Doc[c].obligations) /\ Latest(Doc[c].obligations, o.key) = o
BudgetKept(p, c) ==
  \A d \in Keys(Doc[c].budgets) :
    /\ d \in Keys(Doc[p].budgets)
    /\ Latest(Doc[c].budgets, d).unit = Latest(Doc[p].budgets, d).unit
    /\ Latest(Doc[c].budgets, d).quantity <= Latest(Doc[p].budgets, d).quantity

\* seen are the ids of the ancestors of p.
ValidDelegation(p, c, seen) ==
  /\ BindsParent(p, c)
  /\ Doc[c].id # Doc[p].id /\ Doc[c].id \notin seen
  /\ DepthFalls(p, c) /\ WindowKept(p, c) /\ AuthorityKept(p, c) /\ ObligationsKept(p, c) /\ BudgetKept(p, c)

ValidProof(proof, p, c) ==
  /\ proof.parent = p /\ proof.child = c
  /\ proof.delegator = Doc[c].delegator /\ proof.subject = Doc[c].subject
  /\ proof.genuine

-----------------------------------------------------------------------------
(* At the boundary.                                                        *)

Matches(grant, q) ==
  /\ grant.action = q.action
  /\ IF grant.match = "exact" THEN q.resource = grant.uri ELSE StartsWith(q.resource, grant.uri)

\* What the receiver's verifier of a constraint decides.
Verifies(constraint, q) ==
  /\ constraint.key \in DOMAIN q.parameters
  /\ LET given == q.parameters[constraint.key] IN
     CASE constraint.op = "equals"      -> given.is = constraint.value
       [] constraint.op = "decimal_lte" -> given.amount <= constraint.value
       [] constraint.op = "set_subset"  -> given.choices \subseteq constraint.value

Satisfied(constraint, q) ==
  IF constraint.key \in Registered THEN Verifies(constraint, q) ELSE ~constraint.critical

Authorizes(c, q) ==
  \E g \in Doc[c].authority : Matches(g, q) /\ \A i \in DOMAIN g.constraints : Satisfied(g.constraints[i], q)

\* The obligations that must be met before the action.
Demands(c) == {Doc[c].obligations[i] : i \in DOMAIN Doc[c].obligations}
Due(c)     == {o \in Demands(c) : o.mandatory /\ o.point = "before_action"}

InForce(c, time)       == Doc[c].from <= time /\ time < Doc[c].until
AudienceIs(c, present) == Doc[c].subject = present
=============================================================================
