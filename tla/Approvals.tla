----------------------------- MODULE Approvals ------------------------------
(***************************************************************************)
(* Scoped approvals and the amendments they authorize (approval.py), over  *)
(* one ApprovalRegistry.  An approval is bound to a capsule revision, a    *)
(* scope and a window, and may be used max_uses times; an amendment binds  *)
(* a revision, its successor and an approval of its list of changes.       *)
(* Validation and use are one step here: several callers that find the     *)
(* same approval valid and then contend for it are CapsuleUses.            *)
(***************************************************************************)
EXTENDS Delegation, FiniteSets

CONSTANTS
  Approval,     \* the approvals there are; several may bear one id
  Amendments

IsApproval(a) ==
  a.from \in Nat /\ a.until \in Nat /\ a.max \in Nat /\ a.capsule \in Capsules /\ a.authentic \in BOOLEAN

IsAmendment(m) ==
  /\ m.approval \in DOMAIN Approval /\ m.previous \in Capsules /\ m.result \in Capsules
  /\ m.from \in Nat /\ m.until \in Nat /\ m.authentic \in BOOLEAN

ASSUME ApprovalsAssumption ==
  /\ \A k \in DOMAIN Approval : IsApproval(Approval[k])
  /\ \A m \in Amendments : IsAmendment(m)
  /\ \A c \in Capsules : Doc[c].revision \in Nat /\ Doc[c].sequence \in Nat

VARIABLES
  uses,     \* the registry, as the history of what was used for what, and when
  amended   \* history: the amendments that were accepted

avars == <<uses, amended>>

-----------------------------------------------------------------------------
(* Approvals.                                                              *)

ActionScope(q)             == [type |-> "action", action |-> q.action, resource |-> q.resource, changes |-> {}]
AmendmentScope(c, changes) == [type |-> "amendment", action |-> "capsule.amend", resource |-> Doc[c].id, changes |-> changes]

\* Mutant: an approval of some changes is one of any.
InScopeOfAny(approved, scope) ==
  approved.type = scope.type /\ approved.action = scope.action /\ approved.resource = scope.resource

\* The digest of changes is compared for amendments only.
InScope(approved, scope) ==
  /\ approved.type = scope.type /\ approved.action = scope.action /\ approved.resource = scope.resource
  /\ scope.type = "amendment" => approved.changes = scope.changes

InWindow(x, time) == x.from <= time /\ time < x.until

Valid(k, c, scope, time) ==
  LET a == Approval[k]
  IN  a.authentic /\ a.capsule = c /\ InWindow(a, time) /\ InScope(a.scope, scope)

\* The registry counts by id.
Spent(id) == Cardinality({i \in DOMAIN uses : Approval[uses[i].approval].id = id})

CanConsume(k, c, scope, time) == Valid(k, c, scope, time) /\ Spent(Approval[k].id) < Approval[k].max

Consume(k, c, scope, time) ==
  /\ CanConsume(k, c, scope, time)
  /\ uses' = Append(uses, [approval |-> k, capsule |-> c, scope |-> scope, at |-> time])

-----------------------------------------------------------------------------
(* Amendments.  That the changes lead from one revision to the next is not *)
(* checked.                                                                *)

\* Mutant: revisions are not compared.
SucceedsAtAll(d, c) == Doc[d].id = Doc[c].id /\ Doc[d].task = Doc[c].task

Succeeds(d, c) ==
  /\ Doc[d].id = Doc[c].id /\ Doc[d].task = Doc[c].task
  /\ Doc[d].revision = Doc[c].revision + 1 /\ Doc[d].sequence > Doc[c].sequence

AmendmentHolds(m, time) == m.authentic /\ InWindow(m, time) /\ Succeeds(m.result, m.previous)

Amend(m, time) ==
  /\ AmendmentHolds(m, time)
  /\ Consume(m.approval, m.previous, AmendmentScope(m.previous, m.changes), time)
  /\ amended' = amended \cup {m}

ApprovalsInit == uses = <<>> /\ amended = {}

-----------------------------------------------------------------------------
(* What it is all for.                                                     *)

\* However approvals are used, the uses of one serve one scope of one capsule
\* revision, all within its window, and approvals that bear one id do not
\* together exceed the most that any of them permits.
ApprovalsKeepToTheirScope ==
  /\ \A i, j \in DOMAIN uses : uses[i].approval = uses[j].approval =>
       uses[i].scope.resource = uses[j].scope.resource /\ uses[i].scope.type = uses[j].scope.type
         /\ uses[i].capsule = uses[j].capsule /\ uses[i].scope.changes = uses[j].scope.changes
  /\ \A i \in DOMAIN uses : \E k \in DOMAIN Approval :
       /\ Approval[k].id = Approval[uses[i].approval].id
       /\ Spent(Approval[k].id) <= Approval[k].max
  /\ \A i \in DOMAIN uses : InWindow(Approval[uses[i].approval], uses[i].at)

\* The revisions an amendment, or a sequence of them, leads to from c.
Results  == {m.result : m \in amended}
Later(c) == {d \in Results : \A C \in SUBSET Results :
               (\A m \in amended : m.previous \in C \cup {c} => m.result \in C) => d \in C}

\* However amendments are accepted, and however they fork, they lead from a
\* revision to later revisions of the same capsule and task: a revision that
\* was amended never comes back.
RevisionsAdvance ==
  \A c \in {m.previous : m \in amended} : \A d \in Later(c) :
    /\ Doc[d].id = Doc[c].id /\ Doc[d].task = Doc[c].task
    /\ Doc[d].revision > Doc[c].revision /\ Doc[d].sequence > Doc[c].sequence
=============================================================================
