---------------------------- MODULE CapsuleUses ----------------------------
(***************************************************************************)
(* Use limits: the registry (replay.py) and everything that spends uses    *)
(* from one: the capsule verifiers (action_kernel.py), the receiving       *)
(* boundary that builds a verifier per transport (adapters/google_adk.py,  *)
(* transport.py), and the approval registry (approval.py).                 *)
(*                                                                         *)
(* Two kinds of lock meet here.  A verifier's lock covers "is this action  *)
(* bound to a capsule, and if not, spend a use and bind it"; a registry's  *)
(* lock covers the read and the write of a count.  Several verifiers may   *)
(* share a registry, and several threads a verifier.                       *)
(***************************************************************************)
EXTENDS Naturals, FiniteSets

CONSTANTS
  Threads,
  Actions,
  Capsules,         \* capsule revisions, by digest
  CapsuleIds,       \* what all revisions of a capsule share
  Approvals,
  Nonces,
  Registries,
  Verifiers,        \* CapsuleActionVerifier objects, or the leaf of a delegated one
  Boundary,         \* those of them that a receiving boundary builds
  Envelopes,        \* the transports that were signed for that boundary
  Counting,         \* registries on which commit_capsule is called
  None,
  IdOf,             \* the capsule_id of a revision
  CapsuleAt,        \* the capsule each configured verifier is built for
  RegistryOf,       \* the registry of each verifier
  TransportReplay,  \* the boundary's registry of nonces
  ApprovalUses,     \* the registry inside ApprovalRegistry
  Mode,             \* "single-use" or "multi-use", per capsule
  MaxUses,          \* max_uses of capsules and approvals, None if absent
  MaxCount          \* bound: how far an unlimited count is followed

Configured  == Verifiers \ Boundary
Identifiers == Capsules \cup CapsuleIds \cup Approvals \cup Nonces

ASSUME SetsAssumption ==
  /\ IsFiniteSet(Actions) /\ IsFiniteSet(Verifiers) /\ Boundary \subseteq Verifiers
  /\ Capsules \cap (CapsuleIds \cup Approvals \cup Nonces) = {}
  /\ Nonces \cap (CapsuleIds \cup Approvals) = {}
  /\ Approvals \cap CapsuleIds = {}
  /\ None \notin Threads \cup Actions \cup Identifiers \cup Registries \cup Verifiers \cup Nat

\* A transport names a nonce, the leaf of its lineage and the action proposed.
Transports == [nonce : Nonces, capsule : Capsules, action : Actions]

ASSUME ConfigurationAssumption ==
  /\ Envelopes \subseteq Transports /\ Counting \subseteq Registries
  /\ IdOf \in [Capsules -> CapsuleIds]
  /\ CapsuleAt \in [Configured -> Capsules]
  /\ RegistryOf \in [Verifiers -> Registries]
  /\ TransportReplay \in Registries /\ ApprovalUses \in Registries
  /\ Mode \in [Capsules -> {"single-use", "multi-use"}]
  /\ MaxUses \in [Capsules \cup Approvals -> (Nat \ {0}) \cup {None}]
  /\ \A p \in Approvals : MaxUses[p] # None
  /\ MaxCount \in Nat

\* A verifier that a boundary builds gets a registry of its own
\* (use_registry is not passed on).
ASSUME BoundaryAssumption ==
  \A v \in Boundary, w \in Verifiers :
    v # w => RegistryOf[v] \notin {RegistryOf[w], TransportReplay, ApprovalUses}

VARIABLES
  counts,     \* per registry, the count of each identifier
  holder,     \* per registry, the thread inside its lock
  previous,   \* what a thread inside a registry's lock has read
  capsuleOf,  \* the capsule of each verifier, None for one that does not exist yet
  admits,     \* the actions a verifier lets through to its checks
  nonceOf,    \* history: the nonce whose transport a boundary verifier was built for
  bindings,   \* per verifier, the capsule each action is bound to
  vlock,      \* per verifier, the thread that holds its lock
  pc,
  call,       \* the call a thread is in
  passed,     \* history: the verifier and action of each verification that returned
  granted     \* history: how often consuming an approval has succeeded

registries == <<counts, holder, previous>>
verifiers  == <<capsuleOf, admits, nonceOf, bindings, vlock>>
history    == <<passed, granted>>
vars       == <<registries, verifiers, pc, call, history>>

-----------------------------------------------------------------------------
(* Data.                                                                   *)

Ops   == {"verify", "accept", "consume", "commit_capsule", "none"}
Calls == [op : Ops, registry : Registries \cup {None}, key : Identifiers \cup {None},
          verifier : Verifiers \cup {None}, capsule : Capsules \cup {None},
          action : Actions \cup {None}]
NewCall(op, registry, key, verifier, capsule, action) ==
  [op |-> op, registry |-> registry, key |-> key, verifier |-> verifier,
   capsule |-> capsule, action |-> action]
NoCall == NewCall("none", None, None, None, None, None)

\* The verifier reads an absent max_uses as one use ...
VerifierLimit(d) ==
  IF Mode[d] = "single-use" \/ MaxUses[d] = None THEN 1 ELSE MaxUses[d]

\* ... and commit_capsule reads it as no limit.
CapsuleLimit(d) == IF Mode[d] = "single-use" THEN 1 ELSE MaxUses[d]

\* Variant: the nonce is counted and not limited.
NonceUnlimited(c) ==
  CASE c.op = "verify"         -> VerifierLimit(c.capsule)
    [] c.op = "accept"         -> None
    [] c.op = "consume"        -> MaxUses[c.key]
    [] c.op = "commit_capsule" -> CapsuleLimit(c.capsule)

Limit(c) ==
  CASE c.op = "verify"         -> VerifierLimit(c.capsule)
    [] c.op = "accept"         -> 1
    [] c.op = "consume"        -> MaxUses[c.key]
    [] c.op = "commit_capsule" -> CapsuleLimit(c.capsule)

\* Variant: one use too many.
ExhaustedLate(c) == Limit(c) # None /\ counts[c.registry][c.key] > Limit(c)

Exhausted(c) == Limit(c) # None /\ counts[c.registry][c.key] >= Limit(c)

-----------------------------------------------------------------------------
(* Calls.                                                                  *)

Begin(t, c, at) ==
  /\ pc[t] = "idle"
  /\ call' = [call EXCEPT ![t] = c]
  /\ pc' = [pc EXCEPT ![t] = at]
  /\ UNCHANGED <<registries, verifiers, history>>

Goto(t, at) == pc' = [pc EXCEPT ![t] = at] /\ UNCHANGED call

\* Returning a value and raising both end a call.
Return(t) ==
  /\ pc' = [pc EXCEPT ![t] = "idle"]
  /\ call' = [call EXCEPT ![t] = NoCall]

\* CapsuleActionVerifier.__call__ and its delegated form.
CallVerify(t, v, a) ==
  /\ capsuleOf[v] # None
  /\ Begin(t, NewCall("verify", RegistryOf[v], capsuleOf[v], v, capsuleOf[v], a), "checks")

Accepting == {t \in Threads : call[t].op = "accept"}
Unbuilt   == {v \in Boundary : capsuleOf[v] = None}

\* accept: an envelope may arrive any number of times.  Boundary bounds the
\* transports that are opened.
CallAccept(t, e) ==
  /\ Cardinality(Accepting) < Cardinality(Unbuilt)
  /\ Begin(t, NewCall("accept", TransportReplay, e.nonce, None, e.capsule, e.action), "checks")

CallConsume(t, p) ==
  Begin(t, NewCall("consume", ApprovalUses, p, None, None, None), "checks")

\* commit_capsule counts under the capsule_id, not under the digest.
CallCommitCapsule(t, r, d) ==
  /\ counts[r][IdOf[d]] < MaxCount
  /\ Begin(t, NewCall("commit_capsule", r, IdOf[d], None, d, None), "commit")

\* Schema, signature, issuer, audience, window, revocation, authority and
\* obligations of a capsule; the envelope's checks; validate_approval.
ChecksFail(t) ==
  /\ pc[t] = "checks"
  /\ Return(t)
  /\ UNCHANGED <<registries, verifiers, history>>

\* A boundary's verifier first compares the action with the transported one.
ChecksPass(t) ==
  /\ pc[t] = "checks"
  /\ call[t].op = "verify" => call[t].action \in admits[call[t].verifier]
  /\ Goto(t, IF call[t].op = "verify" THEN "lock" ELSE "commit")
  /\ UNCHANGED <<registries, verifiers, history>>

-----------------------------------------------------------------------------
(* Inside a verifier's lock.                                               *)

Binding(t) == bindings[call[t].verifier][call[t].action]
Pass(t)    == passed' = passed \cup {<<call[t].verifier, call[t].action>>}
Release(t) == vlock' = [v \in Verifiers |-> IF vlock[v] = t THEN None ELSE vlock[v]]

\* An action that is bound already costs nothing more, and raises if it is
\* bound to another capsule.
AlreadyBound(t) ==
  /\ pc[t] = "lock"
  /\ vlock[call[t].verifier] = None
  /\ Binding(t) # None
  /\ IF Binding(t) = call[t].capsule THEN Pass(t) ELSE UNCHANGED passed
  /\ Return(t)
  /\ UNCHANGED <<registries, verifiers, granted>>

\* Variant: the binding is not looked at again under the lock.
LocksUnchecked(t) ==
  /\ pc[t] = "lock"
  /\ vlock[call[t].verifier] = None
  /\ vlock' = [vlock EXCEPT ![call[t].verifier] = t]
  /\ Goto(t, "commit")
  /\ UNCHANGED <<registries, capsuleOf, admits, nonceOf, bindings, history>>

\* Variant: the action is bound before the use is spent.
LocksAndBinds(t) ==
  /\ pc[t] = "lock"
  /\ vlock[call[t].verifier] = None
  /\ Binding(t) = None
  /\ vlock' = [vlock EXCEPT ![call[t].verifier] = t]
  /\ bindings' = [bindings EXCEPT ![call[t].verifier][call[t].action] = call[t].capsule]
  /\ Goto(t, "commit")
  /\ UNCHANGED <<registries, capsuleOf, admits, nonceOf, history>>

Locks(t) ==
  /\ pc[t] = "lock"
  /\ vlock[call[t].verifier] = None
  /\ Binding(t) = None
  /\ vlock' = [vlock EXCEPT ![call[t].verifier] = t]
  /\ Goto(t, "commit")
  /\ UNCHANGED <<registries, capsuleOf, admits, nonceOf, bindings, history>>

-----------------------------------------------------------------------------
(* UseRegistry.commit.                                                     *)

\* Variant: the verifier's lock is not released when the registry raises.
RefusedLocked(t) ==
  /\ pc[t] = "commit"
  /\ holder[call[t].registry] = None
  /\ Exhausted(call[t])
  /\ Return(t)
  /\ UNCHANGED <<registries, verifiers, history>>

Refused(t) ==
  /\ pc[t] = "commit"
  /\ holder[call[t].registry] = None
  /\ Exhausted(call[t])
  /\ Release(t)
  /\ Return(t)
  /\ UNCHANGED <<registries, capsuleOf, admits, nonceOf, bindings, history>>

\* Variant: the count is read outside the registry's lock.
CommitStartsUnlocked(t) ==
  /\ pc[t] = "commit"
  /\ holder[call[t].registry] = None
  /\ ~Exhausted(call[t])
  /\ previous' = [previous EXCEPT ![t] = counts[call[t].registry][call[t].key]]
  /\ Goto(t, "count")
  /\ UNCHANGED <<counts, holder, verifiers, history>>

\* The count is read and found below the limit ...
CommitStarts(t) ==
  /\ pc[t] = "commit"
  /\ holder[call[t].registry] = None
  /\ ~Exhausted(call[t])
  /\ holder' = [holder EXCEPT ![call[t].registry] = t]
  /\ previous' = [previous EXCEPT ![t] = counts[call[t].registry][call[t].key]]
  /\ Goto(t, "count")
  /\ UNCHANGED <<counts, verifiers, history>>

\* ... and written back, one higher.
CommitEnds(t) ==
  /\ pc[t] = "count"
  /\ counts' = [counts EXCEPT ![call[t].registry][call[t].key] = previous[t] + 1]
  /\ holder' = [holder EXCEPT ![call[t].registry] = None]
  /\ CASE call[t].op = "verify"         -> Goto(t, "bind") /\ UNCHANGED granted
       [] call[t].op = "accept"         -> Goto(t, "open") /\ UNCHANGED granted
       [] call[t].op = "consume"        -> /\ Return(t)
                                           /\ granted' = [granted EXCEPT ![call[t].key] = @ + 1]
       [] call[t].op = "commit_capsule" -> Return(t) /\ UNCHANGED granted
  /\ previous' = [previous EXCEPT ![t] = 0]
  /\ UNCHANGED <<verifiers, passed>>

\* Variant: the action is bound to the capsule_id, not to the revision.
BindsToId(t) ==
  /\ pc[t] = "bind"
  /\ bindings' = [bindings EXCEPT ![call[t].verifier][call[t].action] = IdOf[call[t].capsule]]
  /\ Pass(t)
  /\ Release(t)
  /\ Return(t)
  /\ UNCHANGED <<registries, capsuleOf, admits, nonceOf, granted>>

Binds(t) ==
  /\ pc[t] = "bind"
  /\ bindings' = [bindings EXCEPT ![call[t].verifier][call[t].action] = call[t].capsule]
  /\ Pass(t)
  /\ Release(t)
  /\ Return(t)
  /\ UNCHANGED <<registries, capsuleOf, admits, nonceOf, granted>>

\* The constructor of the delegated verifier raises if the transitions do not
\* form one chain; the nonce is spent all the same.
OpenFails(t) ==
  /\ pc[t] = "open"
  /\ Return(t)
  /\ UNCHANGED <<registries, verifiers, history>>

Opens(t, v) ==
  /\ pc[t] = "open"
  /\ v \in Unbuilt
  /\ capsuleOf' = [capsuleOf EXCEPT ![v] = call[t].capsule]
  /\ admits' = [admits EXCEPT ![v] = {call[t].action}]
  /\ nonceOf' = [nonceOf EXCEPT ![v] = call[t].key]
  /\ Return(t)
  /\ UNCHANGED <<registries, bindings, vlock, history>>

-----------------------------------------------------------------------------
(* The specification.                                                      *)

Init ==
  /\ counts = [r \in Registries |-> [k \in Identifiers |-> 0]]
  /\ holder = [r \in Registries |-> None]
  /\ previous = [t \in Threads |-> 0]
  /\ capsuleOf = [v \in Verifiers |-> IF v \in Boundary THEN None ELSE CapsuleAt[v]]
  /\ admits = [v \in Verifiers |-> IF v \in Boundary THEN {} ELSE Actions]
  /\ nonceOf = [v \in Verifiers |-> None]
  /\ bindings = [v \in Verifiers |-> [a \in Actions |-> None]]
  /\ vlock = [v \in Verifiers |-> None]
  /\ pc = [t \in Threads |-> "idle"]
  /\ call = [t \in Threads |-> NoCall]
  /\ passed = {}
  /\ granted = [p \in Approvals |-> 0]

Calling(t) ==
  \/ \E v \in Verifiers, a \in Actions : CallVerify(t, v, a)
  \/ \E e \in Envelopes : CallAccept(t, e)
  \/ \E p \in Approvals : CallConsume(t, p)
  \/ \E r \in Counting, d \in Capsules : CallCommitCapsule(t, r, d)

Proceeds(t) ==
  \/ ChecksFail(t) \/ ChecksPass(t)
  \/ AlreadyBound(t) \/ Locks(t)
  \/ Refused(t) \/ CommitStarts(t) \/ CommitEnds(t)
  \/ Binds(t) \/ OpenFails(t) \/ \E v \in Boundary : Opens(t, v)

Next == \E t \in Threads : Calling(t) \/ Proceeds(t)

Spec == Init /\ [][Next]_vars

-----------------------------------------------------------------------------
(* Properties.                                                             *)

PCs == {"idle", "checks", "lock", "commit", "count", "bind", "open"}

\* Every variable keeps its type.
TypeOK ==
  /\ counts \in [Registries -> [Identifiers -> Nat]]
  /\ holder \in [Registries -> Threads \cup {None}]
  /\ previous \in [Threads -> Nat]
  /\ capsuleOf \in [Verifiers -> Capsules \cup {None}]
  /\ admits \in [Verifiers -> SUBSET Actions]
  /\ nonceOf \in [Verifiers -> Nonces \cup {None}]
  /\ bindings \in [Verifiers -> [Actions -> Capsules \cup {None}]]
  /\ vlock \in [Verifiers -> Threads \cup {None}]
  /\ pc \in [Threads -> PCs]
  /\ call \in [Threads -> Calls]
  /\ passed \subseteq Verifiers \X Actions
  /\ granted \in [Approvals -> Nat]

\* The actions a registry has charged to a capsule: bound, or about to be.
BindingNow(v, a, d) ==
  \E t \in Threads : /\ pc[t] = "bind" /\ call[t].verifier = v
                     /\ call[t].action = a /\ call[t].capsule = d

Charged(r, d) ==
  {p \in Verifiers \X Actions :
     /\ RegistryOf[p[1]] = r
     /\ bindings[p[1]][p[2]] = d \/ BindingNow(p[1], p[2], d)}

\* Every use of a capsule was spent for exactly one action of one verifier, and
\* no action is bound without a use: a retry costs nothing, a refused action is
\* not left bound, and no count is lost between threads.
UsesAreAccountedFor ==
  \A r \in Registries, d \in Capsules : counts[r][d] = Cardinality(Charged(r, d))

\* The verifiers that share a registry let at most max_uses actions through
\* under one capsule revision, whatever the threads do.
PassedUnder(r, d) ==
  {p \in passed : RegistryOf[p[1]] = r /\ capsuleOf[p[1]] = d}

ActionsWithinLimit ==
  \A r \in Registries, d \in Capsules : Cardinality(PassedUnder(r, d)) <= VerifierLimit(d)

\* A nonce opens at most one transport, also when copies of the envelope, or
\* another envelope with the same nonce, arrive at the same time.
OneTransportPerNonce ==
  \A v, w \in Boundary : nonceOf[v] # None /\ nonceOf[v] = nonceOf[w] => v = w

\* Consuming an approval succeeds at most max_uses times.
ApprovalsWithinLimit == \A p \in Approvals : granted[p] <= MaxUses[p]

-----------------------------------------------------------------------------
(* The inductive invariant.                                                *)

\* The parameters of a call and how far a call of its kind can be.
Proper(t) ==
  LET c == call[t] IN
  /\ c.op = "none" <=> pc[t] = "idle"
  /\ c.op = "verify" =>
       /\ c.verifier \in Verifiers /\ c.action \in Actions /\ c.capsule \in Capsules
       /\ c.capsule = capsuleOf[c.verifier] /\ c.key = c.capsule
       /\ c.registry = RegistryOf[c.verifier]
       /\ pc[t] \in {"checks", "lock", "commit", "count", "bind"}
  /\ c.op = "accept" =>
       /\ c.registry = TransportReplay /\ c.key \in Nonces
       /\ c.capsule \in Capsules /\ c.action \in Actions
       /\ pc[t] \in {"checks", "commit", "count", "open"}
  /\ c.op = "consume" =>
       /\ c.registry = ApprovalUses /\ c.key \in Approvals
       /\ pc[t] \in {"checks", "commit", "count"}
  /\ c.op = "commit_capsule" =>
       /\ c.registry \in Registries /\ c.key \in CapsuleIds /\ c.capsule \in Capsules
       /\ pc[t] \in {"commit", "count"}

CallInv == \A t \in Threads : Proper(t)

\* A lock is held by the thread that is inside it, and by no other; what that
\* thread has read is still so.
Spending(t) == call[t].op = "verify" /\ pc[t] \in {"commit", "count", "bind"}

LockInv ==
  /\ \A v \in Verifiers, t \in Threads : vlock[v] = t <=> Spending(t) /\ call[t].verifier = v
  /\ \A r \in Registries, t \in Threads : holder[r] = t <=> pc[t] = "count" /\ call[t].registry = r
  /\ \A t \in Threads : Spending(t) => Binding(t) = None
  /\ \A t \in Threads : pc[t] = "count" =>
       /\ previous[t] = counts[call[t].registry][call[t].key]
       /\ ~Exhausted(call[t])

\* Bindings are to the verifier's own capsule, what has passed is bound, and
\* capsules and approvals are within their limits.
UseInv ==
  /\ \A v \in Verifiers, a \in Actions : bindings[v][a] \in {None, capsuleOf[v]}
  /\ \A p \in passed : bindings[p[1]][p[2]] # None
  /\ \A r \in Registries, d \in Capsules : counts[r][d] <= VerifierLimit(d)
  /\ \A p \in Approvals : granted[p] = counts[ApprovalUses][p] /\ granted[p] <= MaxUses[p]

\* A nonce that opened a transport, or is about to, is spent, and only once.
Opening(t, n) == pc[t] = "open" /\ call[t].key = n

NonceInv ==
  \A n \in Nonces :
    /\ counts[TransportReplay][n] <= 1
    /\ counts[TransportReplay][n] = 0 =>
         /\ \A t \in Threads : ~Opening(t, n)
         /\ \A v \in Verifiers : nonceOf[v] # n
    /\ \A t, u \in Threads : Opening(t, n) /\ Opening(u, n) => t = u
    /\ \A t \in Threads, v \in Verifiers : Opening(t, n) => nonceOf[v] # n
    /\ \A v, w \in Verifiers : nonceOf[v] = n /\ nonceOf[w] = n => v = w

\* What the two locks protect, with everything a step relies on: inductive.
UsesInv ==
  TypeOK /\ CallInv /\ LockInv /\ UseInv /\ NonceInv /\ UsesAreAccountedFor

-----------------------------------------------------------------------------
(* The refinement.  A use is taken with the write of the count, although   *)
(* the action is bound to the capsule only after that.                     *)

Held(v, a) ==
  IF \E t \in Threads : pc[t] = "bind" /\ call[t].verifier = v /\ call[t].action = a
  THEN capsuleOf[v] ELSE bindings[v][a]

Entitlements == INSTANCE UseEntitlements WITH
  CapsuleUses  <- [d \in Capsules |-> VerifierLimit(d)],
  ApprovalUses <- [p \in Approvals |-> MaxUses[p]],
  opened       <- nonceOf,
  entitled     <- [v \in Verifiers |-> [a \in Actions |-> Held(v, a)]]

\* Verifiers, registries and boundaries, with their two kinds of lock, hand out
\* uses as if each were taken in one step: none beyond the limit, none twice,
\* none for an action that has one, and nothing passes without.
KeepsEntitlements == Entitlements!Spec

-----------------------------------------------------------------------------
(* What the documents promise beyond that.                                 *)

\* spec/executable-properties-v0.1.md, P23: a single-use capsule is used once at
\* one enforcement domain, here one receiving boundary.
SingleUseAtBoundary ==
  \A d \in Capsules :
    Mode[d] = "single-use" =>
      Cardinality({p \in passed : p[1] \in Boundary /\ capsuleOf[p[1]] = d}) <= 1
=============================================================================
