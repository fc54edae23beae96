# TLA+ models of the governance capsule protocol's reference implementation

This directory holds models of `src/src/gcp_reference`, the TLC runs that check
them on small instances, and TLAPS proofs of what matters most for every
instance. `PROJECT.json` maps every definition to the lines it models and lists
the runs, hazards, findings and theorems.

## The system

A framework adapter hands the **Governed Action Gateway** a proposal: an action
id and what is to be done. The gateway claims the id in a durable ledger, asks
the kernel (the capsule verifier), the policy runtimes, the CARM conflict
resolution and, where it is required, the approval verifier, and only then calls
the one protected connector that can produce the side effect. Whatever it
decides it records, with a signed receipt.

| part | state | operations | makes it correct |
|---|---|---|---|
| gateway (`gateway.py`) | one re-entrant lock; per call a record in memory | `execute`, `resume_approved`, `reconcile`, `recover_pending` | complete mediation; no orphan or doubled effect; verdicts that are true of the outside world; recovery settles everything |
| SQLite ledger (`persistence.py`) | a row per action id | `claim`, `get`, `put`, `delete_waiting`, `pending_commits` | one binding per id; conditional delete |
| capsule verifier (`action_kernel.py`) | action id to capsule bindings | `__call__`, delegated `__call__` | authority and window hold; a use is counted once per action |
| use registry (`replay.py`) | use counts | `commit`, `commit_capsule` | never more than `max_uses` |
| approvals (`approval.py`) | use counts of approvals | `validate_approval`, `consume`, `validate_amendment` | scope and window; amendments are consecutive |
| revocation (`revocation.py`) | newest status per capsule | `cache`, `evaluate` | a known revocation is never lost; freshness per profile |
| allocation ledger (`allocation.py`) | limits and child allocations | `register_parent`, `allocate_batch` | children never exceed the parent; all or nothing |
| delegation semantics (`semantics.py`) | none | `validate_delegation`, `validate_delegation_proof` | a child never has more than its parent |
| CARM (`carm.py`), graph (`governance_graph.py`), policies (`policy.py`) | none after construction | `resolve_carm`, `estimate_reach`, `evaluate` | the decision is a function of the set of evaluations; the graph is acyclic |
| transport (`transport.py`, `adapters/`) | nonces seen | `verify_transport_envelope`, `accept` | one acceptance per nonce; the action is the one transported |
| crypto, canonical JSON, schemas | none | encodings and signatures | not modelled: a digest stands for its content |

The gateway calls kernel, policies, CARM and approval synchronously, inside its
lock. The kernel calls delegation semantics, the revocation evaluator and the
use registry, each with a lock of its own. The allocation ledger is called by
whoever issues child capsules. The connector and the ledger file are shared with
the future: they outlive the process.

What is hard: several threads per gateway; the two places where a call lets go
of the lock or reads without it (`resume_approved` between the delete and the
new claim, `recover_pending` while it takes its snapshot); exceptions from every
callee, inside and outside the one `try` block; a connector whose answer can be
late, lost or unknown; and a process that can stop between any two of these.
`PROJECT.json` lists each hazard at its line with the property that watches it.

## Modules

* `GovernedAction` is the abstract promise: per action id a binding, a phase and
  an effect, and seven atomic steps. No threads, lock, messages or crashes.
* `GovernedActionGateway` models `gateway.py` over `persistence.py` and a
  connector. It states all properties and the refinement mapping.
* `GatewayInvariant` is the inductive invariant `IInv`.
* `MCGateway` gives the constants for TLC and the symmetry set.
* `GatewayProofs` proves the invariant and the properties; `GatewayRefinement`
  proves that the gateway implements `GovernedAction`.

* `CapsuleUses` models whatever spends uses from a `UseRegistry`: the capsule
  verifiers, the receiving ADK boundary and the approval registry. It states its
  properties and its inductive invariant `UsesInv`, and implements
  `UseEntitlements`, the promise without locks, counts and threads;
  `MCCapsuleUses` gives the constants for TLC and `CapsuleUsesProofs` has the
  proofs.

* `Delegation` has the pure checks of `semantics.py` and of the boundary in
  `action_kernel.py`; `DelegatedVerifier` is the verifier over the revocation
  evaluator, `DelegatedVerifierProofs` its proofs.
* `GovernanceGraph` is `governance_graph.py`, `PolicyResolution` are `policy.py`,
  the ACS adapter and `carm.py`, `Approvals` is `approval.py`; each of the first
  two has a module of proofs.
* `GovernedEvaluation` composes these four into what `execute` and
  `resume_approved` do before anything is committed; `GovernedEvaluationProofs`
  proves that it implements the verifier and the graph, and what follows.
  `MCEvaluation` gives the deployments for TLC.

* `BudgetVectors` has budgets, lists of allocations and their exact sums.
  `BudgetAuthority` is the abstract promise of I4 in `spec/formal-model-v0.1.md`;
  `AllocationLedger` models `allocation.py` and implements it; `MCAllocation`
  gives the constants for TLC and `AllocationLedgerProofs` has the proofs.

### State and actions against the code: the gateway

| model | code |
|---|---|
| `store[a]` | the row of an id, by digest, payload and state; `NoRow` is no row |
| `lock` | `GovernedActionGateway._lock` |
| `pc`, `call`, `rec`, `goal` | where a thread is, its call's arguments, its local `record`, the state `_finish` is about to store |
| `queue` | the rest of the tuple `recover_pending` iterates over |
| `inflight`, `effects` | commit requests on their way, counted per proposal; what the external system has carried out |
| `cleared` | history: proposals that passed kernel, policies and approval |

| action | code |
|---|---|
| `Claim`, `ClaimRefused` | `execute` 190-209, `SQLiteActionStore.claim` |
| `Evaluate`, `EvaluateRaises` | `execute` 211-254 and its two handlers |
| `PersistIntent`, `BeforeConnector` and their failures | `execute` 255-257 |
| `CommitCalled`, `CommitReturns` | `_commit_safely`, split where the process can stop and where the answer may differ from what happens outside |
| `Finish`, `FinishFails` | `_finish`: signing and `put`; a failure goes to `execute`'s handlers or to the caller |
| `Resume`, `ResumeRefused` | `resume_approved`; its second half is an ordinary `execute` |
| `CallRecover`, `RecoverNext` | `recover_pending` |
| `ReconcileStart`, `ReconcileRefused`, `Lookup`, `LookupRaises` | `reconcile` |
| `Apply`, `Lose` | the external system; the action id is its idempotency key |
| `Abandon` | a `BaseException` (an interrupt, `SimulatedProcessCrash`) that unwinds one call |
| `Crash` | the process stops; a new one opens the same ledger |

Each step is at most one ledger write or one call out, so a crash or another
thread can come between any two things the code does. A thread that needs the
lock waits in `execute`, `resume` or `reconcile`. The lock is re-entrant and
`_finish` always runs with it held, so no call ever waits for itself.

Abstractions. A digest is the content it is computed from, so two contents stand
for "same" and "different". The verdict of the checks is a free input of
`Evaluate`, approval is free at each of its two checks, and any of them may
raise. Receipts, controls and reason codes carry no control flow and are left
out. The connector answers as the contract of `ProtectedConnector` and
`docs/commit-intent-recovery-v0.1.md` demand: COMMITTED only of an effect that is
there, NOT_COMMITTED only when there is none and none on its way, UNKNOWN or an
exception at any time. `Init` is an empty ledger, or one in which the actions of
`LegacyActions` have a COMMITTING row from before the `proposal_json` column; the
process that stored such a row may have called the connector, so the effect may be
there already or one request for it on its way.
`StoreMayFail` says whether claims, reads, writes and signing may raise; a write
that raises has not happened (SQLite rolls the transaction back).
`MaxCrashes` bounds `Crash` and `Abandon` together. Nothing else is bounded.

### State and actions against the code: use limits

| model | code |
|---|---|
| `counts`, `holder` | `UseRegistry._counts` and `_lock`, per registry |
| `previous` | the local of `UseRegistry.commit` |
| `capsuleOf`, `admits` | the capsule of a `CapsuleActionVerifier` (or of the leaf of a delegated one), and what its caller lets through to it: anything, or the transported action |
| `bindings`, `vlock` | `_action_bindings` and `_lock` of a verifier |
| `pc`, `call` | where a thread is and its call's arguments |
| `passed`, `granted`, `nonceOf` | history: verifications that returned, approvals consumed, the nonce a boundary's verifier was built for |

| action | code |
|---|---|
| `CallVerify`, `ChecksFail`, `ChecksPass` | `__call__` up to its lock, plain and delegated; the comparison with the transport in `accept`'s `kernel` |
| `AlreadyBound`, `Locks`, `Binds` | `__call__` 133-148 |
| `Refused`, `CommitStarts`, `CommitEnds` | `UseRegistry.commit`, the read and the write apart |
| `CallAccept`, `OpenFails`, `Opens` | `accept` 40-62 around the commit of the nonce |
| `CallConsume` | `ApprovalRegistry.consume` |
| `CallCommitCapsule` | `commit_capsule`, which counts under `capsule_id` where the verifier counts under the digest |

A verifier keeps its lock over the registry's commit, so the registry's lock is
always the inner one, and a commit in the registry is a step of the verifier as
well. The stateless checks are one free input. A verifier has one capsule for
life, so the ACTION_ID_CONFLICT branch (line 136) is in the model, inside
`AlreadyBound`, and never taken. Identifiers of different kinds (digests,
capsule ids, approval ids, nonces) are assumed to differ. A verifier that a
boundary builds has a registry of its own, because `accept` passes none on
(`BoundaryAssumption`). Bounds: `Boundary` is the number of transports that are
opened (`CallAccept` starts no more than can be built), `MaxCount` is how far a
count without a limit is followed. Both are constants of any size in the proofs.

`UseEntitlements` says which capsule each action has a use of (`entitled`), and
takes uses, lets actions pass, consumes approvals and opens transports in one
step each. `Held` is the refinement mapping: an action has its use from the write
of the count on, while its binding follows later. `CommitEnds` is the step that
takes the use, `AlreadyBound` and `Binds` let the action pass, `Opens` opens.

### State and actions against the code: the allocation ledger

`registered` and `allocations` are the keys of `_parents` and the `allocations`
of each in the order of insertion, which is the order in which totals are added
up; `lock`, `pc` and `call` are as above. `RegisterParent` is `register_parent`,
`CallAllocate`, `Refuses`, `Checks` and `Updates` are `allocate_batch`, whose
critical section is cut between the last check and the update to show what the
lock is for. A batch is the dict of requested children as a sequence, in the order
in which `_accumulate` is called for them; `Accumulated` is that loop for one
dimension. `Plus` is `Decimal` addition: exact, then rounded half to even to
`Digits` significant digits, 28 in the code's (default) context. Quantities are
naturals in a unit fine enough for all of them. A repeated dimension raises
before any state is read and is left out.

### State and actions against the code: an evaluation

`GovernedActionGateway` has the verdict of the checks as a free input.
`GovernedEvaluation` is what computes it, for one action at one gateway: the
gateway's lock keeps evaluations apart, so what interleaves with one is the world
around it. `Next` is `Start` (a graph is constructed or refused), `Evaluating`
(the gateway's thread) and `World`.

| model | code |
|---|---|
| `stage` | how far `execute` is; `waiting` is APPROVAL_REQUIRED, `resumed` is the gap between the two locked sections of `resume_approved` |
| `call[t]` | a `DelegatedCapsuleActionVerifier` with its chain and settings, and the proposal |
| `place`, `step`, `now`, `answer` | where a call of it is, the index of its loop, its local `current` and `record` |
| `cache` | `RevocationEvaluator._cache`, shared by all verifiers |
| `clock`, `revoked` | the time; the status authority's records |
| `graph`, `indegree`, `ready`, `visited` | the declaration and the locals of `_validate_acyclic` |
| `frontier`, `reachable`, `confidence`, `score` | the locals of `estimate_reach` |
| `evaluations`, `resolution` | the locals of `execute` |
| `uses`, `filed` | an `ApprovalRegistry`, as the history of its uses; the approvals an approval verifier has been given |
| `entered`, `sorted`, `amended` | history |

| action | code |
|---|---|
| `Call`, `CheckTransition`, `CheckLeaf` | the chain's shape; one turn of the loop over transitions; the leaf up to the clock and the window |
| `UseCached`, `AskStatus`, `NoStatus` | `_record_for`: one read of the cache under its lock, and what follows from it |
| `ProviderAnswers`, `ProviderFails`, `FetchEnds` | `_fetch` around a provider, and `cache` |
| `Decide` | grants, constraints and obligations of the leaf |
| `Notify` | `status_from_signed_revocation` and `cache`: a signed revocation arrives, at any time |
| `Construct`, `RefuseDeclaration`, `Sort`, `EndSort` | `GovernanceGraph.__init__`, one turn of its loop at a time |
| `EstimateReach`, `Visit`, `EndEstimate` | `estimate_reach` |
| `Execute` to `ResolveCARM` | `execute` 190-233 |
| `Approved`, `NotApproved` | `execute` 234-254 with an approval verifier that consumes |
| `Resume` | `resume_approved`, up to the release of the lock |
| `Amend` | `validate_amendment` |

Abstractions. A capsule is its digest, and `Doc` its content; `Genuine` are those
whose signature and schema verify under a key of their issuer. Resources are
sequences of characters, which the prefix rule compares from the front: a prefix
may end within a path segment. An element of an instance stands for a run of
characters that no prefix in it splits. Quantities
and times are naturals, confidences percents. Constraints, obligations and
budgets are lists with keys that may repeat, because the code reads them as maps
whose last entry wins. The receiver's constraint and obligation verifiers, the
status provider and the authority are external. A revocation takes effect when it
is issued or later; what an authority backdates counts from its issue, as nobody
could have known earlier. A provider answers with a status that was true at most
`Lag` ago, or fails: an assumption on the provider, whose answers the code does
not date. `ready` and `frontier` are sets where
the code has lists, which covers every order; a repeated list entry is skipped by
the code, so a set has the same effect. Shares of OR nodes are rounded quotients
with a precision of `Scale`. An approval verifier is not part of the library
(only its contract is); the modelled one consumes an approval from the registry,
as `approval.py` is made for. What the connector does afterwards, and crashes,
are `GovernedActionGateway`; what a use costs under contention is `CapsuleUses`.
An exception that is no `GCPError` makes the action FAILED instead of REJECTED;
both are `rejected` here.

## Properties and runs

| run | instance | checks |
|---|---|---|
| `gateway_promise` | 2 ids, 1 content, 2 clients of which one also is the worker, 2 crashes, working ledger; 82,299 states | `RefusedHasNoEffect`, `KeepsPromise`, `IntentIsSettled` |
| `gateway_faults` | 2 ids, 2 contents, 2 clients, 1 worker, 2 crashes, failing writes, id 1 a legacy intent; 771,243 states up to symmetry | `TypeOK`, `IInv`, `Mediated`, `EffectIsOnRecord`, `CommittedIsReal`, `NoSecondCommit`, `SettledIsFinal`, `IntentIsNeverDropped` |
| `resume_binding` | 1 id, 2 contents, 1 client | finding: `ResumeKeepsBinding` fails |
| `commit_exception` | 1 id, failing writes | finding: `RefusedHasNoEffect` fails |
| `head_of_line` | 2 ids, id 1 a legacy intent | finding: `OthersAreSettled` fails |
| `uses_limits` | 2 threads, 2 actions, 2 revisions of a capsule, 2 verifiers over one registry, 2 boundary verifiers, 1 nonce, 1 approval | `TypeOK`, `UsesInv`, `UsesAreAccountedFor`, `ActionsWithinLimit`, `OneTransportPerNonce`, `ApprovalsWithinLimit`, `KeepsEntitlements` |
| `uses_boundary` | the same, 2 nonces | finding: `SingleUseAtBoundary` fails |
| `allocation` | 2 threads, 2 parents, 2 dimensions, 6 batches that overlap or fail in every way, 1 digit | `AllocationInv`, `Conserved`, `FittingIsNotRefused`, `KeepsBudget` |
| `decimal_precision` | 1 thread, limit 10, 1 digit | finding: `Conserved` fails |
| `evaluation` | 735 sites, see below; 110,339 states | `GraphInv`, `AcceptedIffAcyclic`, `ReachIsDownstream`, `ConfidenceIsWeakest`; `VerifierInv`, `LineageIsAttenuated`, `AuthorityIsInherited`, `ObligationsAreInherited`, `RevocationBites`, `LearnedRevocationStays`; `ApprovalsKeepToTheirScope`, `RevisionsAdvance`; `ResolutionIsOrderFree`, `AnotherBlockNeverLoosens`, `BlockIffUnanimous`; `ProceedsWithApproval`, `ProceedsUnderLiveAuthority`, `EvaluationEnds` |
| `attenuation` | 2 sites | finding: `LeafWithinAncestors` fails |
| `learned_revocation` | 1 site | finding: `LearnedRevocationBinds` fails |

* `Mediated`: what is in flight or in effect was cleared, on every path.
* `EffectIsOnRecord`: its row has that content and is pending or settled, so no
  effect is forgotten and no id is claimed or resumed again after its effect.
* `CommittedIsReal`, `RefusedHasNoEffect`: the verdicts are true outside.
* `NoSecondCommit`: the gateway never relies on the connector's idempotency. A
  call of `commit` is made only while the effect is not there and no request is
  on its way; requests are counted, so repeating one in flight shows.
* `SettledIsFinal`: a settled row does not change. `IntentIsNeverDropped`: a row
  leaves the ledger only while it waits for approval, and a pending intent gives
  way to nothing but a verdict.
* `KeepsPromise`: the refinement of `GovernedAction`.
* `IntentIsSettled`: recovery alone settles every durable intent.
* `UsesAreAccountedFor`: a registry's count for a capsule is the number of
  actions that are bound to it, or about to be, by the verifiers that share the
  registry: a retry costs nothing and no binding is free.
* `ActionsWithinLimit`, `ApprovalsWithinLimit`, `OneTransportPerNonce`: what the
  counts are for, stated of what callers were told and not of the counts.
* `KeepsEntitlements`: the refinement of `UseEntitlements`: although check, count
  and binding are separate steps under two kinds of lock, uses are handed out as
  if each were taken at once, none beyond the limit and none twice, and nothing
  passes without one.
* `AllocationInv`: a child is recorded once, and what was checked under the lock
  still holds when the batch is recorded.
* `Conserved`: I4 with exact sums; `FittingIsNotRefused`: the other direction.
* `KeepsBudget`: the refinement of `BudgetAuthority`, that is all or nothing and
  no implicit reclamation.
* `AcceptedIffAcyclic`, `ReachIsDownstream`, `ConfidenceIsWeakest`: the two graph
  algorithms against definitions of a cycle, of what is downstream and of the
  weakest declaration, none of which mentions an order or a counter.
* `LineageIsAttenuated`: transitions are checked against the direct parent only;
  every capsule is within every ancestor all the same. `AuthorityIsInherited` and
  `ObligationsAreInherited` say what that means for an action, of which only the
  leaf is asked. Where a name repeats in a grant, `AuthorityIsInherited` speaks of
  its last constraint, as attenuation does; the boundary reads them all, and what
  follows from the difference is in finding 6.
* `RevocationBites`: how long a revocation can be missed, whatever fetches,
  notices and other verifiers do to the shared cache: for a bounded-stale capsule
  its staleness, as section 5.2 of the formal model has it, as long as the
  provider's answers are not older than that (so in the instance), otherwise
  the age of an answer, which is what decides for online-strict ones. It is not
  the promise of section 5.1: that is `LearnedRevocationBinds`, which fails
  (finding 7). `LearnedRevocationStays`: the cache itself never goes back behind
  what it knows.
* `ApprovalsKeepToTheirScope`, `RevisionsAdvance`: over any sequence of uses and
  of amendments, forks included.
* `ResolutionIsOrderFree`, `AnotherBlockNeverLoosens`, `BlockIffUnanimous`: the
  decision is a function of the set of evaluations, is monotone in blocks, and
  blocks outright only what every policy blocks.
* `ProceedsWithApproval`, `ProceedsUnderLiveAuthority`: an escalated action is
  reserved only with an approval that was consumed since it was entered or
  resumed last (the use that resumed it does not count), and under a lineage that
  was verified since then, however long it waited.
* `EvaluationEnds`: whichever callee refuses, `execute` comes to an end.

Why the bounds are enough. All state of one id is independent of the others except
through the lock and the worker's queue, so two ids show an interference and its
order; two contents show a wrong binding; two clients and a worker are every pair
of operations with a third thread in between; two crashes are a crash during the
recovery from a crash. The promise run has one content, since a wrong binding is
what the faults run and `resume_binding` vary, and lets one of its two threads do
everything a client and a worker do. Contents and clients are symmetric (no
definition names one); the symmetry is used in the faults run only, which has no
liveness property. For use limits, two threads are every pair of steps on one lock, two
verifiers over one registry show that a verifier's lock does not protect a count,
and limits of one and two are the first and a later use; both envelopes have the
same nonce, so copies and rivals race. For allocations, limits below ten in a
context of one digit mean that every sum over a limit is rounded, as a sum of 29
digits is in the code, and every pair of batches that fit one by one and not
together occurs. `GatewayProofs`, `CapsuleUsesProofs` and `AllocationLedgerProofs`
remove all bounds for safety. Deadlock is checked in those runs: an idle client
can always call.

For evaluations a *site* is a deployment with one varied part and simple other
parts, so that instances add up instead of multiplying. Graphs: all 64 sets of
edges over three nodes, the four joins, a weak node or edge, and seven malformed
declarations; every graph is entered at one node, as the edge sets are closed
under renaming of nodes; three nodes show cycles of every length up to three,
joins, and a node that is met twice. Chains: a root, a child and a grandchild, of
which one at a time deviates in each of 21 ways, at either depth, and with a
grandchild below each deviating child (three of these children are valid all the
same, so their lineages are accepted), as well as a parent that limits an amount
twice; three generations are the shortest in which a check against the direct parent
differs from one against an ancestor. Status: the three profiles, a revocation of
every member of the lineage, cascading or not, in effect at once or later, notices with any time, two ticks
of the clock with `Lag` and staleness 1, and one site with a second verifier on
the same cache (its policy runtime fails, as what follows the verifier is in the
other sites). Reports: any two policies and three of any kind, every layer and
effect, every ACS verdict, against a high, a low and an uncertain reach; three
blocks and allows of three layers show every severity. The code's default for
`MinimumConfidence` is 0, with which the low confidence branch is dead; the run
uses 60. Approvals: one and two uses under a shared id, a short window, another
capsule, an unauthentic one; amendments that fork, that compete for one approval
and that would lead back. `GovernedEvaluationProofs` removes all these bounds.
Deadlock is not checked in the three runs of evaluations, because an evaluation ends
and the clock stops at `MaxTime`.

Fairness of `GovernedEvaluation`: weak fairness of `Working`, the gateway's own
thread while it is in `execute`, which the operating system schedules and whose
callees answer or raise. None of the world, none of a client that has yet to call
`execute` or `resume_approved`: `EvaluationEnds` starts where one has.

Fairness (`FairSpec`). A thread that is running a call takes its next step (weak
fairness of `Proceeds`: the operating system schedules threads, callees return or
raise), and a request in flight is applied or lost. For workers, strong fairness
says that recovery is run again while something is pending, that a thread waiting
for the lock gets it if the lock keeps becoming free, and that a connector asked
about an id again and again sometimes gives a definite answer, the
"authoritative lookup" its contract demands. Clients have no obligation to call
or to wait. Crashes and unwound calls are finite in number, otherwise nothing
could be promised. Without a worker nothing settles an intent: the code runs
`recover_pending` only when it is called.

### Findings

1. `resume_approved` never compares the caller's proposal with the waiting
   record, so another content takes over the id, contrary to the comment in the
   code and to `README.md`. The taken-over proposal is evaluated from scratch, so
   `Mediated` holds all the same.
2. An exception after `commit()` has returned is recorded as a final refusal of
   an action that was carried out, contrary to the RFC's invariant.
3. One legacy intent that cannot be rebuilt blocks the recovery of all intents
   behind it, contrary to `recover_pending`'s docstring.
4. The receiving boundary gives every transport a fresh use registry, so a
   single-use leaf capsule that arrives in two transports is used twice at one
   boundary, contrary to property P23 of `spec/executable-properties-v0.1.md`.
   Each transport by itself is within its limit (`ActionsWithinLimit`).
5. Sums of allocations are rounded to 28 digits and quantities may have more: with
   a budget of 1, children of 1 and of 1E-30 are both reserved, contrary to the
   exact arithmetic the formal model asks for. Limits of at most 28 digits in the
   smallest unit in use are safe, whatever the batches (`Precise`; the theorems
   `BudgetsAreConserved` and `LedgerIsBudgetAuthority`).
6. A child may declare a constraint of its parent as not critical. A receiver
   without a verifier for it refuses every action under the parent and ignores
   the constraint under the child, so a valid delegation widens what the receiver
   admits, contrary to the formal model's definition of containment. For
   constraints the receiver can verify, `AuthorityIsInherited` holds. The same
   comes of a name that a grant repeats, which the schema permits with two values:
   attenuation compares the last of a name, the boundary asks all, so under a
   parent with amounts up to 1 and up to 3 a child with up to 3 is valid and spends
   3 where the parent authorizes 1.
7. Under online-strict a revocation the receiver has learned does not bind: the
   evaluator goes by the provider's answer, whatever its age and whatever its own
   cache holds. An action can begin after a revocation has been cached and pass,
   contrary to the guarantee of section 5.1 of the formal model. In the run the
   call starts after the notice, so the race that section admits is not involved.

Not findings, because no document says otherwise, but worth knowing: resuming an
action consumes one use of its approval and evaluating it consumes another, so a
single-use approval never carries a resumed action through (`Resume`, then
`NotApproved`); a delegation chain may start at a capsule that is no root; two
amendments of one revision are both accepted if approvals allow.

## What is proved

For every set of actions, contents and threads, any number of crashes and any
legacy intents, already carried out, on their way or neither, from the assumptions on the constants (ids are positive numbers,
the sentinels are not elements of the sets they mark):

* `InductiveInvariant`: `Spec => []IInv`, with `Init => IInv` (`InitInv`) and
  preservation by every action (one lemma each, `NextInv`);
* `TypeCorrect`, `MediationHolds`, `EffectStaysOnRecord`, `CommittedIsNoGuess`,
  `CommitsAreNotRepeated`, `SettledStays`, `IntentsStay`, with failing writes
  allowed;
* `RefusalHolds` and `GatewayKeepsPromise` under `~StoreMayFail`. The premise is
  necessary: the `commit_exception` run is a counterexample without it.

None of the safety properties is inductive. `IInv` adds what the lock protects:
a thread is in a critical section iff it holds the lock (`LockInv`), its record
and its row agree and the row shows how far it is (`RecInv`), and what it is
about to do is warranted (`WarrantInv`: the intent was cleared, the connector has
not been called for it yet, the state about to be stored is true outside).
`LedgerInv` is what holds between ledger and external system alone.

The argument has three frame lemmas. `LockedStep`: a step of the thread that
holds, takes or releases the lock only has to be right for itself, the others are
outside. `UnlockedStep`: a step outside the lock that leaves ledger and external
system alone disturbs nobody. `NetworkStep`: the external system cannot disturb
a warrant, because it sends nothing new and undoes nothing (`RequestLeaves`: a
request that ends is one less of the count). `WriteRow` is the one
obligation of a ledger write. The action properties and the refinement follow
from what the four writes find in the row they change (`ClaimWrites`,
`PersistIntentWrites`, `FinishWrites`, `ResumeWrites`).

For use limits, for any number of threads, verifiers, registries and limits:

* `UsesInvariant`: `Spec => []UsesInv`;
* `UsesTypeCorrect`, `UsesAccounted`, `LimitHolds`, `NonceHolds`,
  `ApprovalsHold`;
* `UsesAreEntitlements`: `Spec => KeepsEntitlements`, one lemma for each action
  that is not a stuttering step.

The assumptions are that actions and verifiers are finite sets (they are counted),
that identifiers of different kinds differ, that every approval has a limit and
`BoundaryAssumption`. `UsesAreAccountedFor` is inductive only together with
`LockInv`: an action whose use is being spent is unbound until its thread binds
it, because the verifier's lock has been held since that was looked up, and what a
thread has read of a count is still the count, because the registry's lock is. The
limit then follows by cardinality: what has passed is bound, what is bound was
charged, what was charged is counted, and the count is within the limit. The
refinement needs one more invariant, that a verifier which is not built has no
nonce (`OpenedInv`), and that the entitlements under a capsule are what its
registry has counted (`UsersAreCounted`). `OutsideLocks` and `LocalStep` are the
frame lemmas for steps outside both locks.

For graphs, delegation, revocation, resolution and their composition, for every
finite graph, chains and reports of any length, any number of threads and any
thresholds:

* `GraphInvariant`, `SortIsExact`, `WalkIsExact`, `ConfidenceHolds`. While
  sorting, an indegree counts the dependencies that are not sorted yet, and no
  member of a cycle has been sorted: each has a dependency in the cycle. If not
  all nodes are sorted when none is ready, the rest is a cycle. While walking,
  whatever a reached node points to is reached or on the frontier, so a walk that
  ends has a closed set, and it reaches nothing outside the least one.
* `VerifierInvariant`, `LineageNarrows`, `AuthorityInherited`,
  `ObligationsInherited`, `RevocationHolds`, `RevocationsAreNotForgotten`.
  `VerifierInv` says of the chain that what has been checked is attenuated
  pairwise, which a further transition extends because containment of grants,
  windows, budgets and obligations is transitive (lemmas of their own); of the
  lineage that what has been asked about is in good time; and of the cache and
  of every answer that it was true at the time it names. The last is what makes
  the first two independent of the interleaving.
* `OrderDoesNotMatter`, `BlocksTighten`, `BlockedByAll`: about `Resolve`, from
  the uniqueness of the worst severity and of the leader; the second because a
  report without conflict is allowed or blocked by all, and a block added to one
  with a conflict never lowers the severity nor makes a policy that allows the
  leader.
* `EvaluationVerifies`, `EvaluationWalks`: every behaviour of the composition is
  one of `DelegatedVerifier` and one of `GovernanceGraph`, so all of the above
  holds in it. `EvaluationInvariant` adds what ties the parts together: a call
  that passed was made since `entered`, the resolution is `Resolve` of the report
  at hand, and a reserved action that needed an approval used one since `entered`.
  From it `ResolutionHolds`, `BlocksTightenTheGateway`, `BlocksAreUnanimous`,
  `ApprovalsAreScoped`, `AmendmentsAdvance`, `EscalationsAreApproved` and
  `ResumedUnderLiveAuthority`.

For the allocation ledger, for any number of threads and parents, batches of any
length and quantities of any size:

* `CheckedUntilUpdated`: `Spec => []AllocationInv`, without further assumptions;
* `BudgetsAreConserved`, `FittingBatchesAreAdmitted`, `LedgerIsBudgetAuthority`:
  conservation, the other direction and the refinement, under `Precise`: no limit
  has more digits than the decimal context. The premise is necessary, as the
  `decimal_precision` run shows, holds in the `allocation` run, and says nothing
  of the quantities children ask for, which may be as large as they like.

The heart is that rounding is harmless below the limit (`RoundingIsHarmless`): as
long as the exact sum has no more digits than the context the computed one is
exact, and once it has more, rounding never brings the computed sum, or any later
one, back below the smallest number with so many digits (`RoundedExact`,
`RoundedLarge`), so a sum that was rounded is over every precise limit. Sums are
recursive functions, and what they compute is proved by induction over the index,
for each sum by itself: the library's induction theorems cannot be used here, but
that every non-empty set of naturals has a least member follows from the
well-foundedness of strict inclusion on finite sets (`LeastMember`), which gives
induction over sets of indices (`SetInduction`, `SegmentInduction`) and the
existence of functions defined by recursion (`Recursion`, `RecursionOnNat`). With
`SumOfBoth` what a ledger and a batch take together is what they take one by one;
the rest is the lock (`AllocationInv`): `Checks` establishes `Admits`, and nobody
changes what it depends on before `Updates`.

The assumptions are that documents, reports, approvals and amendments are well
formed, as the schemas demand, that nodes are finitely many, and that the status
authority answers truthfully with a bounded lag (`Truth`, `Recent`), without
which no cache could keep its promise.

Only model-checked: `IntentIsSettled` and `EvaluationEnds` (liveness under
fairness is out of the prover's reach) and the seven violations.

## What is not modelled

* The row that a crash between `claim` (line 200) and the intent (line 255)
  leaves behind stays VALIDATING for ever: retries get it back, nothing resumes
  or recovers it. The model has this behaviour; no property speaks of it because
  no document promises anything about it.
* `InMemoryActionStore` does not survive a crash, and `put` inserts there; the
  gateway only ever puts rows that exist (`PutHits` is implied by `IInv`), so
  within one process it behaves as the modelled ledger.
* Two gateways over one ledger file (the store's docstring excludes them).
* A restart of the process that holds a `UseRegistry`: the class documents itself
  as process-local, and a restart is a fresh `Init` of `CapsuleUses`.
* Encodings: signatures, canonical JSON, schema validation, receipts. A digest
  stands for its content and validity is an input.
* The comparison policies `most_restrictive` and `fixed_priority` of `carm.py`,
  which the gateway does not use; evidence (`RevocationResult`, graph digests,
  reason codes, controls), which no decision depends on.
* The sending side of transports and the OpenAI tool callbacks, which hold no
  state; the receiving boundary's nonces and verifiers are in `CapsuleUses`.
* Commitment under a revocation that arrives after the reservation, or during a
  recovery: a durable intent carries no authority check in the code.
* The demo application and scripts, and `errors.py`: fixed walk-throughs and
  enumerations without logic of their own.

## Plan

1. Done: the gateway, its invariant, proofs and refinement.
2. Done: `CapsuleUses`, with the nonce and the per-transport verifiers of the ADK
   boundary, its invariant and proofs.
3. Done: `AllocationLedger`, implementing `BudgetAuthority`, and proofs.
4. Done: graph, delegation, revocation, resolution, approvals and amendments,
   their composition `GovernedEvaluation` and proofs.
5. Done: `UseEntitlements`, implemented by `CapsuleUses`.
6. Next: `TwoGateways`, two processes over one ledger, to say precisely what the
   single-host restriction buys.
