------------------------- MODULE GovernedEvaluation -------------------------
(***************************************************************************)
(* What the gateway does with an action before it commits it (execute and  *)
(* resume_approved in gateway.py, up to the reservation), over all that it *)
(* consults: the delegated verifier with the revocation evaluator it       *)
(* shares with other boundaries, the policy runtime, the governance graph, *)
(* CARM and the approvals.                                                 *)
(*                                                                         *)
(* One action at one gateway: the gateway's lock keeps evaluations apart   *)
(* (GovernedActionGateway), so what interleaves with one is the world      *)
(* around it: the clock, revocations and notices of them, other verifiers, *)
(* approvals that are filed, amendments.                                   *)
(***************************************************************************)
EXTENDS DelegatedVerifier, GovernanceGraph, PolicyResolution, Approvals

CONSTANTS
  Gateway,     \* the thread that evaluates the action
  Sites        \* the deployments considered, by name

\* A site: the graph and the node in conflict, every thread's call, the other
\* threads that run, what the policy runtime may report, which capsules may be
\* revoked, and whether with their descendants, which approvals filed and
\* amendments submitted, and until when.
ASSUME SitesAssumption ==
  /\ Gateway \in Threads
  /\ \A i \in DOMAIN Sites : LET s == Sites[i] IN
       /\ s.graph \in Declarations /\ s.node \in NodeIds
       /\ s.call \in [Threads -> Calls] /\ s.others \subseteq Threads \ {Gateway}
       /\ \A report \in s.reports : IsReport(report)
       /\ s.revocable \subseteq Capsules \X BOOLEAN /\ s.horizon \in 0..MaxTime
       /\ s.approvals \subseteq DOMAIN Approval /\ s.amendments \subseteq Amendments

VARIABLES
  site,
  stage,        \* how far the action is
  entered,      \* history: the time, and the uses made, when it was entered or resumed last
  evaluations,
  resolution,
  filed         \* the approvals the approval verifier has

evars == <<site, stage, entered, evaluations, resolution, filed>>
vars  == <<dvars, gvars, avars, evars>>

Site       == Sites[site]
Unresolved == [mode |-> "NONE", decision |-> "NONE"]
Proposal   == call[Gateway].proposal

Advance(to) == stage' = to /\ UNCHANGED <<site, entered, evaluations, resolution, filed>>
Elsewhere   == UNCHANGED evars

-----------------------------------------------------------------------------
(* The process starts with a graph, or not at all.                         *)

Start ==
  /\ stage = "starting" /\ Constructing
  /\ IF phase' = "usable" THEN Advance("open") ELSE Elsewhere
  /\ UNCHANGED <<dvars, avars>>

-----------------------------------------------------------------------------
(* execute.                                                                *)

\* Mutant: a resumed action is not verified again.
ExecuteOnce ==
  /\ stage \in {"open", "resumed"}
  /\ IF stage = "open" THEN Call(Gateway) /\ stage' = "kernel" ELSE UNCHANGED dvars /\ stage' = "policy"
  /\ entered' = [at |-> clock, uses |-> Len(uses)]
  /\ evaluations' = <<>> /\ resolution' = Unresolved
  /\ UNCHANGED <<gvars, avars, site, filed>>

Execute ==
  /\ stage \in {"open", "resumed"}
  /\ Call(Gateway)
  /\ stage' = "kernel"
  /\ entered' = [at |-> clock, uses |-> Len(uses)]
  /\ evaluations' = <<>> /\ resolution' = Unresolved
  /\ UNCHANGED <<gvars, avars, site, filed>>

VerifyKernel ==
  /\ stage = "kernel" /\ Serve(Gateway)
  /\ Elsewhere /\ UNCHANGED <<gvars, avars>>

KernelVerified ==
  /\ stage = "kernel" /\ place[Gateway] = "passed"
  /\ Advance("policy") /\ UNCHANGED <<dvars, gvars, avars>>

KernelRefuses ==
  /\ stage = "kernel" /\ place[Gateway] = "refused"
  /\ Advance("rejected") /\ UNCHANGED <<dvars, gvars, avars>>

Evaluate ==
  /\ stage = "policy"
  /\ \E report \in Site.reports :
       IF Fails(report) THEN stage' = "rejected" /\ UNCHANGED evaluations
                        ELSE stage' = "reach" /\ evaluations' = Evaluations(report)
  /\ UNCHANGED <<dvars, gvars, avars, site, entered, resolution, filed>>

Reach ==
  /\ stage = "reach"
  /\ IF Site.node \in Ids(graph) THEN EstimateReach(Site.node) /\ Advance("carm")
                                 ELSE Advance("rejected") /\ UNCHANGED gvars
  /\ UNCHANGED <<dvars, avars>>

WalkGraph ==
  /\ stage = "carm" /\ Estimating
  /\ Elsewhere /\ UNCHANGED <<dvars, avars>>

ResolveCARM ==
  /\ stage = "carm" /\ phase = "estimated"
  /\ resolution' = Resolve(evaluations, confidence, score)
  /\ stage' = CASE resolution'.decision = "BLOCK"             -> "rejected"
                [] resolution'.decision = "ALLOW"             -> "reserved"
                [] resolution'.decision = "APPROVAL_REQUIRED" -> "approval"
  /\ UNCHANGED <<dvars, gvars, avars, site, entered, evaluations, filed>>

\* The approval verifier: true if an approval on file can be consumed.
Grants(k) == Consume(k, Leaf(Gateway), ActionScope(Proposal), clock)
HasGrant  == \E k \in filed : CanConsume(k, Leaf(Gateway), ActionScope(Proposal), clock)

Approved ==
  /\ stage = "approval"
  /\ \E k \in filed : Grants(k)
  /\ Advance("reserved") /\ UNCHANGED <<dvars, gvars, amended>>

\* Mutant: only an action without any approval on file is put aside.
NotApprovedAtAll ==
  /\ stage = "approval" /\ filed = {}
  /\ Advance("waiting") /\ UNCHANGED <<dvars, gvars, avars>>

NotApproved ==
  /\ stage = "approval" /\ ~HasGrant
  /\ Advance("waiting") /\ UNCHANGED <<dvars, gvars, avars>>

\* Mutant: a resumed action goes straight on.
ResumeDirectly ==
  /\ stage = "waiting"
  /\ \E k \in filed : Grants(k)
  /\ stage' = "reserved"
  /\ entered' = [at |-> clock, uses |-> Len(uses')]
  /\ UNCHANGED <<dvars, gvars, amended, site, evaluations, resolution, filed>>

\* resume_approved, up to the release of the lock; execute verifies anew.
Resume ==
  /\ stage = "waiting"
  /\ \E k \in filed : Grants(k)
  /\ stage' = "resumed"
  /\ entered' = [at |-> clock, uses |-> Len(uses')]
  /\ UNCHANGED <<dvars, gvars, amended, site, evaluations, resolution, filed>>

Evaluating == \/ Execute \/ VerifyKernel \/ KernelVerified \/ KernelRefuses \/ Evaluate
              \/ Reach \/ WalkGraph \/ ResolveCARM \/ Approved \/ NotApproved \/ Resume

-----------------------------------------------------------------------------
(* The world around it.                                                    *)

OthersVerify ==
  /\ \E t \in Site.others : Call(t) \/ Serve(t)
  /\ Elsewhere /\ UNCHANGED <<gvars, avars>>

AuthorityActs ==
  /\ \/ clock < Site.horizon /\ Tick
     \/ \E r \in Site.revocable : \E s \in clock..Site.horizon : Revoke(r[1], r[2], s)
     \/ \E r \in Site.revocable : \E s \in 0..clock : Notify(r[1], s)
  /\ Elsewhere /\ UNCHANGED <<gvars, avars>>

File ==
  /\ \E k \in Site.approvals \ filed : filed' = filed \cup {k}
  /\ UNCHANGED <<dvars, gvars, avars, site, stage, entered, evaluations, resolution>>

AmendmentAccepted ==
  /\ \E m \in Site.amendments : Amend(m, clock)
  /\ Elsewhere /\ UNCHANGED <<dvars, gvars>>

World == OthersVerify \/ AuthorityActs \/ File \/ AmendmentAccepted

Init ==
  /\ site \in DOMAIN Sites
  /\ graph = Site.graph /\ source = Site.node /\ call = Site.call
  /\ GraphInit /\ VerifierInit /\ ApprovalsInit
  /\ stage = "starting" /\ entered = [at |-> 0, uses |-> 0]
  /\ evaluations = <<>> /\ resolution = Unresolved /\ filed = {}

Next == Start \/ Evaluating \/ (stage # "starting" /\ World)

\* A thread inside execute or resume_approved goes on; no client is obliged to
\* call either.
Working == stage \notin {"open", "waiting"} /\ Evaluating
Spec    == Init /\ [][Next]_vars /\ WF_vars(Working)

-----------------------------------------------------------------------------
(* What it is all for.                                                     *)

Resolved == resolution # Unresolved

\* The order in which policies are reported does not matter.
Reorderings(values) == {w \in [DOMAIN values -> {values[i] : i \in DOMAIN values}] : SameEvaluations(w, values)}

ResolutionIsOrderFree ==
  Resolved => \A w \in Reorderings(evaluations) : Resolve(w, confidence, score) = resolution

\* One more policy that blocks, of whatever rank, never leads to a more
\* permissive decision.
Block(id, layer) == [id |-> id, version |-> 2, layer |-> layer, effect |-> "BLOCK"]

AnotherBlockNeverLoosens ==
  Resolved => \A id \in 0..4, layer \in Layers :
    Strictness(resolution.decision)
      <= Strictness(Resolve(Append(evaluations, Block(id, layer)), confidence, score).decision)

\* An action is blocked outright iff every policy blocks it, as long as
\* automated blocking is prevented.
BlockIffUnanimous ==
  Resolved /\ PreventAutomatedBlocking =>
    (resolution.decision = "BLOCK" <=> evaluations # <<>> /\ \A i \in DOMAIN evaluations : evaluations[i].effect = "BLOCK")

\* An action some policy escalated, or CARM did, is reserved only with an
\* approval of this very action for this capsule revision that was used in
\* this evaluation: not one that was used to resume it, or by another.
ProceedsWithApproval ==
  stage = "reserved" /\ (Reports(evaluations, "REQUIRE_APPROVAL") \/ resolution.decision = "APPROVAL_REQUIRED") =>
    \E i \in (entered.uses + 1)..Len(uses) :
      uses[i].scope = ActionScope(Proposal) /\ uses[i].capsule = Leaf(Gateway) /\ uses[i].at >= entered.at

\* However long an action waited for its approval, its lineage was verified
\* anew after it was resumed: it was still in force then, and not revoked for
\* longer than the profiles allow.
ProceedsUnderLiveAuthority ==
  stage = "reserved" => \A i \in 1..Last(Gateway) : LET c == Lineage(Chain(Gateway))[i] IN
    /\ entered.at < Doc[c].until
    /\ InGoodTime(Gateway, i) /\ entered.at <= now[Gateway]

\* Every evaluation that was begun, and every action that was resumed, ends:
\* it is reserved, rejected or left waiting.
EvaluationEnds == stage \in {"kernel", "resumed"} ~> stage \in {"reserved", "rejected", "waiting"}
=============================================================================
