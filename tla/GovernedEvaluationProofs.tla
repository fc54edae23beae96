---------------------- MODULE GovernedEvaluationProofs ----------------------
(***************************************************************************)
(* Proofs about GovernedEvaluation and the approvals it consumes.  The     *)
(* composition implements the verifier and the graph it is composed of, so *)
(* what is proved of these holds of it.                                    *)
(***************************************************************************)
EXTENDS GovernedEvaluation, GovernanceGraphProofs, DelegatedVerifierProofs, PolicyResolutionProofs

-----------------------------------------------------------------------------
(* The composition and its parts.                                          *)

SiteKnown == site \in DOMAIN Sites

LEMMA SiteStays ==
  ASSUME SiteKnown, [Next]_vars
  PROVE  SiteKnown'
<1>1. site' = site
  BY DEF Next, Start, Evaluating, World, Execute, VerifyKernel, KernelVerified, KernelRefuses, Evaluate, Reach,
     WalkGraph, ResolveCARM, Approved, NotApproved, Resume, OthersVerify, AuthorityActs, File, AmendmentAccepted,
     Advance, Elsewhere, evars, vars
<1> QED
  BY <1>1 DEF SiteKnown

LEMMA SiteIsKnown == Spec => []SiteKnown
<1>1. Init => SiteKnown
  BY DEF Init, SiteKnown
<1>2. SiteKnown /\ [Next]_vars => SiteKnown'
  BY SiteStays
<1> QED
  BY <1>1, <1>2, PTL DEF Spec

LEMMA SiteIs ==
  ASSUME SiteKnown
  PROVE  /\ Site.node \in NodeIds /\ Site.others \subseteq Threads \ {Gateway} /\ Site.revocable \subseteq Capsules \X BOOLEAN
         /\ Site.horizon \in 0..MaxTime
         /\ \A report \in Site.reports : IsReport(report)
         /\ Site.amendments \subseteq Amendments /\ Site.approvals \subseteq DOMAIN Approval /\ Gateway \in Threads
BY SitesAssumption DEF SiteKnown, Site

LEMMA StepOfVerifier ==
  ASSUME SiteKnown, [Next]_vars
  PROVE  [VerifierNext]_dvars
<1>1. CASE Start \/ KernelVerified \/ KernelRefuses \/ Evaluate \/ Reach \/ WalkGraph \/ ResolveCARM \/ Approved
           \/ NotApproved \/ Resume \/ File \/ AmendmentAccepted \/ UNCHANGED vars
  BY <1>1 DEF Start, KernelVerified, KernelRefuses, Evaluate, Reach, WalkGraph, ResolveCARM, Approved, NotApproved,
     Resume, File, AmendmentAccepted, vars
<1>2. CASE Execute \/ VerifyKernel
  BY <1>2, SiteIs DEF Execute, VerifyKernel, VerifierNext
<1>3. CASE OthersVerify
  BY <1>3, SiteIs DEF OthersVerify, VerifierNext
<1>4. CASE AuthorityActs
  <2>1. \A s \in clock..Site.horizon : s \in clock..MaxTime
    BY SiteIs, CallsAssumption
  <2> QED
    BY <1>4, <2>1, SiteIs DEF AuthorityActs, VerifierNext, Around
<1> QED
  BY <1>1, <1>2, <1>3, <1>4 DEF Next, Evaluating, World

LEMMA StepOfGraph ==
  ASSUME SiteKnown, [Next]_vars
  PROVE  [GraphNext]_gvars
<1>1. CASE Execute \/ VerifyKernel \/ KernelVerified \/ KernelRefuses \/ Evaluate \/ ResolveCARM \/ Approved
           \/ NotApproved \/ Resume \/ World \/ UNCHANGED vars
  BY <1>1 DEF Execute, VerifyKernel, KernelVerified, KernelRefuses, Evaluate, ResolveCARM, Approved, NotApproved,
     Resume, World, OthersVerify, AuthorityActs, File, AmendmentAccepted, vars
<1>2. CASE Start
  BY <1>2 DEF Start, GraphNext
<1>3. CASE Reach
  BY <1>3, SiteIs DEF Reach, GraphNext
<1>4. CASE WalkGraph
  BY <1>4 DEF WalkGraph, GraphNext
<1> QED
  BY <1>1, <1>2, <1>3, <1>4 DEF Next, Evaluating

\* The gateway's evaluation, with everything around it, is a behaviour of the
\* delegated verifier.
THEOREM EvaluationVerifies == Spec => VerifierSpec
<1>1. Init => VerifierInit
  BY DEF Init
<1>2. SiteKnown /\ [Next]_vars => [VerifierNext]_dvars
  BY StepOfVerifier
<1> QED
  BY <1>1, <1>2, SiteIsKnown, PTL DEF Spec, VerifierSpec

\* It is one of the governance graph.
THEOREM EvaluationWalks == Spec => GraphSpec
<1>1. Init => GraphInit
  BY DEF Init
<1>2. SiteKnown /\ [Next]_vars => [GraphNext]_gvars
  BY StepOfGraph
<1> QED
  BY <1>1, <1>2, SiteIsKnown, PTL DEF Spec, GraphSpec

\* So every verification it makes, and every one around it, is as sound in
\* the composition as it is alone.
THEOREM VerifierInComposition ==
  Spec => /\ []VerifierInv /\ []LineageIsAttenuated /\ []AuthorityIsInherited /\ []ObligationsAreInherited
          /\ []RevocationBites /\ LearnedRevocationStays
BY EvaluationVerifies, VerifierInvariant, LineageNarrows, AuthorityInherited, ObligationsInherited, RevocationHolds,
   RevocationsAreNotForgotten, PTL

\* And every graph and estimate.
THEOREM GraphInComposition ==
  Spec => []GraphInv /\ []AcceptedIffAcyclic /\ []ReachIsDownstream /\ []ConfidenceIsWeakest
BY EvaluationWalks, GraphInvariant, SortIsExact, WalkIsExact, ConfidenceHolds, PTL

-----------------------------------------------------------------------------
(* Approvals.                                                              *)

Scopes == {ActionScope(q) : q \in Proposals} \cup {AmendmentScope(m.previous, m.changes) : m \in Amendments}
Use    == [approval : DOMAIN Approval, capsule : Capsules, scope : Scopes, at : Nat]

WithinMax(id) == \E k \in DOMAIN Approval : Approval[k].id = id /\ Spent(id) <= Approval[k].max

\* Each use was valid at its time; what was spent under one id is no more than
\* some approval of that id permits; and each amendment leads to a successor.
ApprovalsInv ==
  /\ uses \in Seq(Use)
  /\ \A i \in DOMAIN uses : /\ Valid(uses[i].approval, uses[i].capsule, uses[i].scope, uses[i].at)
                            /\ WithinMax(Approval[uses[i].approval].id)
  /\ amended \subseteq Amendments /\ \A m \in amended : Succeeds(m.result, m.previous)

LEMMA UsesAppended ==
  ASSUME NEW s \in Seq(Use), NEW u \in Use
  PROVE  /\ Append(s, u) \in Seq(Use) /\ Len(Append(s, u)) = Len(s) + 1 /\ Len(s) \in Nat
         /\ DOMAIN Append(s, u) = DOMAIN s \cup {Len(s) + 1} /\ Len(s) + 1 \notin DOMAIN s
         /\ \A i \in DOMAIN s : Append(s, u)[i] = s[i]
         /\ Append(s, u)[Len(s) + 1] = u
OBVIOUS

\* One more use of k counts for its id alone.
LEMMA ConsumeCounts ==
  ASSUME uses \in Seq(Use), NEW k \in DOMAIN Approval, NEW c \in Capsules, NEW scope \in Scopes, NEW time \in Nat,
         Consume(k, c, scope, time)
  PROVE  /\ uses' \in Seq(Use) /\ Len(uses') = Len(uses) + 1 /\ Len(uses) \in Nat
         /\ DOMAIN uses' = DOMAIN uses \cup {Len(uses) + 1}
         /\ \A i \in DOMAIN uses : uses'[i] = uses[i]
         /\ uses'[Len(uses) + 1] = [approval |-> k, capsule |-> c, scope |-> scope, at |-> time]
         /\ \A id : Spent(id) \in Nat
         /\ \A id : id # Approval[k].id => Spent(id)' = Spent(id)
         /\ Spent(Approval[k].id)' = Spent(Approval[k].id) + 1
<1> DEFINE u == [approval |-> k, capsule |-> c, scope |-> scope, at |-> time]
           n == Len(uses) + 1
           Of(id) == {i \in DOMAIN uses : Approval[uses[i].approval].id = id}
<1>1. u \in Use /\ u.approval = k
  BY DEF Use
<1>2. uses' = Append(uses, u)
  BY DEF Consume
<1>3. /\ uses' \in Seq(Use) /\ Len(uses') = Len(uses) + 1 /\ Len(uses) \in Nat
      /\ DOMAIN uses' = DOMAIN uses \cup {n} /\ n \notin DOMAIN uses
      /\ (\A i \in DOMAIN uses : uses'[i] = uses[i]) /\ uses'[n] = u
  <2> HIDE DEF u
  <2> QED
    BY <1>1, <1>2, UsesAppended
<1>4. ASSUME NEW id PROVE IsFiniteSet(Of(id)) /\ Spent(id) = Cardinality(Of(id)) /\ Spent(id) \in Nat
  <2>1. IsFiniteSet(DOMAIN uses)
    <3>1. DOMAIN uses = 1..Len(uses) /\ 1 \in Int /\ Len(uses) \in Int
      BY <1>3
    <3> QED
      BY <3>1, FS_Interval
  <2>2. IsFiniteSet(Of(id))
    BY <2>1, FS_Subset
  <2> QED
    BY <2>2, FS_CardinalityType DEF Spent
<1>5. ASSUME NEW id, id # Approval[k].id PROVE Spent(id)' = Spent(id)
  <2>1. {i \in DOMAIN uses' : Approval[uses'[i].approval].id = id} = Of(id)
    BY <1>1, <1>3, <1>5
  <2> QED
    BY <1>4, <2>1 DEF Spent
<1>6. Spent(Approval[k].id)' = Spent(Approval[k].id) + 1
  <2> DEFINE id == Approval[k].id
  <2>1. {i \in DOMAIN uses' : Approval[uses'[i].approval].id = id} = Of(id) \cup {n}
    BY <1>1, <1>3
  <2>2. n \notin Of(id)
    BY <1>3
  <2>3. Cardinality(Of(id) \cup {n}) = Cardinality(Of(id)) + 1
    <3>1. IsFiniteSet(Of(id))
      BY <1>4
    <3> HIDE DEF Of, id, n
    <3> QED
      BY <2>2, <3>1, FS_AddElement
  <2> QED
    BY <1>4, <2>1, <2>3 DEF Spent
<1> QED
  BY <1>3, <1>4, <1>5, <1>6

LEMMA ConsumeKeeps ==
  ASSUME ApprovalsInv, NEW k \in DOMAIN Approval, NEW c \in Capsules, NEW scope \in Scopes, NEW time \in Nat,
         Consume(k, c, scope, time), amended' \subseteq Amendments, \A m \in amended' : Succeeds(m.result, m.previous)
  PROVE  ApprovalsInv'
<1> DEFINE n == Len(uses) + 1
<1>1. /\ uses' \in Seq(Use) /\ DOMAIN uses' = DOMAIN uses \cup {n}
      /\ \A i \in DOMAIN uses : uses'[i] = uses[i]
      /\ uses'[n] = [approval |-> k, capsule |-> c, scope |-> scope, at |-> time]
      /\ \A id : Spent(id) \in Nat
      /\ \A id : id # Approval[k].id => Spent(id)' = Spent(id)
      /\ Spent(Approval[k].id)' = Spent(Approval[k].id) + 1
  BY ConsumeCounts DEF ApprovalsInv
<1>2. Valid(k, c, scope, time) /\ Spent(Approval[k].id) < Approval[k].max /\ Approval[k].max \in Nat
  BY ApprovalsAssumption DEF Consume, CanConsume, IsApproval
<1>3. Spent(Approval[k].id)' <= Approval[k].max
  BY <1>1, <1>2
<1>4. ASSUME NEW id, \/ id = Approval[k].id
                     \/ WithinMax(id)
      PROVE  \E h \in DOMAIN Approval : Approval[h].id = id /\ Spent(id)' <= Approval[h].max
  <2>1. CASE id = Approval[k].id
    BY <1>3, <2>1
  <2>2. CASE id # Approval[k].id
    BY <1>1, <1>4, <2>2 DEF WithinMax
  <2> QED
    BY <2>1, <2>2
<1>5. ASSUME NEW i \in DOMAIN uses'
      PROVE  /\ Valid(uses'[i].approval, uses'[i].capsule, uses'[i].scope, uses'[i].at)
             /\ \/ Approval[uses'[i].approval].id = Approval[k].id
                \/ WithinMax(Approval[uses'[i].approval].id)
  <2>1. CASE i = n
    <3>1. /\ uses'[i].approval = k /\ uses'[i].capsule = c /\ uses'[i].scope = scope /\ uses'[i].at = time
      BY <1>1, <2>1
    <3> QED
      BY <1>2, <3>1
  <2>2. CASE i \in DOMAIN uses
    BY <1>1, <2>2 DEF ApprovalsInv
  <2> QED
    BY <1>1, <1>5, <2>1, <2>2
<1>6. \A i \in DOMAIN uses' : \E h \in DOMAIN Approval :
        /\ Approval[h].id = Approval[uses'[i].approval].id
        /\ Spent(Approval[uses[i].approval].id)' <= Approval[h].max
  <2>1. SUFFICES ASSUME NEW i \in DOMAIN uses', NEW id, id = Approval[uses'[i].approval].id
                 PROVE  \E h \in DOMAIN Approval : Approval[h].id = id /\ Spent(id)' <= Approval[h].max
    BY DEF Spent
  <2> QED
    BY <1>4, <1>5, <2>1
<1> QED
  BY <1>1, <1>5, <1>6 DEF ApprovalsInv, WithinMax

LEMMA InvKeepsToScope ==
  ASSUME ApprovalsInv
  PROVE  ApprovalsKeepToTheirScope
<1>1. \A i \in DOMAIN uses : /\ uses[i] \in Use
                             /\ Valid(uses[i].approval, uses[i].capsule, uses[i].scope, uses[i].at)
                             /\ WithinMax(Approval[uses[i].approval].id)
  BY DEF ApprovalsInv
<1>2. ASSUME NEW i \in DOMAIN uses, NEW j \in DOMAIN uses, uses[i].approval = uses[j].approval
      PROVE  /\ uses[i].scope.resource = uses[j].scope.resource /\ uses[i].scope.type = uses[j].scope.type
             /\ uses[i].capsule = uses[j].capsule /\ uses[i].scope.changes = uses[j].scope.changes
  <2> DEFINE a == Approval[uses[i].approval]
  <2>1. /\ InScope(a.scope, uses[i].scope) /\ a.capsule = uses[i].capsule
        /\ InScope(a.scope, uses[j].scope) /\ a.capsule = uses[j].capsule
    BY <1>1, <1>2 DEF Valid
  <2>2. uses[i].scope \in Scopes /\ uses[j].scope \in Scopes
    BY <1>1 DEF Use
  <2>3. \A scope \in Scopes : scope.type = "amendment" \/ (scope.type = "action" /\ scope.changes = {})
    BY DEF Scopes, ActionScope, AmendmentScope
  <2> HIDE DEF a
  <2> QED
    BY <2>1, <2>2, <2>3 DEF InScope
<1>3. \A i \in DOMAIN uses : InWindow(Approval[uses[i].approval], uses[i].at)
  BY <1>1 DEF Valid
<1> QED
  BY <1>1, <1>2, <1>3 DEF ApprovalsKeepToTheirScope, WithinMax

LEMMA InvAdvances ==
  ASSUME ApprovalsInv
  PROVE  RevisionsAdvance
<1>1. SUFFICES ASSUME NEW c \in {m.previous : m \in amended}, NEW d \in Later(c)
               PROVE  /\ Doc[d].id = Doc[c].id /\ Doc[d].task = Doc[c].task
                      /\ Doc[d].revision > Doc[c].revision /\ Doc[d].sequence > Doc[c].sequence
  BY DEF RevisionsAdvance
<1> DEFINE After(x) == /\ Doc[x].id = Doc[c].id /\ Doc[x].task = Doc[c].task
                       /\ Doc[x].revision > Doc[c].revision /\ Doc[x].sequence > Doc[c].sequence
           C == {x \in Results : After(x)}
<1>2. \A m \in amended : /\ m.previous \in Capsules /\ m.result \in Capsules /\ m.result \in Results
                         /\ Succeeds(m.result, m.previous)
  BY ApprovalsAssumption DEF ApprovalsInv, IsAmendment, Results
<1>3. ASSUME NEW m \in amended, m.previous \in C \cup {c} PROVE m.result \in C
  <2>1. /\ Doc[m.previous].revision \in Nat /\ Doc[m.previous].sequence \in Nat
        /\ Doc[m.result].revision \in Nat /\ Doc[m.result].sequence \in Nat
        /\ Doc[c].revision \in Nat /\ Doc[c].sequence \in Nat
    BY <1>1, <1>2, ApprovalsAssumption
  <2>2. Doc[m.previous].id = Doc[c].id /\ Doc[m.previous].task = Doc[c].task
        /\ Doc[m.previous].revision >= Doc[c].revision /\ Doc[m.previous].sequence >= Doc[c].sequence
    BY <1>3, <2>1
  <2>3. After(m.result)
    BY <1>2, <2>1, <2>2 DEF Succeeds
  <2> QED
    BY <1>2, <2>3
<1>4. d \in C
  BY <1>3 DEF Later
<1> QED
  BY <1>4

-----------------------------------------------------------------------------
(* The evaluation.                                                         *)

Stages == {"starting", "open", "kernel", "policy", "reach", "carm", "approval", "waiting", "resumed",
           "reserved", "rejected"}
Verified == {"policy", "reach", "carm", "approval", "waiting", "reserved"}

ApprovedSinceEntry ==
  \E i \in (entered.uses + 1)..Len(uses) :
    uses[i].scope = ActionScope(Proposal) /\ uses[i].capsule = Leaf(Gateway) /\ uses[i].at >= entered.at

\* What the stages after the kernel rest on was verified since the action was
\* entered last, and what was resolved is still what CARM made of the report.
KernelInv ==
  /\ stage \in Stages /\ filed \subseteq DOMAIN Approval
  /\ entered.at \in Nat /\ entered.at <= clock
  /\ entered.uses \in Nat /\ entered.uses <= Len(uses)
  /\ stage = "kernel" /\ place[Gateway] \in AtStatus \cup {"grant", "passed"} => entered.at <= now[Gateway]
  /\ stage \in Verified => place[Gateway] = "passed" /\ entered.at <= now[Gateway]

ResolutionInv ==
  /\ AreEvaluations(evaluations) /\ ~Repeats(evaluations)
  /\ stage \in {"starting", "open", "kernel", "policy", "reach", "carm"} => ~Resolved
  /\ Resolved => resolution = Resolve(evaluations, confidence, score)
  /\ stage \in {"approval", "waiting", "reserved"} => Resolved
  /\ stage = "reserved" /\ resolution.decision = "APPROVAL_REQUIRED" => ApprovedSinceEntry

EvaluationInv == SiteKnown /\ VerifierInv /\ ApprovalsInv /\ KernelInv /\ ResolutionInv

LEMMA NoEvaluations == AreEvaluations(<<>>) /\ ~Repeats(<<>>)
<1>1. <<>> \in Seq({<<>>[i] : i \in DOMAIN <<>>})
  OBVIOUS
<1> QED
  BY <1>1 DEF AreEvaluations, IsList, Repeats

LEMMA OneEvaluation ==
  ASSUME NEW e, IsEvaluation(e)
  PROVE  AreEvaluations(<<e>>) /\ ~Repeats(<<e>>)
<1>1. {<<e>>[i] : i \in DOMAIN <<e>>} = {e}
  OBVIOUS
<1>2. <<e>> \in Seq({e})
  OBVIOUS
<1>3. IsList(<<e>>)
  BY <1>1, <1>2 DEF IsList
<1>4. DOMAIN <<e>> = 1..Len(<<e>>) /\ Len(<<e>>) \in Nat /\ DOMAIN <<e>> = {1} /\ <<e>>[1] = e
  OBVIOUS
<1> QED
  BY <1>3, <1>4 DEF AreEvaluations, Repeats

LEMMA EvaluationStarts ==
  ASSUME Init
  PROVE  EvaluationInv
<1>1. SiteKnown /\ VerifierInv
  BY InitKeeps DEF Init, SiteKnown
<1>2. ApprovalsInv
  BY DEF Init, ApprovalsInit, ApprovalsInv
<1>3. KernelInv
  BY DEF Init, ApprovalsInit, VerifierInit, KernelInv, Stages, Verified
<1>4. ResolutionInv
  BY NoEvaluations DEF Init, ResolutionInv, Resolved
<1> QED
  BY <1>1, <1>2, <1>3, <1>4 DEF EvaluationInv

\* The action, once verified, is one of a capsule and a proposal.
LEMMA GatewayIs ==
  ASSUME EvaluationInv
  PROVE  /\ Gateway \in Threads /\ Proposal \in Proposals /\ ActionScope(Proposal) \in Scopes
         /\ clock \in Nat /\ now[Gateway] \in Nat /\ place[Gateway] \in Places
         /\ (place[Gateway] = "passed" => Leaf(Gateway) \in Capsules)
         /\ uses \in Seq(Use) /\ Len(uses) \in Nat
<1>1. Gateway \in Threads /\ VerifierTypeOK
  BY SitesAssumption, SiteIs DEF EvaluationInv, VerifierInv
<1>2. Proposal \in Proposals /\ now[Gateway] \in Nat /\ place[Gateway] \in Places /\ clock \in Nat
  BY <1>1, CallsAre DEF Proposal, VerifierTypeOK
<1>3. place[Gateway] = "passed" => Leaf(Gateway) \in Capsules
  <2>1. Last(Gateway) \in 1..Last(Gateway)
    BY <1>1, CallsAre
  <2> QED
    BY <1>1, <2>1, PassedIs DEF EvaluationInv
<1>4. uses \in Seq(Use) /\ Len(uses) \in Nat
  BY DEF EvaluationInv, ApprovalsInv
<1> QED
  BY <1>1, <1>2, <1>3, <1>4 DEF Scopes

LEMMA ApprovalsStep ==
  ASSUME EvaluationInv, [Next]_vars
  PROVE  ApprovalsInv'
<1>0. ApprovalsInv /\ filed \subseteq DOMAIN Approval /\ SiteKnown
  BY DEF EvaluationInv, KernelInv
<1>1. CASE UNCHANGED avars
  BY <1>0, <1>1 DEF avars, ApprovalsInv, WithinMax, Spent
<1>2. ASSUME stage \in {"approval", "waiting"}, NEW k \in filed, Grants(k), UNCHANGED amended PROVE ApprovalsInv'
  <2>1. Leaf(Gateway) \in Capsules /\ ActionScope(Proposal) \in Scopes /\ clock \in Nat /\ k \in DOMAIN Approval
    BY <1>0, <1>2, GatewayIs DEF EvaluationInv, KernelInv, Verified
  <2>2. Consume(k, Leaf(Gateway), ActionScope(Proposal), clock)
    BY <1>2 DEF Grants
  <2>3. amended' \subseteq Amendments /\ \A m \in amended' : Succeeds(m.result, m.previous)
    BY <1>0, <1>2 DEF ApprovalsInv
  <2> HIDE DEF Proposal
  <2> QED
    BY <1>0, <2>1, <2>2, <2>3, ConsumeKeeps
<1>3. CASE AmendmentAccepted
  <2>1. PICK m \in Site.amendments : Amend(m, clock)
    BY <1>3 DEF AmendmentAccepted
  <2>2. m \in Amendments /\ m.approval \in DOMAIN Approval /\ m.previous \in Capsules /\ clock \in Nat
    BY <1>0, <2>1, SiteIs, ApprovalsAssumption, GatewayIs DEF IsAmendment
  <2>3. AmendmentScope(m.previous, m.changes) \in Scopes
    BY <2>2 DEF Scopes
  <2>4. /\ Consume(m.approval, m.previous, AmendmentScope(m.previous, m.changes), clock)
        /\ amended' = amended \cup {m} /\ Succeeds(m.result, m.previous)
    BY <2>1 DEF Amend, AmendmentHolds
  <2>5. amended' \subseteq Amendments /\ \A l \in amended' : Succeeds(l.result, l.previous)
    BY <1>0, <2>2, <2>4 DEF ApprovalsInv
  <2> QED
    BY <1>0, <2>2, <2>3, <2>4, <2>5, ConsumeKeeps
<1>4. CASE Approved \/ Resume
  BY <1>2, <1>4 DEF Approved, Resume
<1>5. CASE Start \/ Execute \/ VerifyKernel \/ KernelVerified \/ KernelRefuses \/ Evaluate \/ Reach \/ WalkGraph
           \/ ResolveCARM \/ NotApproved \/ OthersVerify \/ AuthorityActs \/ File \/ UNCHANGED vars
  <2>1. UNCHANGED avars
    BY <1>5 DEF Start, Execute, VerifyKernel, KernelVerified, KernelRefuses, Evaluate, Reach, WalkGraph,
       ResolveCARM, NotApproved, OthersVerify, AuthorityActs, File, vars
  <2> QED
    BY <1>1, <2>1
<1> QED
  BY <1>3, <1>4, <1>5 DEF Next, Evaluating, World

\* Steps that leave the uses alone, or add one.
LEMMA UsesGrow ==
  ASSUME EvaluationInv, [Next]_vars
  PROVE  /\ Len(uses') \in Nat /\ Len(uses) <= Len(uses')
         /\ \A i \in 1..Len(uses) : uses'[i] = uses[i]
<1>0. uses \in Seq(Use) /\ Len(uses) \in Nat /\ uses' \in Seq(Use) /\ Len(uses') \in Nat
  BY ApprovalsStep DEF EvaluationInv, ApprovalsInv
<1>1. uses' = uses \/ \E u : uses' = Append(uses, u)
  BY DEF Next, Evaluating, World, Start, Execute, VerifyKernel, KernelVerified, KernelRefuses, Evaluate, Reach,
     WalkGraph, ResolveCARM, Approved, NotApproved, Resume, OthersVerify, AuthorityActs, File, AmendmentAccepted,
     Amend, Grants, Consume, vars, avars
<1>2. CASE \E u : uses' = Append(uses, u)
  <2>1. PICK u : uses' = Append(uses, u)
    BY <1>2
  <2> QED
    BY <1>0, <2>1
<1> QED
  BY <1>0, <1>1, <1>2

LEMMA CallsStay ==
  ASSUME [VerifierNext]_dvars
  PROVE  call' = call
BY DEF VerifierNext, Around, Tick, Revoke, Notify, Call, Serve, CheckTransition, CheckLeaf, UseCached, AskStatus,
   NoStatus, ProviderAnswers, ProviderFails, FetchEnds, Decide, dvars

\* Whatever happens around the gateway leaves its own call where it was.
LEMMA GatewayStays ==
  ASSUME EvaluationInv, [Next]_vars, ~Execute, ~VerifyKernel
  PROVE  /\ place'[Gateway] = place[Gateway] /\ now'[Gateway] = now[Gateway]
         /\ clock' \in Nat /\ clock <= clock'
<1>0. Gateway \in Threads /\ place \in [Threads -> Places] /\ now \in [Threads -> Nat] /\ clock \in Nat /\ SiteKnown
  BY GatewayIs DEF EvaluationInv, VerifierInv, VerifierTypeOK
<1>1. CASE UNCHANGED dvars
  BY <1>0, <1>1 DEF dvars, authority, calls
<1>2. CASE OthersVerify
  <2>1. PICK t \in Threads \ {Gateway} : Call(t) \/ Serve(t)
    BY <1>0, <1>2, SiteIs DEF OthersVerify
  <2>2. UNCHANGED authority
    BY <2>1 DEF Call, Serve, CheckTransition, CheckLeaf, UseCached, AskStatus, NoStatus, ProviderAnswers,
       ProviderFails, FetchEnds, Decide
  <2>3. now'[Gateway] = now[Gateway]
    BY <1>0, <2>1 DEF Call, Serve, CheckTransition, CheckLeaf, UseCached, AskStatus, NoStatus, ProviderAnswers,
       ProviderFails, FetchEnds, Decide
  <2>4. \/ place' = place
        \/ \E where : place' = [place EXCEPT ![t] = where]
    BY <2>1 DEF Call, Serve, CheckTransition, CheckLeaf, UseCached, AskStatus, NoStatus, ProviderAnswers,
       ProviderFails, FetchEnds, Decide, Judge, Proceed, Goto
  <2>5. place'[Gateway] = place[Gateway]
    BY <1>0, <2>1, <2>4
  <2> QED
    BY <1>0, <2>2, <2>3, <2>5 DEF authority
<1>3. CASE AuthorityActs
  <2>1. UNCHANGED calls
    BY <1>3 DEF AuthorityActs, Tick, Revoke, Notify
  <2>2. clock' = clock \/ clock' = clock + 1
    BY <1>3 DEF AuthorityActs, Tick, Revoke, Notify, authority
  <2> QED
    BY <1>0, <2>1, <2>2 DEF calls
<1>4. CASE Start \/ KernelVerified \/ KernelRefuses \/ Evaluate \/ Reach \/ WalkGraph \/ ResolveCARM
           \/ Approved \/ NotApproved \/ Resume \/ File \/ AmendmentAccepted \/ UNCHANGED vars
  <2>1. UNCHANGED dvars
    BY <1>4 DEF Start, KernelVerified, KernelRefuses, Evaluate, Reach, WalkGraph, ResolveCARM, Approved,
       NotApproved, Resume, File, AmendmentAccepted, vars
  <2> QED
    BY <1>1, <2>1
<1> QED
  BY <1>2, <1>3, <1>4 DEF Next, Evaluating, World

LEMMA KernelEntered ==
  ASSUME EvaluationInv, Execute
  PROVE  KernelInv'
<1>0. /\ Gateway \in Threads /\ place \in [Threads -> Places] /\ clock \in Nat /\ filed \subseteq DOMAIN Approval
      /\ Len(uses) \in Nat
  BY GatewayIs DEF EvaluationInv, VerifierInv, VerifierTypeOK, KernelInv
<1>1. /\ stage' = "kernel" /\ clock' = clock /\ uses' = uses /\ filed' = filed
      /\ entered' = [at |-> clock, uses |-> Len(uses)]
      /\ place'[Gateway] \in {"lineage", "refused"}
  BY <1>0 DEF Execute, Call, Goto, authority, avars
<1> QED
  BY <1>0, <1>1 DEF KernelInv, Stages, Verified, AtStatus

LEMMA KernelAdvanced ==
  ASSUME EvaluationInv, VerifyKernel
  PROVE  KernelInv'
<1>0. /\ Gateway \in Threads /\ place \in [Threads -> Places] /\ now \in [Threads -> Nat] /\ clock \in Nat
      /\ KernelInv /\ stage = "kernel"
  BY GatewayIs DEF EvaluationInv, VerifierInv, VerifierTypeOK, VerifyKernel
<1>1. stage' = stage /\ filed' = filed /\ entered' = entered /\ uses' = uses /\ clock' = clock
  BY DEF VerifyKernel, Elsewhere, evars, avars, Serve, CheckTransition, CheckLeaf, UseCached, AskStatus, NoStatus,
     ProviderAnswers, ProviderFails, FetchEnds, Decide, authority
<1>2. ASSUME place'[Gateway] \in AtStatus \cup {"grant", "passed"} PROVE entered.at <= now'[Gateway]
  <2>1. CASE CheckLeaf(Gateway)
    <3>1. now'[Gateway] = clock
      BY <1>0, <2>1 DEF CheckLeaf
    <3> QED
      BY <1>0, <3>1 DEF KernelInv
  <2>2. CASE CheckTransition(Gateway)
    <3>1. place'[Gateway] \in {"lineage", "refused"}
      BY <1>0, <2>2 DEF CheckTransition, Goto
    <3> QED
      BY <1>2, <3>1 DEF AtStatus
  <2>3. CASE UseCached(Gateway) \/ AskStatus(Gateway) \/ NoStatus(Gateway) \/ ProviderAnswers(Gateway)
             \/ ProviderFails(Gateway) \/ FetchEnds(Gateway) \/ Decide(Gateway)
    <3>1. place[Gateway] \in AtStatus \cup {"grant"} /\ now' = now
      BY <2>3 DEF UseCached, AskStatus, NoStatus, ProviderAnswers, ProviderFails, FetchEnds, Decide, AtStatus
    <3> QED
      BY <1>0, <3>1 DEF KernelInv
  <2> QED
    BY <2>1, <2>2, <2>3 DEF VerifyKernel, Serve
<1> QED
  BY <1>0, <1>1, <1>2 DEF KernelInv, Verified

LEMMA KernelStep ==
  ASSUME EvaluationInv, [Next]_vars
  PROVE  KernelInv'
<1>0. KernelInv /\ SiteKnown
  BY DEF EvaluationInv
<1>1. CASE Execute \/ VerifyKernel
  BY <1>1, KernelEntered, KernelAdvanced
<1>2. CASE ~Execute /\ ~VerifyKernel
  <2>1. /\ place'[Gateway] = place[Gateway] /\ now'[Gateway] = now[Gateway] /\ clock' \in Nat /\ clock <= clock'
        /\ Len(uses') \in Nat /\ Len(uses) <= Len(uses') /\ Len(uses) \in Nat /\ clock \in Nat
    BY <1>2, GatewayStays, UsesGrow, GatewayIs
  <2>2. /\ filed' \subseteq DOMAIN Approval
        /\ entered' = entered \/ entered' = [at |-> clock', uses |-> Len(uses')]
    <3>1. CASE Resume
      <4>1. clock' = clock /\ filed' = filed /\ entered' = [at |-> clock, uses |-> Len(uses')]
        BY <3>1 DEF Resume, dvars, authority
      <4> QED
        BY <1>0, <4>1 DEF KernelInv
    <3>2. CASE ~Resume
      BY <1>0, <1>2, <3>2, SiteIs DEF KernelInv, Next, Evaluating, World, Start, KernelVerified, KernelRefuses, Evaluate,
         Reach, WalkGraph, ResolveCARM, Approved, NotApproved, OthersVerify, AuthorityActs, File, AmendmentAccepted,
         Advance, Elsewhere, evars, vars
    <3> QED
      BY <3>1, <3>2
  <2>3. /\ stage' \in Stages
        /\ (stage' = "kernel" => stage = "kernel")
        /\ (stage' \in Verified => stage \in Verified \/ (stage = "kernel" /\ place[Gateway] = "passed"))
    <3>1. CASE stage' = stage
      BY <1>0, <3>1 DEF KernelInv
    <3>2. CASE ResolveCARM
      <4>1. stage = "carm" /\ resolution' = Resolve(evaluations, confidence, score)
        BY <3>2 DEF ResolveCARM
      <4>2. resolution'.decision \in Decisions
        BY <4>1, ResolvesToDecision DEF EvaluationInv, ResolutionInv
      <4> QED
        BY <3>2, <4>1, <4>2 DEF ResolveCARM, Decisions, Stages, Verified
    <3>3. CASE Start \/ KernelVerified \/ KernelRefuses \/ Evaluate \/ Reach \/ Approved \/ NotApproved \/ Resume
      BY <1>0, <3>3 DEF KernelInv, Start, KernelVerified, KernelRefuses, Evaluate, Reach, Approved, NotApproved, Resume,
         Advance, Elsewhere, evars, Stages, Verified
    <3>4. CASE WalkGraph \/ World \/ UNCHANGED vars
      BY <3>1, <3>4 DEF WalkGraph, World, OthersVerify, AuthorityActs, File, AmendmentAccepted, Elsewhere, evars, vars
    <3> QED
      BY <1>2, <3>2, <3>3, <3>4 DEF Next, Evaluating
  <2>4. /\ entered'.at \in Nat /\ entered'.at <= clock' /\ entered'.uses \in Nat /\ entered'.uses <= Len(uses')
    BY <1>0, <2>1, <2>2 DEF KernelInv
  <2>5. stage' \in Verified => entered' = entered
    <3>1. CASE Resume
      BY <3>1 DEF Resume, Verified
    <3>2. CASE ~Resume /\ entered' # entered
      BY <1>2, <3>2 DEF Next, Evaluating, World, Start, KernelVerified, KernelRefuses, Evaluate,
         Reach, WalkGraph, ResolveCARM, Approved, NotApproved, OthersVerify, AuthorityActs, File, AmendmentAccepted,
         Advance, Elsewhere, evars, vars
    <3> QED
      BY <3>1, <3>2
  <2>6. stage' = "kernel" => entered' = entered
    <3>1. CASE Resume
      BY <3>1 DEF Resume
    <3>2. CASE ~Resume /\ entered' # entered
      BY <1>2, <3>2 DEF Next, Evaluating, World, Start, KernelVerified, KernelRefuses, Evaluate,
         Reach, WalkGraph, ResolveCARM, Approved, NotApproved, OthersVerify, AuthorityActs, File, AmendmentAccepted,
         Advance, Elsewhere, evars, vars
    <3> QED
      BY <3>1, <3>2
  <2> QED
    BY <1>0, <2>1, <2>2, <2>3, <2>4, <2>5, <2>6 DEF KernelInv
<1> QED
  BY <1>1, <1>2

LEMMA ReportsAre ==
  ASSUME NEW report, IsReport(report), ~Fails(report)
  PROVE  AreEvaluations(Evaluations(report)) /\ ~Repeats(Evaluations(report))
<1>1. CASE report.runtime = "callable"
  BY <1>1 DEF IsReport, Fails, Evaluations
<1>2. CASE report.runtime # "callable"
  <2>1. report.id \in Nat /\ report.layer \in Layers /\ EffectOf(report.verdict) \in Effects
    BY <1>2 DEF IsReport, Fails, SupportedVerdicts, EffectOf, Effects
  <2> DEFINE e == [id |-> report.id, version |-> 1, layer |-> report.layer, effect |-> EffectOf(report.verdict)]
  <2>2. IsEvaluation(e)
    BY <2>1 DEF IsEvaluation
  <2> HIDE DEF e
  <2>3. AreEvaluations(<<e>>) /\ ~Repeats(<<e>>)
    BY <2>2, OneEvaluation
  <2> QED
    BY <1>2, <2>3 DEF Evaluations, e
<1> QED
  BY <1>1, <1>2

\* Resolutions, and what an approval was used for, stay in view.
LEMMA ResolutionStays ==
  ASSUME EvaluationInv, [Next]_vars, UNCHANGED <<evaluations, resolution, entered>>, confidence' = confidence, score' = score,
         stage' \in {"approval", "waiting", "reserved"} => Resolved,
         stage' \in {"starting", "open", "kernel", "policy", "reach", "carm"} => ~Resolved,
         stage' = "reserved" => stage = "reserved" \/ resolution.decision # "APPROVAL_REQUIRED"
  PROVE  ResolutionInv'
<1>0. ResolutionInv /\ SiteKnown
  BY DEF EvaluationInv
<1>1. Proposal' = Proposal /\ Leaf(Gateway)' = Leaf(Gateway)
  BY <1>0, StepOfVerifier, CallsStay DEF Proposal, Leaf, Last, Chain
<1>2. ASSUME ApprovedSinceEntry PROVE ApprovedSinceEntry'
  <2>1. PICK i \in (entered.uses + 1)..Len(uses) :
          uses[i].scope = ActionScope(Proposal) /\ uses[i].capsule = Leaf(Gateway) /\ uses[i].at >= entered.at
    BY <1>2 DEF ApprovedSinceEntry
  <2>2. entered.uses \in Nat /\ Len(uses) \in Nat /\ Len(uses') \in Nat /\ Len(uses) <= Len(uses')
        /\ \A j \in 1..Len(uses) : uses'[j] = uses[j]
    BY UsesGrow, GatewayIs DEF EvaluationInv, KernelInv
  <2>3. i \in (entered.uses + 1)..Len(uses') /\ uses'[i] = uses[i]
    BY <2>2
  <2> QED
    BY <1>1, <2>1, <2>3 DEF ApprovedSinceEntry
<1>3. Resolved' = Resolved
  BY DEF Resolved
<1>4. AreEvaluations(evaluations') /\ ~Repeats(evaluations')
  BY <1>0 DEF ResolutionInv
<1> QED
  BY <1>0, <1>2, <1>3, <1>4 DEF ResolutionInv

\* A step that ends before anything is resolved.
LEMMA Unresolvedness ==
  ASSUME AreEvaluations(evaluations'), ~Repeats(evaluations'), ~Resolved',
         stage' \notin {"approval", "waiting", "reserved"}
  PROVE  ResolutionInv'
BY DEF ResolutionInv, Resolved

LEMMA ResolutionStep ==
  ASSUME EvaluationInv, [Next]_vars
  PROVE  ResolutionInv'
<1>0. ResolutionInv /\ KernelInv /\ SiteKnown
  BY DEF EvaluationInv
<1>1. CASE Execute
  <2>1. evaluations' = <<>> /\ ~Resolved' /\ stage' = "kernel"
    BY <1>1 DEF Execute, Resolved
  <2> QED
    BY <2>1, NoEvaluations, Unresolvedness
<1>2. CASE Evaluate
  <2>1. resolution' = resolution /\ ~Resolved /\ stage' \in {"rejected", "reach"}
    BY <1>0, <1>2 DEF Evaluate, ResolutionInv
  <2>2. AreEvaluations(evaluations') /\ ~Repeats(evaluations')
    <3>1. evaluations' = evaluations \/ \E report \in Site.reports : ~Fails(report) /\ evaluations' = Evaluations(report)
      BY <1>2 DEF Evaluate
    <3> QED
      BY <1>0, <3>1, SiteIs, ReportsAre DEF ResolutionInv
  <2> QED
    BY <2>1, <2>2, Unresolvedness DEF Resolved
<1>3. CASE Start \/ VerifyKernel \/ KernelVerified \/ KernelRefuses \/ Reach \/ WalkGraph
  <2>1. stage \in {"starting", "kernel", "reach", "carm"}
    BY <1>3 DEF Start, VerifyKernel, KernelVerified, KernelRefuses, Reach, WalkGraph
  <2>2. /\ UNCHANGED <<evaluations, resolution>>
        /\ stage' \in {"starting", "open", "kernel", "reach", "carm", "policy", "rejected"}
    BY <1>3, <2>1 DEF Start, VerifyKernel, KernelVerified, KernelRefuses, Reach, WalkGraph, Advance, Elsewhere, evars
  <2>3. ~Resolved
    BY <1>0, <2>1 DEF ResolutionInv
  <2> QED
    BY <1>0, <2>2, <2>3, Unresolvedness DEF ResolutionInv, Resolved
<1>4. CASE ResolveCARM
  <2>1. /\ resolution' = Resolve(evaluations, confidence, score) /\ evaluations' = evaluations
        /\ confidence' = confidence /\ score' = score /\ AreEvaluations(evaluations) /\ ~Repeats(evaluations)
    BY <1>0, <1>4 DEF ResolveCARM, ResolutionInv, gvars
  <2>2. resolution'.decision \in Decisions
    BY <2>1, ResolvesToDecision
  <2>3. resolution'.decision # "NONE" /\ Resolved'
    BY <2>2 DEF Decisions, Resolved, Unresolved
  <2>4. stage' = CASE resolution'.decision = "BLOCK"             -> "rejected"
                   [] resolution'.decision = "ALLOW"             -> "reserved"
                   [] resolution'.decision = "APPROVAL_REQUIRED" -> "approval"
    BY <1>4 DEF ResolveCARM
  <2>5. stage' \in {"rejected", "reserved", "approval"} /\ (stage' = "reserved" => resolution'.decision = "ALLOW")
    BY <2>2, <2>4 DEF Decisions
  <2> QED
    BY <2>1, <2>3, <2>5 DEF ResolutionInv
<1>5. CASE Approved
  <2>1. PICK k \in filed : Grants(k)
    BY <1>5 DEF Approved
  <2>2. /\ stage = "approval" /\ stage' = "reserved" /\ UNCHANGED <<evaluations, resolution, entered>>
        /\ UNCHANGED <<dvars, gvars>>
    BY <1>5 DEF Approved, Advance
  <2>3. Proposal' = Proposal /\ Leaf(Gateway)' = Leaf(Gateway) /\ confidence' = confidence /\ score' = score
    BY <2>2 DEF Proposal, Leaf, Last, Chain, dvars, gvars
  <2>4. /\ uses \in Seq(Use) /\ Len(uses) \in Nat /\ clock \in Nat /\ k \in DOMAIN Approval
        /\ Leaf(Gateway) \in Capsules /\ ActionScope(Proposal) \in Scopes
    BY <1>0, <2>1, <2>2, GatewayIs DEF KernelInv, Verified
  <2> DEFINE u == [approval |-> k, capsule |-> Leaf(Gateway), scope |-> ActionScope(Proposal), at |-> clock]
  <2>5. u \in Use /\ u.capsule = Leaf(Gateway) /\ u.scope = ActionScope(Proposal) /\ u.at = clock
    BY <2>4 DEF Use
  <2>6. uses' = Append(uses, u)
    BY <2>1 DEF Grants, Consume
  <2> HIDE DEF u
  <2>7. Len(uses') = Len(uses) + 1 /\ uses'[Len(uses) + 1] = u
    BY <2>4, <2>5, <2>6, UsesAppended
  <2>8. entered.uses \in Nat /\ entered.uses <= Len(uses) /\ entered.at \in Nat /\ entered.at <= clock
    BY <1>0 DEF KernelInv
  <2>9. Len(uses) + 1 \in (entered.uses + 1)..Len(uses')
    BY <2>4, <2>7, <2>8
  <2>10. ApprovedSinceEntry'
    BY <2>2, <2>3, <2>4, <2>5, <2>7, <2>8, <2>9 DEF ApprovedSinceEntry
  <2>11. Resolved' = Resolved
    BY <2>2 DEF Resolved
  <2> QED
    BY <1>0, <2>2, <2>3, <2>10, <2>11 DEF ResolutionInv
<1>6. CASE Resume
  <2>1. stage = "waiting" /\ stage' = "resumed" /\ UNCHANGED <<evaluations, resolution, confidence, score>>
    BY <1>6 DEF Resume, gvars
  <2> QED
    BY <1>0, <2>1 DEF ResolutionInv, Resolved
<1>7. CASE NotApproved \/ World \/ UNCHANGED vars
  <2>1. UNCHANGED <<evaluations, resolution, entered>> /\ confidence' = confidence /\ score' = score
        /\ \/ stage' = stage
           \/ stage = "approval" /\ stage' = "waiting"
    BY <1>7 DEF NotApproved, World, OthersVerify, AuthorityActs, File, AmendmentAccepted, Advance,
       Elsewhere, evars, gvars, vars
  <2> QED
    BY <1>0, <2>1, ResolutionStays DEF ResolutionInv
<1> QED
  BY <1>1, <1>2, <1>3, <1>4, <1>5, <1>6, <1>7 DEF Next, Evaluating

LEMMA EvaluationStep ==
  ASSUME EvaluationInv, [Next]_vars
  PROVE  EvaluationInv'
<1>1. SiteKnown' /\ VerifierInv'
  BY SiteStays, StepOfVerifier, StepKeeps DEF EvaluationInv
<1> QED
  BY <1>1, ApprovalsStep, KernelStep, ResolutionStep DEF EvaluationInv

\* EvaluationInv is inductive.
THEOREM EvaluationInvariant == Spec => []EvaluationInv
<1>1. Init => EvaluationInv
  BY EvaluationStarts
<1>2. EvaluationInv /\ [Next]_vars => EvaluationInv'
  BY EvaluationStep
<1> QED
  BY <1>1, <1>2, PTL DEF Spec

\* Uses of an approval stay within its capsule, its scope, its window and the
\* permitted number, for any approvals and any order of uses.
THEOREM ApprovalsAreScoped == Spec => []ApprovalsKeepToTheirScope
<1>1. EvaluationInv => ApprovalsKeepToTheirScope
  BY InvKeepsToScope DEF EvaluationInv
<1> QED
  BY <1>1, EvaluationInvariant, PTL

\* No sequence of accepted amendments leads back to an earlier revision.
THEOREM AmendmentsAdvance == Spec => []RevisionsAdvance
<1>1. EvaluationInv => RevisionsAdvance
  BY InvAdvances DEF EvaluationInv
<1> QED
  BY <1>1, EvaluationInvariant, PTL

LEMMA InvOrderFree ==
  ASSUME EvaluationInv
  PROVE  ResolutionIsOrderFree
<1>1. SUFFICES ASSUME Resolved, NEW w \in Reorderings(evaluations)
               PROVE  Resolve(w, confidence, score) = resolution
  BY DEF ResolutionIsOrderFree
<1>2. AreEvaluations(evaluations) /\ resolution = Resolve(evaluations, confidence, score)
  BY <1>1 DEF EvaluationInv, ResolutionInv
<1>3. SameEvaluations(evaluations, w) /\ AreEvaluations(w)
  <2>1. /\ DOMAIN w = DOMAIN evaluations /\ SameEvaluations(w, evaluations)
        /\ w \in [DOMAIN evaluations -> {evaluations[i] : i \in DOMAIN evaluations}]
    BY DEF Reorderings
  <2>2. w \in Seq({evaluations[i] : i \in DOMAIN evaluations})
    BY <1>2, <2>1 DEF AreEvaluations
  <2>3. DOMAIN w = 1..Len(w) /\ Len(w) \in Nat
    BY <2>2
  <2>4. {w[i] : i \in DOMAIN w} = {evaluations[i] : i \in DOMAIN evaluations}
    BY <2>1 DEF SameEvaluations
  <2>5. IsList(w)
    BY <2>2, <2>4 DEF IsList
  <2> QED
    BY <1>2, <2>1, <2>3, <2>5 DEF AreEvaluations, SameEvaluations
<1> QED
  BY <1>2, <1>3, OrderDoesNotMatter

\* The gateway's decision does not depend on the order of the report.
THEOREM ResolutionHolds == Spec => []ResolutionIsOrderFree
<1>1. EvaluationInv => ResolutionIsOrderFree
  BY InvOrderFree
<1> QED
  BY <1>1, EvaluationInvariant, PTL

LEMMA InvTightens ==
  ASSUME EvaluationInv
  PROVE  AnotherBlockNeverLoosens
<1>1. SUFFICES ASSUME Resolved, NEW id \in 0..4, NEW layer \in Layers
               PROVE  Strictness(resolution.decision)
                        <= Strictness(Resolve(Append(evaluations, Block(id, layer)), confidence, score).decision)
  BY DEF AnotherBlockNeverLoosens
<1>2. /\ AreEvaluations(evaluations) /\ ~Repeats(evaluations)
      /\ resolution = Resolve(evaluations, confidence, score)
  BY <1>1 DEF EvaluationInv, ResolutionInv
<1> DEFINE b == Block(id, layer)
           E == {evaluations[i] : i \in DOMAIN evaluations} \cup {b}
           w == Append(evaluations, b)
<1>3. IsEvaluation(b) /\ b.effect = "BLOCK"
  BY <1>1 DEF IsEvaluation, Effects, Block
<1> HIDE DEF b
<1>4. evaluations \in Seq(E)
  <2>1. {evaluations[i] : i \in DOMAIN evaluations} \subseteq E
    OBVIOUS
  <2> HIDE DEF E
  <2> QED
    BY <1>2, <2>1 DEF AreEvaluations, IsList
<1>5. /\ DOMAIN w = 1..Len(w) /\ Len(w) \in Nat /\ DOMAIN w = DOMAIN evaluations \cup {Len(evaluations) + 1}
      /\ (\A i \in DOMAIN evaluations : w[i] = evaluations[i]) /\ w[Len(evaluations) + 1] = b
  <2>1. b \in E
    OBVIOUS
  <2> HIDE DEF E
  <2> QED
    BY <1>4, <2>1
<1>6. AreEvaluations(w) /\ {w[i] : i \in DOMAIN w} = E
  <2>1. w \in Seq(E)
    <3>1. b \in E
      OBVIOUS
    <3> HIDE DEF E
    <3> QED
      BY <1>4, <3>1
  <2> HIDE DEF w
  <2>2. {w[i] : i \in DOMAIN w} = E
    <3>1. \A i \in DOMAIN w : w[i] \in E
      BY <1>5
    <3>2. ASSUME NEW x \in E PROVE \E i \in DOMAIN w : w[i] = x
      BY <1>5
    <3> QED
      BY <3>1, <3>2, Zenon
  <2>3. IsList(w)
    BY <2>1, <2>2 DEF IsList
  <2> HIDE DEF E
  <2> QED
    BY <1>2, <1>3, <1>5, <2>2, <2>3 DEF AreEvaluations
<1> HIDE DEF w
<1>7. Strictness(Resolve(evaluations, confidence, score).decision) <= Strictness(Resolve(w, confidence, score).decision)
  BY <1>2, <1>3, <1>6, BlocksTighten
<1> QED
  BY <1>2, <1>7 DEF w, b

\* Adding a policy that blocks never helps an action through the gateway.
THEOREM BlocksTightenTheGateway == Spec => []AnotherBlockNeverLoosens
<1>1. EvaluationInv => AnotherBlockNeverLoosens
  BY InvTightens
<1> QED
  BY <1>1, EvaluationInvariant, PTL

LEMMA InvUnanimous ==
  ASSUME EvaluationInv
  PROVE  BlockIffUnanimous
<1>1. SUFFICES ASSUME Resolved, PreventAutomatedBlocking
               PROVE  resolution.decision = "BLOCK" <=>
                        evaluations # <<>> /\ \A i \in DOMAIN evaluations : evaluations[i].effect = "BLOCK"
  BY DEF BlockIffUnanimous
<1>2. AreEvaluations(evaluations) /\ resolution = Resolve(evaluations, confidence, score)
  BY <1>1 DEF EvaluationInv, ResolutionInv
<1>3. resolution.decision = "BLOCK" <=> Len(evaluations) > 0 /\ \A i \in DOMAIN evaluations : evaluations[i].effect = "BLOCK"
  BY <1>1, <1>2, BlockedByAll
<1>4. evaluations # <<>> <=> Len(evaluations) > 0
  <2>1. evaluations \in Seq({evaluations[i] : i \in DOMAIN evaluations})
    BY <1>2 DEF AreEvaluations, IsList
  <2> QED
    BY <2>1
<1> QED
  BY <1>3, <1>4

\* Nothing is blocked automatically that some policy allows.
THEOREM BlocksAreUnanimous == Spec => []BlockIffUnanimous
<1>1. EvaluationInv => BlockIffUnanimous
  BY InvUnanimous
<1> QED
  BY <1>1, EvaluationInvariant, PTL

LEMMA InvApproved ==
  ASSUME EvaluationInv
  PROVE  ProceedsWithApproval
<1>1. SUFFICES ASSUME stage = "reserved",
                      Reports(evaluations, "REQUIRE_APPROVAL") \/ resolution.decision = "APPROVAL_REQUIRED"
               PROVE  ApprovedSinceEntry
  BY DEF ProceedsWithApproval, ApprovedSinceEntry
<1>2. ResolutionInv
  BY DEF EvaluationInv
<1>3. resolution.decision = "APPROVAL_REQUIRED"
  <2>1. CASE Reports(evaluations, "REQUIRE_APPROVAL")
    BY <1>1, <1>2, <2>1 DEF ResolutionInv, Resolve, Escalation, Resolution
  <2> QED
    BY <1>1, <2>1
<1> QED
  BY <1>1, <1>2, <1>3 DEF ResolutionInv

\* Whatever escalates an action, it is reserved only with an approval of its
\* own that was used in this very evaluation.
THEOREM EscalationsAreApproved == Spec => []ProceedsWithApproval
<1>1. EvaluationInv => ProceedsWithApproval
  BY InvApproved
<1> QED
  BY <1>1, EvaluationInvariant, PTL

LEMMA InvLive ==
  ASSUME EvaluationInv
  PROVE  ProceedsUnderLiveAuthority
<1>1. SUFFICES ASSUME stage = "reserved", NEW i \in 1..Last(Gateway)
               PROVE  /\ entered.at < Doc[Lineage(Chain(Gateway))[i]].until
                      /\ InGoodTime(Gateway, i) /\ entered.at <= now[Gateway]
  BY DEF ProceedsUnderLiveAuthority
<1>2. Gateway \in Threads /\ place[Gateway] = "passed" /\ entered.at <= now[Gateway] /\ entered.at \in Nat
      /\ now[Gateway] \in Nat
  BY <1>1, GatewayIs DEF EvaluationInv, KernelInv, Verified
<1>3. InGoodTime(Gateway, i)
  BY <1>1, <1>2, InvBites DEF EvaluationInv, RevocationBites
<1> DEFINE c == Lineage(Chain(Gateway))[i]
<1>4. InForce(c, now[Gateway]) /\ c \in Capsules
  BY <1>1, <1>2, InvInherits, PassedIs DEF EvaluationInv, AuthorityIsInherited
<1>5. Doc[c].until \in Nat
  BY <1>4, DocumentsAre DEF IsDocument
<1> HIDE DEF c
<1>6. entered.at < Doc[c].until
  BY <1>2, <1>4, <1>5 DEF InForce
<1> QED
  BY <1>2, <1>3, <1>6 DEF c

\* An action that waited for its approval proceeds only under a lineage that
\* was verified anew, in force and not long revoked.
THEOREM ResumedUnderLiveAuthority == Spec => []ProceedsUnderLiveAuthority
<1>1. EvaluationInv => ProceedsUnderLiveAuthority
  BY InvLive
<1> QED
  BY <1>1, EvaluationInvariant, PTL
=============================================================================
