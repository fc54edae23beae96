-------------------------- MODULE PolicyResolution --------------------------
(***************************************************************************)
(* What policy runtimes report (policy.py, adapters/microsoft_acs.py) and  *)
(* how CARM turns a report, together with the estimated reach, into one    *)
(* decision (carm.py): pure functions.  Policy ids and versions are        *)
(* numbers, in the order the code's strings have.                          *)
(***************************************************************************)
EXTENDS Integers, Sequences, FiniteSetsExt

CONSTANTS  \* CARMConfig
  SeverityThreshold, ReachThreshold, MinimumConfidence, PreventAutomatedBlocking

ASSUME ConfigAssumption ==
  /\ SeverityThreshold \in Nat /\ ReachThreshold \in Nat /\ MinimumConfidence \in Nat
  /\ PreventAutomatedBlocking \in BOOLEAN

Layers    == {"regulatory", "organizational", "task"}
Effects   == {"ALLOW", "BLOCK", "REQUIRE_APPROVAL"}
Decisions == {"ALLOW", "BLOCK", "APPROVAL_REQUIRED"}

Weight(layer) == CASE layer = "regulatory" -> 3 [] layer = "organizational" -> 2 [] layer = "task" -> 1

IsEvaluation(e) ==
  e.id \in Nat /\ e.version \in Nat /\ e.layer \in Layers /\ e.effect \in Effects

IsList(values) == values \in Seq({values[i] : i \in DOMAIN values})

\* The policies of a report, in the order they are reported.
AreEvaluations(values) ==
  /\ IsList(values) /\ DOMAIN values = 1..Len(values) /\ Len(values) \in Nat
  /\ \A i \in DOMAIN values : IsEvaluation(values[i])

-----------------------------------------------------------------------------
(* The runtimes.  A report is what a callable returns, or an ACS verdict   *)
(* with the policy the adapter reports it under.                           *)

\* A key that occurs twice.
Repeats(values) ==
  \E i, j \in DOMAIN values : i # j /\ values[i].id = values[j].id /\ values[i].version = values[j].version

IsReport(report) ==
  \/ report.runtime = "callable" /\ AreEvaluations(report.values)
  \/ report.runtime = "acs" /\ report.id \in Nat /\ report.layer \in Layers

SupportedVerdicts == {"allow", "warn", "transform", "deny", "escalate"}
EffectOf(verdict) == CASE verdict \in {"allow", "warn", "transform"} -> "ALLOW"
                       [] verdict = "deny"                           -> "BLOCK"
                       [] verdict = "escalate"                       -> "REQUIRE_APPROVAL"

\* An ACS control that is missing or raises has the verdict "unavailable".
Fails(report) == IF report.runtime = "callable" THEN Repeats(report.values)
                                               ELSE report.verdict \notin SupportedVerdicts

Evaluations(report) ==
  IF report.runtime = "callable" THEN report.values
  ELSE <<[id |-> report.id, version |-> 1, layer |-> report.layer,
          effect |-> EffectOf(report.verdict)]>>

-----------------------------------------------------------------------------
(* Conflicts.                                                              *)

Reports(values, effect) == \E i \in DOMAIN values : values[i].effect = effect

Conflict(e, f)    == e.effect # f.effect /\ "REQUIRE_APPROVAL" \notin {e.effect, f.effect}
Conflicts(values) ==
  {<<values[p[1]], values[p[2]]>> : p \in
     {p \in (DOMAIN values) \X (DOMAIN values) : p[1] < p[2] /\ Conflict(values[p[1]], values[p[2]])}}

\* Mutant: one layer counts twice.
LeftSeverity(k) == Weight(k[1].layer) * Weight(k[1].layer)

Severity(k) == Weight(k[1].layer) * Weight(k[2].layer)
IsWorst(n, conflicts) == /\ \E k \in conflicts : n = Severity(k)
                         /\ \A k \in conflicts : Severity(k) <= n
\* Mutant: the least severe conflict decides.
MildestSeverity(conflicts) == CHOOSE n \in 1..9 : (\E k \in conflicts : n = Severity(k)) /\ \A k \in conflicts : n <= Severity(k)
WorstSeverity(conflicts) == CHOOSE n \in 1..9 : IsWorst(n, conflicts)

Parties(conflicts) == {k[1] : k \in conflicts} \cup {k[2] : k \in conflicts}

\* The order of the keys (-weight, policy_id, policy_version).
Outranks(e, f) ==
  \/ Weight(e.layer) > Weight(f.layer)
  \/ Weight(e.layer) = Weight(f.layer) /\ e.id < f.id
  \/ Weight(e.layer) = Weight(f.layer) /\ e.id = f.id /\ e.version <= f.version

Leader(evaluations)       == CHOOSE e \in evaluations : \A f \in evaluations : Outranks(e, f)
PriorityEffect(conflicts) == Leader(Parties(conflicts)).effect

-----------------------------------------------------------------------------
(* Resolution.                                                             *)

Resolution(mode, decision) == [mode |-> mode, decision |-> decision]
Escalation == Resolution("ESCALATION_BOUNDARY", "APPROVAL_REQUIRED")

\* Mutant: nothing prevents an automated block.
EnforceDirectly(effect) == Resolution("PRIORITY_ENFORCEMENT", effect)

Enforce(effect) ==
  IF effect = "BLOCK" /\ PreventAutomatedBlocking THEN Escalation
                                                  ELSE Resolution("PRIORITY_ENFORCEMENT", effect)

ResolveConflicts(conflicts, confidence, score) ==
  LET severe == WorstSeverity(conflicts) >= SeverityThreshold
  IN  IF confidence < MinimumConfidence \/ (severe /\ score >= ReachThreshold) THEN Escalation
      ELSE IF severe THEN Enforce(PriorityEffect(conflicts))
      ELSE Resolution("NEGOTIATED_RELAXATION", "ALLOW")

Resolve(values, confidence, score) ==
  IF Reports(values, "REQUIRE_APPROVAL") THEN Escalation
  ELSE IF Conflicts(values) = {}
       THEN Resolution("NO_CONFLICT", IF Reports(values, "BLOCK") THEN "BLOCK" ELSE "ALLOW")
       ELSE ResolveConflicts(Conflicts(values), confidence, score)

-----------------------------------------------------------------------------
(* What it is all for.                                                     *)

SameEvaluations(v, w) == {v[i] : i \in DOMAIN v} = {w[i] : i \in DOMAIN w}

Strictness(decision) == CASE decision = "ALLOW" -> 0 [] decision = "APPROVAL_REQUIRED" -> 1 [] decision = "BLOCK" -> 2
=============================================================================
