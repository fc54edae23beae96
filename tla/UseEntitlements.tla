-------------------------- MODULE UseEntitlements --------------------------
(***************************************************************************)
(* What use limits promise, whoever spends the uses and in which order: a  *)
(* capsule entitles the verifiers of a registry to a number of actions, an *)
(* action takes one entitlement for good before it passes, and an approval *)
(* or a nonce is used up.  No lock, no count, no thread: what is used is   *)
(* the number of actions that are entitled.                                *)
(***************************************************************************)
EXTENDS Naturals, FiniteSets

CONSTANTS Actions, Capsules, Approvals, Nonces, Verifiers, Boundary, None,
          RegistryOf, CapsuleUses, ApprovalUses

VARIABLES
  passed,    \* the actions that verifiers have let through
  granted,   \* how often an approval was consumed
  opened,    \* the nonce that each verifier of a boundary was opened with
  entitled   \* per verifier and action, the capsule it has a use of

vars == <<passed, granted, opened, entitled>>

Init ==
  /\ passed = {}
  /\ granted = [p \in Approvals |-> 0]
  /\ opened = [v \in Verifiers |-> None]
  /\ entitled = [v \in Verifiers |-> [a \in Actions |-> None]]

Users(r, d) == {p \in Verifiers \X Actions : RegistryOf[p[1]] = r /\ entitled[p[1]][p[2]] = d}

Entitle(v, a, d) ==
  /\ entitled[v][a] = None
  /\ Cardinality(Users(RegistryOf[v], d)) < CapsuleUses[d]
  /\ entitled' = [entitled EXCEPT ![v][a] = d]
  /\ UNCHANGED <<passed, granted, opened>>

Pass(v, a) ==
  /\ entitled[v][a] # None
  /\ passed' = passed \cup {<<v, a>>}
  /\ UNCHANGED <<granted, opened, entitled>>

Consume(p) ==
  /\ granted[p] < ApprovalUses[p]
  /\ granted' = [granted EXCEPT ![p] = @ + 1]
  /\ UNCHANGED <<passed, opened, entitled>>

Open(v, n) ==
  /\ opened[v] = None
  /\ \A w \in Verifiers : opened[w] # n
  /\ opened' = [opened EXCEPT ![v] = n]
  /\ UNCHANGED <<passed, granted, entitled>>

Next ==
  \/ \E v \in Verifiers, a \in Actions : Pass(v, a) \/ \E d \in Capsules : Entitle(v, a, d)
  \/ \E p \in Approvals : Consume(p)
  \/ \E v \in Boundary, n \in Nonces : Open(v, n)

Spec == Init /\ [][Next]_vars
=============================================================================
