--------------------------- MODULE MCCapsuleUses ---------------------------
(* Use limits on a small instance: two revisions of one capsule, a single- *)
(* use and a multi-use one, two configured verifiers over one registry.    *)
EXTENDS CapsuleUses, TLC
CONSTANTS a1, a2, d1, d2, id, n1, n2, p1, v1, v2, b1, b2, shared, own1, own2, transport, approving

IdOfDef       == [d \in {d1, d2} |-> id]
CapsuleAtDef  == [v \in {v1, v2} |-> d2]
RegistryOfDef == (v1 :> shared @@ v2 :> shared @@ b1 :> own1 @@ b2 :> own2)
ModeDef       == (d1 :> "single-use" @@ d2 :> "multi-use")
MaxUsesDef    == (d1 :> None @@ d2 :> 2 @@ p1 :> 1)
OneNonce  == {[nonce |-> n1, capsule |-> d2, action |-> a1], [nonce |-> n1, capsule |-> d1, action |-> a2]}
TwoNonces == {[nonce |-> n1, capsule |-> d1, action |-> a1], [nonce |-> n2, capsule |-> d1, action |-> a2]}
ThreadSymmetry == Permutations(Threads)
=============================================================================
