CONSTANTS
  a1 = a1 a2 = a2 n1 = n1 n2 = n2
  d1 = d1 d2 = d2 id = id p1 = p1
  v1 = v1 v2 = v2 b1 = b1 b2 = b2
  shared = shared own1 = own1 own2 = own2 transport = transport approving = approving
  Threads = {t1, t2}
  Actions = {a1, a2}
  Capsules = {d1, d2}
  CapsuleIds = {id}
  Approvals = {p1}
  Nonces = {n1}
  Registries = {shared, own1, own2, transport, approving}
  Verifiers = {v1, v2, b1, b2}
  Boundary = {b1, b2}
  None = None
  Envelopes <- OneNonce
  Counting = {shared}
  IdOf <- IdOfDef
  CapsuleAt <- CapsuleAtDef
  RegistryOf <- RegistryOfDef
  TransportReplay = transport
  ApprovalUses = approving
  Mode <- ModeDef
  MaxUses <- MaxUsesDef
  MaxCount = 1
SPECIFICATION Spec
SYMMETRY ThreadSymmetry
INVARIANTS
  TypeOK
  UsesInv
  UsesAreAccountedFor
  ActionsWithinLimit
  OneTransportPerNonce
  ApprovalsWithinLimit
PROPERTIES
  KeepsEntitlements
