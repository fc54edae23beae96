SPECIFICATION Spec
CONSTANTS
  Capsules <- MCCapsules
  Doc <- MCDoc
  Genuine <- MCGenuine
  Proposals <- MCProposals
  Registered = {"amount", "region", "payee"}
  Discharges <- MCDischarges
  Threads = {gateway, other}
  Gateway = gateway
  Calls <- MCCalls
  MaxTime = 2
  Lag = 1
  NodeIds = {1, 2, 3, 4}
  Declarations <- MCDeclarations
  Scale = 10
  SeverityThreshold = 4
  ReachThreshold = 20
  MinimumConfidence = 60
  PreventAutomatedBlocking = TRUE
  Approval <- MCApproval
  Amendments <- MCAmendments
  Sites <- MCSites
INVARIANTS
  GraphInv AcceptedIffAcyclic ReachIsDownstream ConfidenceIsWeakest
  VerifierInv LineageIsAttenuated AuthorityIsInherited ObligationsAreInherited RevocationBites
  ApprovalsKeepToTheirScope RevisionsAdvance
  ResolutionIsOrderFree AnotherBlockNeverLoosens BlockIffUnanimous
  ProceedsWithApproval ProceedsUnderLiveAuthority
PROPERTIES LearnedRevocationStays EvaluationEnds
CHECK_DEADLOCK FALSE
