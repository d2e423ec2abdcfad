SPECIFICATION Spec
CONSTANTS
  ProposalIds = {p1, p2}
  p1 = p1
  p2 = p2
  SubmitStatuses = {"PENDING_APPROVAL"}
  Risks = {2, 4}
  Portfolios <- AllPortfolios
  MaxDrawdown = 2
  MaxPositions = 2
  MaxRisk = 5
  LeastOpenRisk <- MinusOne
  MaxVersion = 2
  MaxApprovals = 2
  LowFreeRisk = 1
SYMMETRY Identifiers
INVARIANTS
  TypeOK
  SafetyCoherent
  AuditReplaysSafety
  ReservedWithinBudget
  OpenedByApproval
  DashboardTellsSession
PROPERTIES
  HaltFreezesTrading
  ExhaustedBudgetFreezes
  HumanGateSpec
