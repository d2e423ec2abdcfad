SPECIFICATION Spec
CONSTANTS
  ProposalIds = {p1}
  p1 = p1
  SubmitStatuses = {"PENDING_APPROVAL"}
  Risks = {1, 2}
  Portfolios <- CleanAndBreach
  MaxDrawdown = 2
  MaxPositions = 2
  MaxRisk = 3
  LeastOpenRisk = 0
  MaxVersion = 2
  MaxApprovals = 2
  LowFreeRisk = 1
PROPERTY ReapproveKeepsExecuted
