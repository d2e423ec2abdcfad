SPECIFICATION OperatorSpec
CONSTANTS
  ProposalIds <- TwoIds
  SubmitStatuses = {"GENERATED", "PENDING_APPROVAL"}
  Risks = {1}
  Portfolios <- CleanAndBreach
  MaxDrawdown = 2
  MaxPositions = 2
  MaxRisk = 2
  LeastOpenRisk = 0
  MaxVersion = 2
  MaxApprovals = 2
  Senders = {"mike", "ana", "luma"}
  Operators = {"mike", "ana"}
  JsonSenders = {"luma"}
  Threads = {t1, t2}
  t1 = t1
  t2 = t2
  Writers = {"mike", "ana"}
  MaxOrders = 2
SYMMETRY PoolThreads
INVARIANTS
  WriteTypeOK
  WritesWithinArms
  PlacementsAudited
  CancellationsAreFinal
PROPERTIES
  OpensWhatWasApproved
