SPECIFICATION Spec
CONSTANTS
  ProposalIds = {p1}
  p1 = p1
  rest = rest
  telegram = telegram
  Requests = {rest, telegram}
  Processes = {rest, telegram}
  ProcessOf <- Apart
  Kinds <- Trading
  SubmitStatuses = {"PENDING_APPROVAL"}
  MaxApprovals = 1
  MaxCrashes = 0
PROPERTY HaltEndsByUnhalt
