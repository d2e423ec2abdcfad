SPECIFICATION Spec
CONSTANTS
  ProposalIds = {p1}
  p1 = p1
  rest = rest
  telegram = telegram
  Requests = {rest, telegram}
  Processes = {rest, telegram}
  ProcessOf <- Apart
  Kinds <- AllKinds
  SubmitStatuses <- PendingOrApproved
  MaxApprovals = 1
  MaxCrashes = 1
VIEW WhatMatters
SYMMETRY Renamings
INVARIANTS
  TypeOK
  NoOpeningWithoutApproval
  QuietHaltStays
  OpeningsBoundedByCrashes
PROPERTY QuietHaltFreezes
