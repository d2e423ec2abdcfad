SPECIFICATION FairSpec
CONSTANTS
  Syncers = {poller}
  poller = poller
  Overlap = FALSE
  Settling <- SettlingExits
  Cycles = 1
  MaxAttempts = 2
  MaxFaults = 1
INVARIANTS
  TypeOK
  RecordsAreComplete
  UnprotectedOnlyIfBroken
  EventsOnce
  LeftoverOrdersAlerted
PROPERTIES
  ClosedStaysClosed
  PollerCatchesUp
  StopEndsPosition
