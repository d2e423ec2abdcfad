SPECIFICATION FairSpec
CONSTANTS
  Syncers = {poller}
  poller = poller
  Overlap = FALSE
  Settling <- SettlingAll
  Cycles = 1
  MaxAttempts = 1
  MaxFaults = 1
PROPERTIES
  StoredStopEndsPosition
