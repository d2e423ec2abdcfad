SPECIFICATION Spec
CONSTANTS
  Syncers = {poller}
  poller = poller
  Overlap = FALSE
  Settling <- SettlingTp1
  Cycles = 1
  MaxAttempts = 1
  MaxFaults = 0
INVARIANTS
  FilledTp1Shows
