SPECIFICATION Spec
CONSTANTS
  Syncers = {poller, rest}
  poller = poller
  rest = rest
  Overlap = TRUE
  Settling <- SettlingStop
  Cycles = 1
  MaxAttempts = 2
  MaxFaults = 0
SYMMETRY Callers
VIEW ButJournal
CONSTRAINT ThreeAtATime
INVARIANTS
  RecordsNeverAhead
  UnprotectedOnlyIfBroken
