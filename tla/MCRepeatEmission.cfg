SPECIFICATION Spec
CONSTANTS
  Symbols = {btc, eth}
  btc = btc
  eth = eth
  Processes = {live, second}
  live = live
  second = second
  UniverseLimit = 2
  Listings <- SameListings
  MaxFaults = 0
  Runs <- SomeRuns
  MaxRuns = 2
  StopAfter = 2
INVARIANT NothingRepeated
CHECK_DEADLOCK FALSE
