SPECIFICATION FairSpec
CONSTANTS
  Symbols = {btc, eth}
  btc = btc
  eth = eth
  Processes = {live, second}
  live = live
  second = second
  UniverseLimit = 2
  Listings <- SomeListings
  MaxFaults = 1
  Runs <- SomeRuns
  MaxRuns = 2
  StopAfter = 2
INVARIANTS
  TypeOK
  RefreshInstalled
  AloneDecides
  FreshProposals
  LoopAccounts
PROPERTY LoopsEnd
CHECK_DEADLOCK FALSE
