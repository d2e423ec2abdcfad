SPECIFICATION Spec
CONSTANTS
  MinConfidence = 70
  MaxSpread = 8
  MinListingAge = 72
  RefreshWindow = 4
  MaxRisk = 100
  MaxPositions = 2
  MaxDrawdown = 200
  Payloads <- SomePayloads
  Quotes <- SomeQuotes
  Portfolios <- SomePortfolios
  Prices <- SomePrices
  LiveLifetime = 1
  DefaultRisk = 50
  Dollar = 2
  MaxAttempts = 2
  MaxClock = 2
INVARIANTS
  JournalTellsPosition
  ValidatedLadderInOrder
  LiveProposalsPassValidator
  LiveOpensOnlyAtItsEquity
PROPERTY LifecycleSpec
CHECK_DEADLOCK FALSE
