SPECIFICATION MCSpec
CONSTANTS
  Limit = 4
  MaxOutput = 4
  MaxTurns = 2
  MaxCount = 1
  Unknown = Unknown
  MaxBudget = 3
  Overrun = 1
INVARIANTS
  CaptureFaithful
  StartedAtMostOnce
  SuccessMeansRan
  UsageComplete
  WithinBudget
PROPERTIES
  PoolBounded
