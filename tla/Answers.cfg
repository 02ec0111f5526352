SPECIFICATION MCSpec
CONSTANTS
  Opportunities <- MCOpportunities
  Eps = 1
  MaxOpportunities = 4
  None = None
  Width = 2
  Atoms = {1, 2}
INVARIANTS
  ReplacementRanked
  ReloadIsStable
  OrderIrrelevant
  NothingIgnored
