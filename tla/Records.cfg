SPECIFICATION MCSpec
CONSTANTS
  RunIds = {r1, r2, r3}
  None = None
  MaxFaults = 4
  MaxOrphans = 2
  EvidenceFaults = 2
  MaxOutrun = 2
INVARIANTS
  EvidenceFrozen
  SignedReplays
  CompoundingStands
PROPERTIES
  ReconciliationFinds
  CreationAnswered
  CreatesKeyed
