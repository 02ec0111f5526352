SPECIFICATION MCSpec
CONSTANTS
  Limit = 2
  MaxOutput = 2
  Values <- MCValues
  Log = Log
  Close = Close
  None = None
  MaxFaults = 2
  Paths <- MCPaths
  Tracked <- MCTracked
  Ignored <- MCIgnored
  Entries <- MCEntries
  New = New
  Absent = Absent
  MaxEdits = 2
  MaxCrashes = 1
  MaxCommits = 2
INVARIANTS
  VerdictEarned
  MeasurementReproducible
  PatchFaithful
  RecoveryKeepsResult
PROPERTIES
  MeasurementUsed
