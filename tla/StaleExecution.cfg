SPECIFICATION Spec
CONSTANTS
  Cycles = {c1}
  Procs = {p1, p2}
  Modes = {"proposal"}
  Decisions = {"approve"}
  Discoveries = {d1}
  MaxFaults = 1
  Free = Free
  Stale = Stale
  NoCycle = NoCycle
  Fingerprint <- MCFingerprint
INVARIANTS
  ExecutorOnlyWhileExecuting
