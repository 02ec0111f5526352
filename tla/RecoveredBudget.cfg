SPECIFICATION Spec
CONSTANTS
  Cycles = {c1}
  Procs = {p1}
  Modes = {"proposal"}
  Decisions = {"approve"}
  Discoveries = {d1}
  MaxFaults = 1
  Free = Free
  Stale = Stale
  NoCycle = NoCycle
  Fingerprint <- MCFingerprint
INVARIANTS
  BudgetEnforced
