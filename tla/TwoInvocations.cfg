SPECIFICATION Spec
CONSTANTS
  Cycles = {c1, c2}
  Procs = {p1, p2}
  Modes = {"proposal"}
  Decisions = {"approve", "decline"}
  Discoveries = {}
  MaxFaults = 1
  Free = Free
  Stale = Stale
  NoCycle = NoCycle
  Fingerprint <- MCFingerprint
SYMMETRY Symmetry
CONSTRAINT Meeting
INVARIANTS
  MutualExclusion
  InvokedAtMostOnce
  ExecutionAuthorised
  OneExperimentPerFingerprint
PROPERTIES
  OnlyHolderWrites
  StagesLegal
