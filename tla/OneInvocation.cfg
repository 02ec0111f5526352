SPECIFICATION FairSpec
CONSTANTS
  Cycles = {c1}
  Procs = {p1}
  Modes = {"proposal", "shadow"}
  Decisions = {"approve", "decline"}
  Discoveries = {d1}
  MaxFaults = 2
  Free = Free
  Stale = Stale
  NoCycle = NoCycle
  Fingerprint <- MCFingerprint
INVARIANTS
  TypeOK
  RunTracksStage
  RegisteredAtMostOnce
  OneBeadEach
  OneReceipt
  ShadowOnlyWatches
  PromotionJustified
  ClosedForCause
  SignedAfterConsequences
  SignatureBinds
  SignedFrozen
PROPERTIES
  StagesReported
  EveryCycleSettles
