SPECIFICATION WatchFairSpec
CONSTANTS
  Cap = 4
  Tunings <- MCTunings
  Base = 1
  BPF = 3
  Remainder = 1
  MaxBurst = 2
  MaxUnderruns = 2
INVARIANTS
  WatchTypeOK
  OwnerAlone
  RealPopCovered
PROPERTIES
  HeadSurvives
  DeactivateReturns
  PlaybackFlows
  UnderrunReported
