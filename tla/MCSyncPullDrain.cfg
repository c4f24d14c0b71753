SPECIFICATION RingSpec
CONSTANTS
  Cap = 5
  Tunings <- MCTunings
  Base = 1
  BPF = 3
  Remainder = 1
  MaxBurst = 2
INVARIANTS
  OnlyPoppedBytesCounted
