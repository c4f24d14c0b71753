SPECIFICATION Spec
CONSTANTS
  Geometries <- MCGeometries
  MaxBurst = 3
  MaxAsk = 2
  MaxOffered = 15
  MaxUnderruns = 2
  Silence = Silence
INVARIANTS
  TypeOK
  NoDataRace
  WholeFrames
  EveryByteAccounted
PROPERTIES
  ImplementsFrameQueue
