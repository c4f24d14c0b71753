SPECIFICATION FairSpec
CONSTANTS
  Formats = {f1, f2}
  Spurious = Spurious
  None = None
  GateFill = 2
  Cooldown = 2
  GateWait = 2
  CleanupBudget = 3
  CleanupRetry = 1
  BackoffFirst = 1
  BackoffAgain = 2
  BackoffMax = 2
  Grace = 1
  GraceExtend = 1
  GraceTotal = 3
  PauseAfter = 1
  ReleaseAfter = 3
  MaxCleanups = 3
INVARIANTS
  TypeOK
  OneSync
  RightFormat
  AlwaysAWayBack
  NeverDeaf
PROPERTIES
  ImplementsSession
  NoSyncLost
  AudioReturns
  StartedSyncReleased
