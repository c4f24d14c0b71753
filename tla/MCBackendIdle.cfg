SPECIFICATION FairSpec
CONSTANTS
  Formats = {f1}
  Spurious = Spurious
  None = None
  GateFill = 1
  Cooldown = 1
  GateWait = 1
  CleanupBudget = 2
  CleanupRetry = 1
  BackoffFirst = 1
  BackoffAgain = 2
  BackoffMax = 2
  Grace = 1
  GraceExtend = 1
  GraceTotal = 2
  PauseAfter = 1
  ReleaseAfter = 2
  MaxCleanups = 2
PROPERTIES
  IdleSyncReleased
