SPECIFICATION FairSpec
CONSTANTS
  Hdr = 2
  MaxSock = 2
  MaxErrors = 2
INVARIANTS TypeOK OnlyAllowedPlayed NothingPlayedAfterSignal
PROPERTIES ShutdownObserved TickWhenSilent
\* main() returns
CHECK_DEADLOCK FALSE
