SPECIFICATION Spec
CONSTANTS
  NotOpen = NotOpen
  Multipliers <- MCMultipliers
  SampleSizes <- MCSampleSizes
  Channels <- MCChannels
  Configs <- MCConfigs
INVARIANTS TypeOK GatesReachable PlaysAtWireSpeed SizedAlike
