SPECIFICATION ModeSpec
CONSTANTS
  Mtus <- MCMtus
  Sdks <- MCSdks
  Formats <- MCFormats
  Options <- MCOptions
  SetSinkMayFail = FALSE
  FrameSizes <- MCFrameSizes
  RawCycles <- MCRawCycles
  ByteRates <- MCByteRates
  MaxCycles = 6
INVARIANTS ModeTypeOK OverheadSafe OnePacketPerCycle AverageKept ExtraFrameFits
PROPERTIES CacheOnlyTightens
