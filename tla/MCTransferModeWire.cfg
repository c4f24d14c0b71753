SPECIFICATION ModeSpec
CONSTANTS
  Mtus <- MCMtus
  Sdks <- MCSdks
  Formats <- MCFormats
  Options <- MCOptions
  SetSinkMayFail = TRUE
  FrameSizes <- MCFrameSizes
  RawCycles <- MCRawCycles
  ByteRates <- MCByteRates
  MaxCycles = 6
INVARIANTS OverheadSafe
