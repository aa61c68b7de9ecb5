CONSTANTS
  Modes <- AllModes
  Downloads <- AllDownloads
  CrashAt <- AnyPoint
  TrustLag = 2
  MaxTip = 5
  MaxCrashes = 2
SPECIFICATION Spec
INVARIANTS TypeOK AnchorIsOfThisRun
PROPERTIES AutoKeepsState
CHECK_DEADLOCK FALSE
