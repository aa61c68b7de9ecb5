CONSTANTS
  Modes = {"auto"}
  Downloads = {"official"}
  CrashAt <- Priming
  TrustLag = 2
  MaxTip = 5
  MaxCrashes = 3
SPECIFICATION FairSpec
PROPERTIES EventuallySynced
CHECK_DEADLOCK FALSE
