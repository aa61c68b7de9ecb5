CONSTANTS
  Modes = {"auto"}
  Downloads = {"official", "other"}
  CrashAt = {}
  TrustLag = 2
  MaxTip = 4
  MaxCrashes = 0
SPECIFICATION Spec
INVARIANTS RunsOnVerifiedGenesis
CHECK_DEADLOCK FALSE
