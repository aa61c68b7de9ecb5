CONSTANTS
  Modes = {"auto"}
  Downloads = {"official"}
  CrashAt = {"running"}
  TrustLag = 2
  MaxTip = 4
  MaxCrashes = 1
SPECIFICATION Spec
INVARIANTS RestartsResume
CHECK_DEADLOCK FALSE
