SPECIFICATION Spec
INVARIANTS ContractsReachIBC
CHECK_DEADLOCK FALSE
