CONSTANTS
  n1 = n1
  n2 = n2
  n3 = n3
  Nodes <- PairNodes
  Quorums <- PairQuorums
  Txs <- AnyTxs
  SkipHeights = {2, 3}
  MigrationsFail = FALSE
  MaxHeight = 4
  MaxFaults = 1
  MaxMistakes = 2
  MaxSyncs = 1
SPECIFICATION Spec
INVARIANTS UpgradeWasDue NoDuePlanOutlivesItsBlock
PROPERTIES ImplementsAbstractUpgrade
CHECK_DEADLOCK FALSE
SYMMETRY Peers
