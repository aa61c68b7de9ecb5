CONSTANTS
  n1 = n1
  n2 = n2
  n3 = n3
  Nodes <- MCNodes
  Quorums <- MCQuorums
  Txs <- UpgradeTxs
  SkipHeights = {2, 3}
  MigrationsFail = FALSE
  MaxHeight = 3
  MaxFaults = 1
  MaxMistakes = 2
  MaxSyncs = 0
SPECIFICATION Spec
INVARIANTS TypeOK UpgradeAtomic Agreement
PROPERTIES BinaryMatchesState
CHECK_DEADLOCK FALSE
SYMMETRY Peers
