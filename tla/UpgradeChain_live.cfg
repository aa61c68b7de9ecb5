CONSTANTS
  n1 = n1
  n2 = n2
  n3 = n3
  Nodes <- MCNodes
  Quorums <- MCQuorums
  Txs <- AnyTxs
  SkipHeights = {}
  MigrationsFail = FALSE
  MaxHeight = 3
  MaxFaults = 1
  MaxMistakes = 1
  MaxSyncs = 0
SPECIFICATION FairSpec
PROPERTIES ChainPassesUpgrade
CHECK_DEADLOCK FALSE
