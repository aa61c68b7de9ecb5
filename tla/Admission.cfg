CONSTANTS
  Accounts = {"a", "b"}
  Packets = {"p"}
  Txs <- MCTxs
  SimulationGasLimit = 4
  Nodes <- MCNodes
  MinPrice <- MCMinPrice
  Genesis <- MCGenesis
  OtherBlocks <- MCBlocks
  MaxBlockTxs = 2
  MaxPool = 2
  MaxOthers = 1
  MaxRestarts = 1
SPECIFICATION Spec
INVARIANTS TypeOK ExactlyOnce OnlyExecutedArePaid NodesAgree PoolIsReady
INVARIANTS RelayersDoNotRace NobodyIsLockedOut SimulationsAreLimited PositionsInBlock
PROPERTIES ImplementsLedger
CHECK_DEADLOCK FALSE
