CONSTANTS
  GenesisDocs <- Docs
  MaxCoins = 6
  MaxTxs = 2
SPECIFICATION AppSpec
INVARIANTS TypeOK NewNeverPanics CallsFindTheirKeepers
INVARIANTS ChainTypeOK NothingIsMissing BooksBalance PermissionsSuffice
PROPERTIES NothingLeftOver
CHECK_DEADLOCK FALSE
