SPECIFICATION Spec
CONSTANTS
  x = x
  y = y
  z = z
  Address = {x, y, z}
  NoAddress = NoAddress
  StartingBalances <- MCStartingBalances
  GenesisBalances <- MCGenesisBalances
  COINBASE_AMT_ALLOWED = 2
  UintRange = 64
  Transactions <- MCTransactions
  MaxOrder = 3
  MaxHeight = 1
INVARIANTS
  FilledBlocksReplay
  ListsKeepTheLedger
  OnlyNothingPanics
  BalancesAreExact
CHECK_DEADLOCK FALSE
