SPECIFICATION FairSpec
CONSTANTS
  minnie = minnie
  mickey = mickey
  NoAddress = NoAddress
  NoBlock = NoBlock
  NoGenesis = NoGenesis
  Node = {minnie, mickey}
  Address = {minnie, mickey}
  StartingBalances <- MCStartingBalances
  COINBASE_AMT_ALLOWED = 2
  UintRange = 64
  CONFIRMED_DEPTH = 1
  Payment <- MinniePays
  MaxNonce = 1
  MaxCopies = 1
  MaxBlocks = 3
  KnownAtFirst <- EveryoneKnown
  MayMeet <- NobodyMeets
  MaxProcesses <- NobodyRestarts
INVARIANTS
  AgreeAtRest
PROPERTIES
  FundsStayAvailable
  BlocksGetUnstuck
CHECK_DEADLOCK FALSE
