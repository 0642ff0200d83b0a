SPECIFICATION Spec
CONSTANTS
  minnie = minnie
  mickey = mickey
  NoAddress = NoAddress
  NoBlock = NoBlock
  NoGenesis = NoGenesis
  Node = {minnie, mickey}
  Address = {minnie, mickey}
  StartingBalances <- MCStartingBalances
  COINBASE_AMT_ALLOWED = 2
  UintRange = 64
  CONFIRMED_DEPTH = 1
  Payment <- NobodyPays
  MaxNonce = 0
  MaxCopies = 0
  MaxBlocks = 1
  KnownAtFirst <- NobodyKnown
  MayMeet <- AllMeet
  MaxProcesses <- NobodyRestarts
INVARIANTS
  NoStrandedBlocks
CHECK_DEADLOCK FALSE
