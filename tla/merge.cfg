SPECIFICATION Spec
CONSTANTS
  minnie = minnie
  mickey = mickey
  NoAddress = NoAddress
  NoBlock = NoBlock
  NoGenesis = NoGenesis
  Node = {minnie, mickey}
  Address = {minnie, mickey}
  StartingBalances <- MCStartingBalances
  COINBASE_AMT_ALLOWED = 2
  UintRange = 64
  CONFIRMED_DEPTH = 1
  Payment <- MinnieTries
  MaxNonce = 1
  MaxCopies = 0
  MaxBlocks = 3
  KnownAtFirst <- NobodyKnown
  MayMeet <- AllMeet
  MaxProcesses <- MinnieRestarts
CONSTRAINT MickeyFindsOne
INVARIANTS
  NoReplay
  NonceIsFresh
  MiningOnHead
  HeadIsLongest
  LedgerAgreement
  HonestBlocksReplay
PROPERTIES
  FollowsLongestChain
VIEW WithoutHistory
CHECK_DEADLOCK FALSE
