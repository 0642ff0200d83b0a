SPECIFICATION Spec
CONSTANTS
  alice = alice
  minnie = minnie
  mickey = mickey
  NoAddress = NoAddress
  NoBlock = NoBlock
  Genesis = Genesis
  Node = {minnie, mickey}
  Address = {minnie, mickey}
  MinerNode = {minnie, mickey}
  Joined = {minnie}
  StartingBalances <- MCStartingBalances
  COINBASE_AMT_ALLOWED = 2
  UintRange = 64
  CONFIRMED_DEPTH = 1
  Payment <- MickeyThenMinnie
  MaxNonce = 2
  MaxCopies = 0
  MaxBlocks = 3
CONSTRAINT ForkBounds
INVARIANTS
  MiningOnHead
  LedgerAgreement
  HonestBlocksReplay
  HeadIsLongest
  ChainsAreComplete
  NoStrandedBlocks
  RequestersRegistered
  NoReplay
PROPERTIES
  WalletStaysExact
  FundsStayCovered
  TransactionsAreKept
CHECK_DEADLOCK FALSE
