SPECIFICATION Spec
CONSTANTS
  alice = alice
  minnie = minnie
  mickey = mickey
  NoAddress = NoAddress
  NoBlock = NoBlock
  Genesis = Genesis
  Node = {minnie, mickey}
  Address = {minnie, mickey}
  MinerNode = {minnie, mickey}
  Joined = {minnie, mickey}
  StartingBalances <- MCStartingBalances
  COINBASE_AMT_ALLOWED = 2
  UintRange = 64
  CONFIRMED_DEPTH = 1
  Payment <- MinniePays
  MaxNonce = 2
  MaxCopies = 0
  MaxBlocks = 2
INVARIANTS
  SyncReturnsAbandoned
CHECK_DEADLOCK FALSE
