SPECIFICATION Spec
CONSTANTS
  alice = alice
  minnie = minnie
  mickey = mickey
  NoAddress = NoAddress
  NoBlock = NoBlock
  Genesis = Genesis
  Node = {alice, minnie, mickey}
  Address = {alice, minnie, mickey}
  MinerNode = {minnie, mickey}
  Joined = {alice, minnie, mickey}
  StartingBalances <- MCStartingBalances
  COINBASE_AMT_ALLOWED = 2
  UintRange = 64
  CONFIRMED_DEPTH = 1
  Payment <- AlicePays
  MaxNonce = 2
  MaxCopies = 1
  MaxBlocks = 3
CONSTRAINT PoolBounds
INVARIANTS
  TypeOK
  NoReplay
  GoldConservation
PROPERTIES
  TransactionsAreKept
CHECK_DEADLOCK FALSE
