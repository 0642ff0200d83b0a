SPECIFICATION FairSpec
CONSTANTS
  alice = alice
  minnie = minnie
  mickey = mickey
  NoAddress = NoAddress
  NoBlock = NoBlock
  Genesis = Genesis
  Node = {minnie, mickey}
  Address = {minnie, mickey}
  MinerNode = {minnie, mickey}
  Joined = {minnie}
  StartingBalances <- MCStartingBalances
  COINBASE_AMT_ALLOWED = 2
  UintRange = 64
  CONFIRMED_DEPTH = 1
  Payment <- NobodyPays
  MaxNonce = 0
  MaxCopies = 4
  MaxBlocks = 2
PROPERTIES
  FollowsLongestChain
  BlocksSpread
  BlocksGetUnstuck
CHECK_DEADLOCK FALSE
