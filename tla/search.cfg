SPECIFICATION FairSpec
CONSTANTS
  UintRange = 14
  MiningRounds = 4
  WinningSets <- MCWinningSets
  MaxSearches = 2
INVARIANTS
  SmallestProof
PROPERTIES
  ProofIsFound
CHECK_DEADLOCK FALSE
