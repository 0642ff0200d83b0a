SPECIFICATION FairSpec
CONSTANTS
  Node = {minnie, mickey}
  KnownAtFirst <- NobodyKnown
  MaxConnects = 2
  MaxExits = 2
  MaxHandlers = 3
INVARIANTS
  KnowsBack
  SomeoneIsSaved
PROPERTIES
  RegistrationEnds
CHECK_DEADLOCK FALSE
