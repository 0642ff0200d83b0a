SPECIFICATION FairSpec
CONSTANTS
  Conn = {c1, c2}
  Idle = Idle
  CHUNK = 3
  Lengths <- MCLengths
INVARIANTS
  PanicsAtMultiples
  InTimeIsWhole
PROPERTIES
  MessagesEnd
CHECK_DEADLOCK FALSE
