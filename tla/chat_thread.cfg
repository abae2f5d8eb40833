SPECIFICATION MCSpec
CONSTANTS
  None = None
  c1 = c1  c2 = c2
  Convs = {c1, c2}
  MaxMessages = 3
  MaxEvents = 1
  PageSize = 2
INVARIANTS
  ThreadInv
PROPERTIES
  MarkerMovesBackOnly
  OnlyLateAnswersMix
