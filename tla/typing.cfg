CONSTANTS
  None = None
  Members = {m1, m2}
  Convs = {c1, c2}
  MaxStarts = 2
  MaxEvents = 2
SPECIFICATION Spec
INVARIANT TypingInv
PROPERTIES
  LabelGoesAway
  MisledOnlyBySwitching
