SPECIFICATION Spec
CONSTANTS
  None = None
  a1 = a1  a2 = a2  a3 = a3
  Accounts = {a1, a2, a3}
  MediaIds = {m1}
  Requests = {r1}
  Sizes = {1}
  MaxParts = 1
  DefaultLimit = 1
  InitialAccounts <- MCThreeAccounts
  ForceChoices = {}
SYMMETRY RequestSymmetry
PROPERTIES
  SwapTakesEffect
