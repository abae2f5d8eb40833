SPECIFICATION Spec
CONSTANTS
  None = None
  a1 = a1  a2 = a2  a3 = a3
  Accounts = {a1, a2}
  MediaIds = {m1}
  Requests = {r1, r2}
  Sizes = {1, 2}
  MaxParts = 1
  DefaultLimit = 2
  InitialAccounts <- MCOneAccount
  ForceChoices = {TRUE}
SYMMETRY RequestSymmetry
INVARIANTS
  VaultInv
PROPERTIES
  FreshStepsKeepBooks
  FreshStepsKeepPrimary
  FreshStepsKeepMediaLive
  PromoteTakesEffect
