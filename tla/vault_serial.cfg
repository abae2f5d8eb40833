SPECIFICATION Spec
CONSTANTS
  None = None
  a1 = a1  a2 = a2  a3 = a3
  Accounts = {a1, a2, a3}
  MediaIds = {m1, m2}
  Requests = {r1}
  Sizes = {1, 2}
  MaxParts = 1
  DefaultLimit = 3
  InitialAccounts <- MCTwoAccounts
  ForceChoices = {TRUE, FALSE}
SYMMETRY MediaSymmetry
INVARIANTS
  VaultSound
  ReadersAgree
PROPERTIES
  KeepsLedger
