SPECIFICATION DirectSpec
CONSTANTS
  None = None
  a1 = a1
  Limit = 2
  Accounts = {a1}
  Uploads = {u1, u2}
  Requests = {r1, r2}
  Sizes = {1}
  FinalSizes = {2}
  MaxParts = 3
  MaxRows = 1
  InitialRows <- MCRows
SYMMETRY BothSymmetry
CHECK_DEADLOCK FALSE
INVARIANTS
  DirectInv
PROPERTIES
  FreshSettlementsKeepBooks
  StrandedOnlyByExpiryOrFailure
