SPECIFICATION RecalcSpec
CONSTANTS
  MaxAccounts = 2
  InitialAccounts = 1
  MaxBytes = 2
  BatchSize = 1
  Givers = {g1}
PROPERTIES
  OnlyLateSavesDoHarm
  CompletedRunVisitsAll
  RunsUntilFailure
  EventuallyBalanced
