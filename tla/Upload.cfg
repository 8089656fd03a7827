SPECIFICATION FairSpec
CONSTANTS
  f1 = f1
  a = a
  Calls = {1, 2, 3, 4}
  Files = {f1}
  Names = {a}
  FileOf <- OneFile
  NameOf <- OneName
  N = 2
  Slots = {0, 1, 2, 3}
  MaxTickets = 2
  Hashed = TRUE
  Exclusive = TRUE
  RenameMayFail = TRUE
  MaxGrowth = 1
  FaultBudgets <- MCFaults
INVARIANT CompletedIsIntact
PROPERTIES PartialOnlyGrows  EveryFileArrives
CHECK_DEADLOCK FALSE
