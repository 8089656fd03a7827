SPECIFICATION Spec
CONSTANTS
  f1 = f1
  a = a
  Calls = {1, 2}
  Files = {f1}
  Names = {a}
  FileOf <- OneFile
  NameOf <- OneName
  N = 2
  Slots = {0, 1, 2}
  MaxTickets = 2
  Hashed = TRUE
  Exclusive = FALSE
  RenameMayFail = FALSE
  MaxGrowth = 0
  FaultBudgets <- NoFaults
INVARIANT CompletedIsIntact
CHECK_DEADLOCK FALSE
