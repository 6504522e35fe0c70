\* The pass object visits blocks it has visited before, with no constant branch about.
CONSTANTS
  Blocks = {0, 1, 2, 3}
  Entry = 0
  Width = 1
  Adds = {10, 11}
  Phis = {20}
  Args = {30}
  ReusesAddresses = TRUE
  Functions <- OpenFunctions
SPECIFICATION Spec
INVARIANTS
  RemovesOnlyUnexecutable
