\* One function per pass object: the order of the deletions.
CONSTANTS
  Blocks = {0, 1, 2, 3}
  Entry = 0
  Width = 1
  Adds = {10, 11}
  Phis = {20}
  Args = {30}
  ReusesAddresses = FALSE
  Functions <- MCFunctions
SPECIFICATION Spec
INVARIANTS
  SuccessorsExist
