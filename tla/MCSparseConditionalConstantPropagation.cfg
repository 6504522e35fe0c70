\* One function per pass object.
CONSTANTS
  Blocks = {0, 1, 2, 3}
  Entry = 0
  Width = 1
  Adds = {10, 11}
  Phis = {20}
  Args = {30}
  ReusesAddresses = FALSE
  Functions <- MCFunctions
SPECIFICATION Spec
INVARIANTS
  TypeOK
  ExecutableIsReachable
  FoldsEverything
  UsesStayDefined
  PhisCoverPredecessors
PROPERTIES
  Returns
