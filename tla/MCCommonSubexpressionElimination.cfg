CONSTANTS
  Blocks = {0, 1, 2, 3}
  Entry = 0
  N = 4
  Args = {11, 12}
  Functions <- MCFunctions
SPECIFICATION Spec
INVARIANTS
  ReplacedByEqualValue
  ReplacedByAvailable
  UsesStayDefined
  NoneLeftToEliminate
