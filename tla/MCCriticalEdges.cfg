CONSTANTS
  Blocks = {0, 1, 2, 3}
  Entry = 0
  Functions <- MCFunctions
SPECIFICATION Spec
INVARIANTS
  EdgesPreserved
  PhisListPredecessors
  SplitsCriticalEdges
PROPERTIES
  Returns
