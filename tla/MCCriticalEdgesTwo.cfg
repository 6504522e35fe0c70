CONSTANTS
  Blocks = {0, 1, 2, 3}
  Entry = 0
  Functions <- BranchFunctions
SPECIFICATION Spec
INVARIANTS
  NoCriticalEdges
