\* Other passes of the pipeline free and allocate instructions between two runs.
CONSTANTS
  Addrs = {1, 2, 3}
  ReusesAddresses = TRUE
  Orders <- SharedOrders
  Functions <- MCFunctions
SPECIFICATION Spec
INVARIANTS
  EliminatesUnused
