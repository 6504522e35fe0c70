\* An invariant value is used after its loop.
CONSTANTS
  Blocks = {0, 1, 2, 3, 4}
  Entry = 0
  Instrs = {1, 2, 3, 4, 5, 6}
  Functions <- UsedAfter
SPECIFICATION Spec
PROPERTIES
  Returns
