CONSTANTS
  Blocks = {0, 1, 2, 3, 4}
  Entry = 0
  Width = 3
  Phis = {5, 6}
  Instrs = {11, 12, 13}
  Turns = 9
  Functions <- Unsupported
SPECIFICATION Spec
INVARIANTS
  SumsReachLatch
  SumIsProduct
