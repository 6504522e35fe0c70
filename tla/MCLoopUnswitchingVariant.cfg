CONSTANTS
  NB = 9
  N = 10
  Blocks = {0, 1, 2, 3, 4, 5, 6, 7, 8, 9, 10, 11, 12, 13, 14, 15, 16, 17, 18}
  Entry = 0
  Args = {51, 52, 53, 54, 55}
  LoopFunctions <- Unsupported
  Environments <- MCEnvironments
  Fuel = 16
SPECIFICATION UnswitchSpec
INVARIANTS
  UnswitchesInvariantsOnly
