CONSTANTS
  Blocks = {0, 1, 2, 3, 4, 5, 6}
  Entry = 0
  N = 6
  Fresh = 8
  MaxPath = 12
  Args = {51, 52, 53}
  Environments <- MCEnvironments
  CutFunctions <- MCFunctions
SPECIFICATION PRESpec
INVARIANTS
  SameResults
  NoMoreWork
  LeadersStay
  RedundancyRemoved
PROPERTIES
  Finishes
