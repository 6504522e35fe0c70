\* One loop per pass object.
CONSTANTS
  Blocks = {0, 1, 2, 3, 4}
  Entry = 0
  Instrs = {1, 2, 3, 4, 5, 6}
  Functions <- MCFunctions
SPECIFICATION Spec
INVARIANTS
  HoistsExactly
  DefinitionsDominateUses
PROPERTIES
  Returns
