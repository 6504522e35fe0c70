\* GVNPRE behind the printer walks a tree without the blocks it has just made.
CONSTANTS
  ModuleFunctions = {f1}
  MaxLoops = 1
  Pipelines <- PrintThenGVNPRE
SPECIFICATION PipelineSpec
INVARIANTS
  TreeIsPresent
