CONSTANTS
  ModuleFunctions = {f1, f2}
  MaxLoops = 2
  Pipelines <- MCPipelines
SPECIFICATION PipelineSpec
INVARIANTS
  CachedTreesFit
  WorksOnPresentGraph
  ObjectsMeetOnce
