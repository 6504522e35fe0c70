\* All graphs of an entry and three more blocks, each with at most two successors.
CONSTANTS
  Blocks = {0, 1, 2, 3}
  Entry = 0
  MaxSuccs = 2
  Graphs <- MCGraphs
SPECIFICATION Spec
INVARIANTS
  DominatorsExact
  ImmediateExact
  NoRepeatOnPath
PROPERTIES
  ImplementsContract
