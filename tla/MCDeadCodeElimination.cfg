\* No address is reused: the pass is alone in the pipeline.
CONSTANTS
  Addrs = {1, 2, 3, 4, 5, 6}
  ReusesAddresses = FALSE
  Orders <- ApartOrders
  Functions <- MCFunctions
SPECIFICATION Spec
INVARIANTS
  SurvivorsExact
PROPERTIES
  ErasesOnlyBeforeDoomedUsers
  Returns
