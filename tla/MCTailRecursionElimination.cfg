CONSTANTS
  P = 3
  Modulus = 3
  Fuel = 6
  Functions <- MCFunctions
SPECIFICATION ElimSpec
INVARIANTS
  SameResults
  AllocasApartMove
