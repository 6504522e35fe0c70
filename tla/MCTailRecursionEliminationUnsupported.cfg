CONSTANTS
  P = 3
  Modulus = 3
  Fuel = 6
  Functions <- Unsupported
SPECIFICATION ElimSpec
INVARIANTS
  ResultsKept
  AllocasMoved
