\* n = 5: some of the circuits are one gate too large.
SPECIFICATION AllSpec
CONSTANTS
  Programs <- AssemblyPrograms
  Routines <- MCRoutines
  Errors   <- MCErrors
  N        = 5
  Alpha    = 99
INVARIANTS AcceptedCircuitsAssemble PolynomialDepthFirst
