\* n = 4 over F_17.
SPECIFICATION Spec
CONSTANTS
  Programs <- WiringPrograms
  Routines <- WiredRoutines
  Errors   <- MCErrors
  P        = 17
  N        = 4
  Xs       <- PointsX
  Ys       <- PointsY
INVARIANTS RegisteredCircuitsEvaluate EvaluationsAgree EvaluatesConstraints
           RefcountsExact FreeListSound TotalsAreSums
