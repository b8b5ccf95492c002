\* The order of constraints within a segment, as documented.
SPECIFICATION Spec
CONSTANTS
  Programs <- WiringPrograms
  Routines <- WiredRoutines
  Errors   <- MCErrors
  P        = 17
  N        = 4
  Xs       <- PointsX
  Ys       <- PointsY
INVARIANT PlacedInEmissionOrder
