\* Every small circuit, one thread.
SPECIFICATION Spec
CONSTANTS
  Programs <- TracePrograms
  Routines <- MCRoutines
  Errors   <- MCErrors
INVARIANTS FirstErrorWins
PROPERTIES ReturnsDepthFirstTrace
