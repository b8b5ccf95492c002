\* Every small circuit, every schedule of its tasks.
SPECIFICATION Spec
CONSTANTS
  Programs <- TracePrograms
  Routines <- MCRoutines
  Errors   <- MCErrors
INVARIANTS TypeOK PathsUnique ScopesOwnSegments EvalAccounts
PROPERTIES ReturnsDepthFirstTrace Terminates
