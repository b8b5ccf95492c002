\* Circuits with wires and circuits at the limits of the rank.
SPECIFICATION Spec
CONSTANTS
  Programs <- MCCircuits
  Routines <- WiredRoutines
  Errors   <- MCErrors
INVARIANTS RecordsDepthFirst FingerprintsClassify
