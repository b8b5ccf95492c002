\* Every script, with both allocators and all inputs.
SPECIFICATION Spec
CONSTANTS
  P = 7
  Threads = 1
  N = 1
  S = 1
  ROOT = 6
  BITS = 4
  ZETA = 2
  GENERATOR = 3
  CURVE_B = 3
  Scripts <- MCScripts
CHECK_DEADLOCK FALSE   \* a script ends
INVARIANTS
  CircuitsMeanTheirWitness
  EmulatorsAgree
  GadgetsCompute
