\* The field of 17 elements has a multiplicative subgroup of order 16; eight
\* coefficients with runs split after one zero, seven-bit integers in limbs of
\* three bits.
SPECIFICATION Spec
CONSTANTS
  P = 17
  N = 2
  S = 4
  ROOT = 3
  Threads = 1
  GAP_TOLERANCE = 1
  LimbBits = 3
  UendoBits = 7
  MaxOps = 2
  Supports = {0, 1, 2, 128, 146, 165, 73, 200, 255, 126, 7, 99, 154, 33, 60, 195, 239, 17, 90, 211}
CHECK_DEADLOCK FALSE   \* the operations on a polynomial are bounded
INVARIANTS SparseIsDense ReadsMeet UtilitiesCorrect NumbersCorrect GatePolynomialAgrees
