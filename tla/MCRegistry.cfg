\* The field of 97 elements has a multiplicative subgroup of order 32, enough
\* for the 23 circuits of the nested registry; 28 generates it.
SPECIFICATION Spec
CONSTANTS
  P = 97
  N = 8
  S = 5
  ROOT = 28
  Threads = 1
  GAP_TOLERANCE = 4
  KeySpace = 97
  HEADER_SIZE = 3
  InternalsFit = TRUE
  Contents = {0, 1, 2}
  MaxObjects = 3
  MaxSteps = 3
  Wirings <- Direct
  Bondings <- MCBondings
  AppSteps <- MCAppSteps
  ObjectOf <- MCObjectOf
CHECK_DEADLOCK FALSE   \* a finalized registry does not change
INVARIANTS RegistryInterpolates RestrictionsAgree StepsFindTheirCircuits EncodingsIdentifyHeaders
