\* Two application steps, so 17 circuits and a domain of 32; 22 claims in
\* four groups of six, the last with places left over.
SPECIFICATION Spec
CONSTANTS
  P = 12289
  N = 2
  S = 6
  ROOT = 7311
  Threads = 1
  BITS = 6
  ZETA = 6240
  GENERATOR = 11
  NumGroups = 4
  GroupSize = 6
  RegistryTerms <- MCRegistryTerms
  HEADER_SIZE = 2
  T = 3
  RATE = 2
  FULL_ROUNDS = 2
  PARTIAL_ROUNDS = 2
  RoundConstants <- MCRoundConstants
  MdsMatrix <- MCMdsMatrix
  RAGU_TAG <- MCTag
  Log2Circuits = 5
  Steps <- MCSteps
  DataValues = {40}
  Randomness = {123, 4567}
  MaxFuses = 3
CHECK_DEADLOCK FALSE   \* the fuses are bounded
INVARIANTS
  CircuitsAcceptTheFuse
  FoldingKeepsEveryClaim
  CommitmentsOpen
  EveryPcdVerifies
  EveryClaimIsCompared
