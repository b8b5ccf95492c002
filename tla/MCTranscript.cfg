\* Eight events, two or three of them the tag's elements: two blocks, a run of
\* challenges longer than the rate, and two hand-overs.
SPECIFICATION Spec
CONSTANTS
  P = 17
  N = 1
  T = 3
  RATE = 2
  FULL_ROUNDS = 2
  PARTIAL_ROUNDS = 2
  RoundConstants <- MCRoundConstants
  MdsMatrix <- MCMdsMatrix
  Tags <- MCTags
  Messages = {0, 1, 2}
  MaxOps = 8
CHECK_DEADLOCK FALSE   \* the operations are bounded
INVARIANT ContinuesAcrossCircuits
PROPERTY ImplementsDuplex
