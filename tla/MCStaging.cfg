\* Seven gates: the SYSTEM gate, up to four of the stages and two of the body.
SPECIFICATION Spec
CONSTANTS
  P = 17
  N = 7
  S = 4
  ROOT = 3
  Threads = 1
  GAP_TOLERANCE = 4
  MaxStages = 2
  MaxBody = 2
  StageTypes <- MCStageTypes
  Alpha = 5
  Witnesses <- MCWitnesses
CHECK_DEADLOCK FALSE   \* a circuit's body is bounded
INVARIANTS StagesKeepTheirWires MasksAdmitStages BondingNeedsOnlyStages
