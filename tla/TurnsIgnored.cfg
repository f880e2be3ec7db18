SPECIFICATION TurnFairSpec
CONSTANTS
  MaxActs = 2
PROPERTY RunsComplete
CHECK_DEADLOCK FALSE
