SPECIFICATION LspSpec
CONSTANTS
  Contents = {x, y}
  NoText = none
  MaxDocs = 1
  LspActs = 2
INVARIANT LatestState
CHECK_DEADLOCK FALSE
