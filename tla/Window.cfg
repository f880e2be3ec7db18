SPECIFICATION FairSpec
CONSTANTS
  MaxInstances = 1
  MaxHandoffs = 2
  MaxEdits = 1
  MaxSends = 1
  MaxPosts = 2
  MaxInFlight = 1
  MaxStalls = 1
PROPERTIES MovesDraft HandoffsEnd
CHECK_DEADLOCK FALSE
