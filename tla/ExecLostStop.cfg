SPECIFICATION FairSpec
CONSTANTS
  build = build
  all = all
  ci = ci
  NoProfile = NoProfile
  Singles = {build}
  Plan <- PlanOnce
  MaxRuns = 2
  MaxEpoch = 0
  Stoppers = {"stop"}
  Drainers = {}
PROPERTIES
  CompoundStopReturns
CHECK_DEADLOCK FALSE
