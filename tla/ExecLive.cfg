SPECIFICATION RunsSpec
CONSTANTS
  build = build
  all = all
  ci = ci
  NoProfile = NoProfile
  Singles = {build}
  Plan <- PlanOnce
  MaxRuns = 3
  MaxEpoch = 1
  Stoppers = {}
  Drainers = {"load"}
  FileActs = 3
  MaxReloads = 1
INVARIANTS
  TypeOK
  DrainLeavesNothing
  Kept
PROPERTIES
  StopTakesEffect
  LaunchesAndDrainsEnd
  ReportsAreTrue
  AutosaveEnds
CHECK_DEADLOCK FALSE
