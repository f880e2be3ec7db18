SPECIFICATION WSpec
CONSTANTS
  build = build
  comp = comp
  Singles = {build}
  Plan <- PlanOne
  MaxRuns = 2
  MaxEpoch = 3
  Stoppers = {stop}
  Drainers = {load, close}
  LoadDrainer = load
  CloseDrainer = close
  NoProfile = none
  Roots = {rootA, rootB}
  NoRoot = noRoot
  Callers = {caller}
CONSTRAINT OneAppend
SYMMETRY RootSymmetry
INVARIANTS OneRoot RecordsKept AdmissionFollowsLoads
PROPERTIES ExecutorSpec
CHECK_DEADLOCK FALSE
