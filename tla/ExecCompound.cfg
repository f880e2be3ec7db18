SPECIFICATION CompoundsSpec
CONSTANTS
  build = build
  all = all
  ci = ci
  NoProfile = NoProfile
  Singles = {build, all}
  Plan <- PlanShared
  MaxRuns = 5
  MaxEpoch = 0
  Stoppers = {"stop"}
  Drainers = {}
  Remotes = {r1}
  Key = Key
  Absent = Absent
  Broken = Broken
  Unread = Unread
  MaxTokens = 1
  MaxNoise = 1
INVARIANTS
  ProfilesExclude
  CoordinatorOwnsLeaf
  SurfaceIsTrue
  TokensTracked
PROPERTIES
  PlanKept
  ConsentCovers
CONSTRAINT TwoOrdinary
CHECK_DEADLOCK FALSE
