SPECIFICATION BackendSpec
CONSTANTS
  build = build
  all = all
  ci = ci
  NoProfile = NoProfile
  Singles = {build}
  Plan <- PlanNone
  MaxRuns = 4
  MaxEpoch = 1
  Stoppers = {}
  Drainers = {"load"}
  Runs <- MCRuns
  RecordLimit = 3
  MaxSummaries = 2
  MaxRich = 1
  IndexLimit = 2
  RichSize = 3
  ByteTarget = 6
  MaxRecords = 3
  MaxClears = 1
  MaxFaults = 2
  Destinations = {golem, other}
  ConsentFaults = 4
  web = web
  api = api
  page = page
  script = script
  Documents = {page, script}
  Workspaces = {web, api}
  Within <- MCWithin
  Main <- MCMain
  NoRoot = "none"
  MaxCrashRetries = 1
  MaxOpens = 2
  MaxServers = 3
  ManagerActs = 3
INVARIANTS
  ProfileCapacity RestartNeverOverlaps NoUnmanagedProcess RetainedAreNewest
  AnswersHold ClearedStays IndexIsTrue RichBounded Backed
  Serves ServersAreManaged
CHECK_DEADLOCK FALSE
