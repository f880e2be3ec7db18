SPECIFICATION FrontSpec
CONSTANTS
  Contents = {x, y}
  NoText = none
  MaxDocs = 2
  LspActs = 3
  MaxActs = 3
  Requests = {host, button}
  MaxHandshakes = 3
  Tasks = {runner, lsp, ai}
INVARIANTS
  TurnsOnce TeardownOnce CancelRestores
PROPERTIES
  ServerFollows RunsCompleteApart CloseEnds
CHECK_DEADLOCK FALSE
