SPECIFICATION Spec
CONSTANTS
  Requests = {host}
  MaxHandshakes = 2
  Tasks = {runner}
INVARIANT OwnHandshake
CHECK_DEADLOCK FALSE
