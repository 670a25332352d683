CONSTANTS
  Sandboxes = {"s1"}
  MaxLaunches = 2
  Terminations = {"t1"}
  Clients = {"c1"}
  Callers <- MCCallers
  Requests <- MCRequests
  Settings <- NodeSettings
  Template = "tpl"
SPECIFICATION Spec
INVARIANT SleepingKeepsResources
CHECK_DEADLOCK FALSE
