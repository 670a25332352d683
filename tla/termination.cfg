CONSTANTS
  Sandboxes = {"s1"}
  MaxLaunches = 2
  Terminations = {"t1", "t2"}
  Clients = {"c1"}
  Callers <- MCCallers
  Requests <- MCRequests
  Settings <- MCSettings
  Template = "tpl"
SPECIFICATION FairSpec
INVARIANTS TypeOK RecordRestorable ReportedEndIsReal ExpiredVMIsKilled GraceWithinPolicy
PROPERTIES ImplementsLifecycle TerminationSettles
CHECK_DEADLOCK FALSE
