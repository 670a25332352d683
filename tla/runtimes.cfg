CONSTANTS
  Sandboxes = {"s1", "v1"}
  Callers = {"a", "b"}
  Driver = "a"
  Source = "s1"
  TargetVM = "v1"
  MaxLaunches = 3
  Requests <- MCRequests
  Settings <- MCSettings
  Uses = {"direct", "unified", "migrate", "parity"}
SPECIFICATION Spec
CHECK_DEADLOCK FALSE
INVARIANTS
  InspectTellsTruth
  RunningIsCounted
  OneCopyRuns
  RollbackResumes
PROPERTIES
  LiveStaysTracked
