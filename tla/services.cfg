SPECIFICATION Spec
CONSTANTS
  r1 = r1
  r2 = r2
  Managers <- MCManagers
  Callers <- MCCallers
  Requests <- MCRequests
  Settings <- MCSettings
  Jobs <- MCJobs
  IDs <- MCIDs
  LastAddress = 3
  Buffer = 2
  MaxTyped = 1
  MaxSubmits = 2
  MaxEdits = 2
INVARIANTS
  TypeOK
  PublishedComplete
  OutputExact
  AddressExclusive
PROPERTIES
  ServedComplete
  OperatorConverges
CHECK_DEADLOCK FALSE
