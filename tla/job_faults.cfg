\* One job, two nodes, two failures or crashes, one kill.
SPECIFICATION Spec
CONSTANTS
  Nodes = {n1, n2}
  SandboxIDs = {s1}
  Clients = {c1}
  NoNode = NoNode
  Poison = Poison
  MaxEntries = 3
  MaxFaults = 2
  MaxKills = 1
  Secrets = 0
  Limited = {s1}
SYMMETRY Symmetry
INVARIANTS
  TypeOK
  AcceptedJobAccounted
  HandledEntryPending
  OverlayHasOwner
  RunningVMHasResources
  AtMostOneVM
  AckedJobNotRunning
  FinalStatusRecorded
  WatcherHasJob
PROPERTIES
  TerminalStatusStable
