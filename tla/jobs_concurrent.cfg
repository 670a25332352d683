\* Two jobs, with different IDs or the same, and one kill; no failures.
SPECIFICATION Spec
CONSTANTS
  Nodes = {n1}
  SandboxIDs = {s1, s2}
  Clients = {c1, c2}
  NoNode = NoNode
  Poison = Poison
  MaxEntries = 2
  MaxFaults = 0
  MaxKills = 1
  Secrets = 0
  Limited = {s1, s2}
SYMMETRY Symmetry
INVARIANTS
  RunningVMHasResources
  FinalStatusRecorded
  WatcherHasJob
