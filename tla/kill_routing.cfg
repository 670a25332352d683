\* One job and one kill; no failures.
SPECIFICATION FairSpec
CONSTANTS
  Nodes = {n1, n2}
  SandboxIDs = {s1}
  Clients = {c1}
  NoNode = NoNode
  Poison = Poison
  MaxEntries = 1
  MaxFaults = 0
  MaxKills = 1
  Secrets = 0
  Limited = {s1}
PROPERTIES
  KillReachesHost
