\* One job and one crash of its agent.
SPECIFICATION FairSpec
CONSTANTS
  Nodes = {n1}
  SandboxIDs = {s1}
  Clients = {c1}
  NoNode = NoNode
  Poison = Poison
  MaxEntries = 2
  MaxFaults = 1
  MaxKills = 0
  Secrets = 0
  Limited = {s1}
PROPERTIES
  PendingSurvivesRestart
