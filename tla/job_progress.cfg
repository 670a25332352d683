\* One job, with a TTL or without, one failure or crash, one kill; liveness.
SPECIFICATION FairSpec
CONSTANTS
  Nodes = {n1}
  SandboxIDs = {s1, s2}
  Clients = {c1}
  NoNode = NoNode
  Poison = Poison
  MaxEntries = 2
  MaxFaults = 1
  MaxKills = 1
  Secrets = 0
  Limited = {s1}
PROPERTIES
  SubmitAnswered
  EveryEntrySettled
