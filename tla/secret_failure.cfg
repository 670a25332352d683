\* One job with two secrets, one of which may fail to resolve.
SPECIFICATION AloneSpec
CONSTANTS
  Nodes = {n1}
  SandboxIDs = {s1}
  NoNode = NoNode
  Poison = Poison
  MaxEntries = 3
  MaxFaults = 1
  Secrets = 2
  Limited = {s1}
INVARIANT SecretFailureFailsJob
