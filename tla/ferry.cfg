\* Two shores, two requests with one retry, every strategy, one removal.
SPECIFICATION Spec
CONSTANTS
  Shores = {1, 2}
  Requests = {1, 2}
  RateKeys <- MCRateKeys
  Absent = Absent
  Affinity = "session"
  KeyFuncName = "tenant"
  NoBucket = NoBucket
  NoShore = NoShore
  Burst = 1
  Threshold = 1
  HalfOpenRequests = 2
  Replicas = 2
  HealthyAfter = 1
  UnhealthyAfter = 1
  Configs <- MCConfigs
  MaxRetries = 1
  MaxDeregistrations = 1
  RRModulus = 2
  VirtualHash <- MCVirtualHash
  KeyHash <- MCKeyHash
  Attr <- MCAttr
  IPHash <- MCIPHash
  Weight <- MCWeight
INVARIANTS
  TypeOK
  ConnsMatch
  WithinBudget
  StickySession
PROPERTIES
  ClosesAfterProbes
  NeverSentTwice
  EveryRequestAnswered
