SPECIFICATION Spec
CONSTANTS
  a = a
  b = b
  c = c
  d1 = d1
  d2 = d2
  Prompts <- MCPrompts
  Domains <- MCDomains
  LeaseIds <- MCLeaseIds
  HashOrders <- MCHashOrders
  MaxCheckpoints = 2
  MaxCandidates = 2
  MaxLeases = 2
  Ttls = {1}
  SuccessfulRequest = 1
  ProviderReported = 2
  Lag = 1
  MaxTime = 3
INVARIANTS
  IndexConsistent
  NeverFabricates
  ForgetsOnlyForRoom
