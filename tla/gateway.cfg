\* Two requests, one of which may hold a stream for ever, over two targets
\* that become due for a probe, with and without a pool.
SPECIFICATION FairSpec
CONSTANTS
  None = None
  t1 = t1
  t2 = t2
  p1 = p1
  r1 = r1
  r2 = r2
  Targets <- TwoTargets
  Pools <- OnePool
  Deployments <- BothDeployments
  Limit <- LimitOne
  Stored <- OneAfterTheOther
  Requests = {r1, r2}
  Plans <- Repeating
  Streaming = {r1}
  Endless = {r1}
  Hints <- NoHints
  Budget = 1
  Schedule <- ScaledSchedule
  AbandonDelay = 1
  ProbeLease = 1
  MaxLag = 0
INVARIANTS
  LeaseLastsAsLong
  ProbeHasOneOwner
  SentOnceOrRetried
  TurnedAwayLast
  SleepsOnlyOnProbes
PROPERTIES
  ContractOfEveryTarget
  RequestEnds
