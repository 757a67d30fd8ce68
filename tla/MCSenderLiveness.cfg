SPECIFICATION FairSpec
CONSTANTS
  m1 = m1  m2 = m2
  Instances = {p1}  Clients = {c1, c2}
  Keys = {k1}  NoKey = NoKey  NoOne = NoOne
  Payloads = {m1, m2}
  MaxAttempts <- MCMaxAttempts
  Configs <- MCConfigs
  LeaseTicks = 1
  Backoff <- MCBackoff
  RetryAfters = {0, 1}
  MaxAge = 2
  MaxJobs = 2
  MaxFaults = 1
  Overrun = FALSE
INVARIANTS AcceptedIsStored OneJobPerKey
PROPERTIES DecidedOrOrphaned ExpiredOrphanIsDecided
