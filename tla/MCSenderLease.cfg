SPECIFICATION Spec
CONSTANTS
  m1 = m1  m2 = m2
  Instances = {p1, p2}  Clients = {c1}
  Keys = {k1}  NoKey = NoKey  NoOne = NoOne
  Payloads = {m1}
  MaxAttempts <- MCMaxAttempts
  Configs <- MCConfigs
  LeaseTicks = 2
  Backoff <- MCBackoff
  RetryAfters = {0, 1}
  MaxAge = 2
  MaxJobs = 1
  MaxFaults = 2
  Overrun = FALSE
SYMMETRY Symmetry
INVARIANTS TypeOK OneSenderPerJob SendsBounded 
PROPERTIES ImplementsLedger 
