SPECIFICATION Spec
CONSTANTS
  w = w  rev = rev  x = x  h1 = h1
  Agents = {w, rev, x}
  Controller = Controller  Orchestrator = Orchestrator
  Adapter = Adapter  Watchdog = Watchdog
  NoActor = NoActor  NoOne = NoOne
  Handoffs = {h1}
  Kind <- MCPlain
  Reviewer <- MCReviewer
  DependsOn <- MCNoDependencies
  Targeted = {}
  Callers = {c1, c2}
  Requests <- MCPlainRequests
  Reports <- MCExpired
  Backfills <- MCBackfills
  DispatchTargets = {TRUE}
  Reassigned = {}
  Overlap = TRUE
  MaxEvents = 6
  MaxRepairs = 1
  MaxRewrites = 0
PROPERTY AcceptedStays
