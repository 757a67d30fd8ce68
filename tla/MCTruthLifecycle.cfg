SPECIFICATION Spec
CONSTANTS
  w = w  rev = rev  x = x  h1 = h1
  Agents = {w, rev, x}
  Controller = Controller  Orchestrator = Orchestrator
  Adapter = Adapter  Watchdog = Watchdog
  NoActor = NoActor  NoOne = NoOne
  Handoffs = {h1}
  Kind <- MCStrict
  Reviewer <- MCReviewer
  DependsOn <- MCNoDependencies
  Targeted = {}
  Callers = {c1}
  Requests <- MCRequests
  Reports <- MCReports
  Backfills <- MCBackfills
  DispatchTargets = {TRUE, FALSE}
  Reassigned = {}
  Overlap = FALSE
  MaxEvents = 9
  MaxRepairs = 2
  MaxRewrites = 0
INVARIANTS TypeOK CompletedIsEarned
CHECK_DEADLOCK FALSE
 
