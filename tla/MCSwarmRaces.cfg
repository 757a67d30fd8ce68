SPECIFICATION Spec
CONSTANTS
  h1 = h1  h2 = h2  engineer = engineer  reviewer = reviewer
  targetedDaemon = targetedDaemon  roamingDaemon = roamingDaemon
  Controller = Controller  Orchestrator = Orchestrator
  Adapter = Adapter  Watchdog = Watchdog
  NoActor = NoActor  NoReply = NoReply  NoOne = NoOne
  Agents <- AgentSet
  Configured <- Order
  Handoffs = {h2}
  Kind <- OneKind
  Reviewer <- OneReviewer
  Addressed = {}
  DependsOn <- Independent
  Drivers = {targetedDaemon, roamingDaemon}
  Targeted = {targetedDaemon}
  Replies <- RaceReplies
  Outside <- OutsideEvents
  MaxUpsets = 1
INVARIANTS TypeOK WorkIsReported NeverRefused DeliveredIsTrue
CHECK_DEADLOCK FALSE
