\* One watchdog over two handoffs, the second of which waits for the first, with
\* a repair, an edit of a watch or a run cut short.
SPECIFICATION Spec
CONSTANTS
  h1 = h1  h2 = h2
  Handoffs = {h1, h2}
  Required = {h1, h2}
  Submitting = {h2}
  DependsOn <- MCDependsOn
  Dogs = {1}
  MaxTime = 2
  MaxEvents = 3
  MaxTroubles = 1
INVARIANTS BlockedIsExplained RepeatsExcused WithheldForItsReminder
PROPERTIES StalledIsReminded
