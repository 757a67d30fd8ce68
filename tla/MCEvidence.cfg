\* Every script and scenario, with up to two calls outside it and restarts.
SPECIFICATION Spec
CONSTANTS
  Kinds <- AllKinds
  MaxStrays = 2
INVARIANTS StraightRunPasses
PROPERTIES ReportIsTrue
CHECK_DEADLOCK FALSE
