SPECIFICATION Spec
CONSTANTS
  Callers = {c1, c2}
  Keys = {k1}  NoKey = NoKey  NoOne = NoOne
  Payloads = {p1, p2}
  Demands = {TRUE, FALSE}
  MaxHandoffs = 3
  MaxReopens = 1
SYMMETRY Symmetry
INVARIANTS OneCreationPerKey DependenciesInside  NeverStuck
PROPERTY EndedStays
CHECK_DEADLOCK FALSE
