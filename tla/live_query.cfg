SPECIFICATION Spec
CONSTANTS
  None = None
  Filters = {f1, f2}
  Results = {ra, rb}
  Pollers = {p1, p2}
  MaxWrites = 1
  MaxFailovers = 1
  MaxFailures = 1
INVARIANTS TypeOK ShowsOwnFilter SkipsWhatItHas
PROPERTY CatchesUp
