SPECIFICATION Spec
CONSTANTS
  None = None
  Keys = {k1, k2}
  Hooks = {h1}
  Runs = {r1, r2}
  Volatile = {k1}
  MaxVersion = 1
  MaxTimers = 1
  MaxCalls = 2
INVARIANTS TypeOK WaitersCounted OneRequestPerKey RequestsHaveTakers FetchingHasCall
PROPERTIES AbortedByTheLast RecordMonotone FetchingEnds
