SPECIFICATION Spec
CONSTANTS
  None = None
  Docs = {d1, d2}
  Stored = {d1}
  Writers = {w1, w2}
  MaxQueue = 2
  Retries = 1
  MaxCommits = 3
INVARIANTS TypeOK Accounted Converges EventsInOrder
PROPERTIES NeverOvertaken Drains
CHECK_DEADLOCK FALSE
