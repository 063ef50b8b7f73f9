SPECIFICATION FairSpec
CONSTANTS
  None = None
  Workers = {w1, w2}
  Writes = {a}
  Reads = {r}
  Flushes = {f}
  MaxPending = 2
  Backends = {"opfs", "indexeddb"}
  Durabilities = {TRUE, FALSE}
  StorageFails = TRUE
PROPERTIES OneDatabase Answered SavedInTime
CHECK_DEADLOCK FALSE
