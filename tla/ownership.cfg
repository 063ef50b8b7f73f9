SPECIFICATION Spec
CONSTANTS
  None = None
  Workers = {w1, w2, w3}
  Writes = {a}
  Reads = {r}
  Flushes = {}
  MaxPending = 2
  Backends = {"opfs", "indexeddb"}
  Durabilities = {TRUE, FALSE}
  StorageFails = FALSE
SYMMETRY Symmetry
INVARIANT TypeOK
PROPERTIES OneDatabase FencedByEpoch
CHECK_DEADLOCK FALSE
