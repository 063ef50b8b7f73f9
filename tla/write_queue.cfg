SPECIFICATION Spec
CONSTANTS
  None = None
  Docs = {d1}
  Answerable = {d1}
  Callers = {w1, w2}
  Tabs = {t1, t2}
  Operations = {"insert", "update", "delete", "retry", "discard"}
  Routes = {TRUE, FALSE}
  MaxEdits = 2
  MaxStrays = 0
  MaxResponses = 1
  Upsert = TRUE
  Batch = 1
  Handoff = FALSE
SYMMETRY Symmetry
INVARIANTS TypeOK NoSilentLoss Converged
PROPERTY PerDocumentOrder
CHECK_DEADLOCK FALSE
