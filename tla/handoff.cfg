SPECIFICATION Spec
CONSTANTS
  None = None
  Docs = {d1}
  Answerable = {d1}
  Callers = {w1}
  Tabs = {t1, t2}
  Operations = {"insert", "update", "delete"}
  Routes = {TRUE}
  MaxEdits = 2
  MaxStrays = 1
  MaxResponses = 1
  Upsert = TRUE
  Batch = 1
  Handoff = TRUE
SYMMETRY Symmetry
INVARIANT NoSilentLoss
CHECK_DEADLOCK FALSE
