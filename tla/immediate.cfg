SPECIFICATION Spec
CONSTANTS
  None = None
  Docs = {d1}
  Answerable = {d1}
  Callers = {w1}
  Tabs = {t1}
  Operations = {"insert", "update", "immediate", "refetch"}
  Routes = {TRUE}
  MaxEdits = 2
  MaxStrays = 0
  MaxResponses = 1
  Upsert = TRUE
  Batch = 1
  Handoff = FALSE
INVARIANT ShownIsAccountedFor
CHECK_DEADLOCK FALSE
