SPECIFICATION FairSpec
CONSTANTS
  None = None
  Docs = {d1, d2}
  Answerable = {d1}
  Callers = {w1}
  Tabs = {t1}
  Operations = {"insert", "update"}
  Routes = {TRUE}
  MaxEdits = 2
  MaxStrays = 0
  MaxResponses = 1
  Upsert = FALSE
  Batch = 1
  Handoff = FALSE
PROPERTY QueueDrains
CHECK_DEADLOCK FALSE
