SPECIFICATION FairSpec
CONSTANTS
  Docs = {d1, d2}
  Policy = "interval"
  FlushAt = 2
  Batch = 2
  Modes = {"optimistic", "queued", "retry"}
  Primary = {TRUE, FALSE}
  MaxWrites = 2
INVARIANTS TypeOK CounterCoversBacklog
PROPERTY QueueEmpties
CHECK_DEADLOCK FALSE
