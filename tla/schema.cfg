SPECIFICATION Spec
CONSTANTS
  None = None
  old = old
  b1 = b1
  b2 = b2
  b3 = b3
  Docs = {d1}
  Builds = {old, b1, b2, b3}
  Target <- MCTarget
  Retired <- MCRetired
  Reads = {r1, r2}
  Newest = 3
  MaxEdits = 4
  MaxClock = 2
SYMMETRY Symmetry
INVARIANTS TypeOK Readable
PROPERTIES VersionsGrow EditsCarried NewerFieldsKept NewerUntouched
CHECK_DEADLOCK FALSE
