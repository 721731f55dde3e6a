SPECIFICATION SafeSpec
CONSTANTS
  Writers = {w1, w2}
  Readings = {r1}
  Mapped = {r1}
  End = end
  NoData = none
  Faults = {}
  MaxInserts = 3
INVARIANTS
  MarkerKept
CHECK_DEADLOCK FALSE
