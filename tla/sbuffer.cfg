SPECIFICATION Spec
CONSTANTS
  Writers = {w1, w2}
  Readings = {known, unknown}
  Mapped = {known}
  End = end
  NoData = none
  Faults = {"map", "csv"}
  MaxInserts = 4
INVARIANTS
  NoReadFailure
  FaultOnlyAfterEnd
  NoLostWakeup
  NoLeak
PROPERTIES
  StreamSafe
  StreamLive
  ShutdownCompletes
CHECK_DEADLOCK FALSE
