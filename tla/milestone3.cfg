SPECIFICATION Spec
CONSTANTS
  Readers = {r1, r2}
  Faults <- AllFaults
  MaxRecords = 4
INVARIANTS
  EachOnce
  OvertakenInHand
  RowsComplete
  WakeupsSuffice
  FaultOnlyAbandoned
PROPERTIES
  MainEnds
CHECK_DEADLOCK FALSE
