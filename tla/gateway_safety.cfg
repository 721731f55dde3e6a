SPECIFICATION GatewaySafeSpec
CONSTANTS
  Readings = {c1, c2, c3}
  Mapped = {c1, c2, c3}
  Acceptor = acceptor
  Writers = {c1, c2, c3, acceptor}
  End = end
  NoData = none
  Faults = {"accept", "spawn", "malloc", "listen"}
  MaxInserts = 3
  MaxConn = 2
SYMMETRY ClientSymmetry
INVARIANTS
  CounterExact
  LimitUnlessRaced
  MarkerLast
  CounterOutlivesHandlers
  BufferOutlivesWriters
  AllStored
CHECK_DEADLOCK FALSE
