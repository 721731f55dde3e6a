SPECIFICATION GatewaySpec
CONSTANTS
  Readings = {c1, c2}
  Mapped = {c1, c2}
  Acceptor = acceptor
  Writers = {c1, c2, acceptor}
  End = end
  NoData = none
  Faults = {}
  MaxInserts = 1
  MaxConn = 2
PROPERTIES
  MarkerFollows
CHECK_DEADLOCK FALSE
