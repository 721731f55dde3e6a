SPECIFICATION GatewaySpec
CONSTANTS
  Readings = {c1, c2}
  Mapped = {c1}
  Acceptor = acceptor
  Writers = {c1, c2, acceptor}
  End = end
  NoData = none
  Faults = {"listen", "malloc", "map", "csv"}
  MaxInserts = 3
  MaxConn = 2
PROPERTIES
  ShutsDownUnlessHindered
CHECK_DEADLOCK FALSE
