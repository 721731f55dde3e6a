SPECIFICATION Spec
CONSTANTS
  Main = main
  Joined = {dm, sm}
  Detached = {handler}
  Capacity = 2
  MaxMessages = 6
  Faults = {"fork", "log", "exit"}
INVARIANTS
  LogComplete
  LostByDetached
  KilledWithoutLogger
PROPERTIES
  LoggerEnds
  MainReturns
  WritesReturn
CHECK_DEADLOCK FALSE
