\* Three readings of two nodes; one connection allowed.
SPECIFICATION Spec
CONSTANTS
  n1 = n1
  n2 = n2
  Nodes <- SomeNodes
  Listen = listen
  MaxConn = 1
  Size <- SomeSizes
  Loops <- SomeLoops
INVARIANTS
  ReadingsIntact
  DescriptorsAccounted
  EndOfServer
PROPERTIES
  HandlersEnd
CHECK_DEADLOCK FALSE
