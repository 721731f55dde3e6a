SPECIFICATION Spec
CONSTANTS
  Ids <- SomeIds
  Rooms <- SomeRooms
  Values <- SomeValues
  Window = 2
  MinTemp = 10
  MaxTemp = 20
  MaxPieces = 3
  MaxReadings = 3
INVARIANTS
  RingHoldsLatest
  AlarmsJustified
  SameRows
  VerdictsRelated
PROPERTIES
  AnswersAsDocumented
CHECK_DEADLOCK FALSE
