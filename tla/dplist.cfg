SPECIFICATION XSpec
CONSTANTS
  Elements = {a, b}
  Indices <- IndexRange
  MaxNodes = 4
INVARIANTS
  ListSound
  ExerciseAgrees
PROPERTIES
  ImplementsList
  CallsAsDocumented
  PresentIsFound
CHECK_DEADLOCK FALSE
