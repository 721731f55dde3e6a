SPECIFICATION XSpec
CONSTANTS
  Elements = {a, b}
  Indices <- IndexRange
  MaxNodes = 2
PROPERTIES
  LookupReturns
CHECK_DEADLOCK FALSE
