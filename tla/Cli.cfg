SPECIFICATION Spec

CONSTANTS
  Lines <- AllLines
  BufLen = 2
  MaxMade = 3

INVARIANTS
  SuccessMeansComplete

PROPERTIES
  ComposedInOrder
  Terminates
