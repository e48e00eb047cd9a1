SPECIFICATION Spec
CONSTANTS
  MaxCode = 1000
  MaxResidual = 100
  MaxRawResidual = 100
  TextTail = 6
  Inputs <- Markups
INVARIANTS
  EmitsComplete
PROPERTIES
  ImplementsStream
CHECK_DEADLOCK FALSE
