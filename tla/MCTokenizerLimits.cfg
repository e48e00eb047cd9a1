SPECIFICATION Spec
CONSTANTS
  MaxCode = 1000
  MaxResidual = 6
  MaxRawResidual = 7
  TextTail = 5
  Inputs <- Oversized
INVARIANTS
  TokensOfInput
  BufferSound
  SplitAlike
CHECK_DEADLOCK FALSE
