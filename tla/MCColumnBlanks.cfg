SPECIFICATION PushSpec
CONSTANTS
  MaxDepth = 8
  OuterLoops = 8
  NoahsArk = 3
  PrescanLimit = 3
  BlockSize = 2
  Sources <- MCSources
  Settings <- Blanks
CHECK_DEADLOCK FALSE
INVARIANT StopsAtFirstMatch
