SPECIFICATION PushSpec
CONSTANTS
  MaxDepth = 8
  OuterLoops = 8
  NoahsArk = 3
  PrescanLimit = 3
  BlockSize = 2
  Sources <- MCSources
  Settings <- MCSettings
INVARIANTS
  FirstMatchDelivered
  MatchIsPrompt
  ReadsBounded
PROPERTIES
  ImplementsParse
  StreamReturns
CHECK_DEADLOCK FALSE
