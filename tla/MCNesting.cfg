CONSTANTS
  Names <- MCNames
  MaxDepth = 4
  NoahsArk = 1
  OuterLoops = 8
  Alphabets <- Depths
  Describable <- None
SPECIFICATION NestingSpec
INVARIANTS
  StackSound
  TextSurvives
CHECK_DEADLOCK FALSE
