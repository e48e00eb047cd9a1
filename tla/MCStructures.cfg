SPECIFICATION Spec
CONSTANTS
  MaxDepth = 20
  OuterLoops = 8
  NoahsArk = 3
  Alphabets <- Structures
  Describable <- Written
INVARIANTS
  StructureKept
  TextKept
  ReprocessEnds
  TextChunkInvariant
  RoundTrip
PROPERTIES
  ClosedSubtreeFrozen
  EveryElementReported
CHECK_DEADLOCK FALSE
