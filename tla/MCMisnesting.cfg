SPECIFICATION Spec
CONSTANTS
  MaxDepth = 8
  OuterLoops = 8
  NoahsArk = 3
  Alphabets <- Misnesting
  Describable <- Written
INVARIANTS
  TreeSound
  NumbersExact
  EndTagClosesOne
  ReportedInDocumentOrder
  TextInOrder
CHECK_DEADLOCK FALSE
