SPECIFICATION DocumentsSpec
CONSTANTS
  Nodes = {1, 2, 3, 4, 5}
  NULL = 0
INVARIANTS
  LinksSound
  IndexExact
  DecodingExact
PROPERTIES
  ReparseExact
  ReadsToEnd
CHECK_DEADLOCK FALSE
