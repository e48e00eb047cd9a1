SPECIFICATION SelectorsSpec
CONSTANTS
  Selectors <- MCSelectors
  Lists <- MCLists
  SyntaxError = "invalid"
  Overlong <- MCOverlong
  ParsedAs <- MCParsedAs
  Capacity = 3
  MaxMissed = 7
  CssLength = 3
  XPathLength = 4
INVARIANTS
  CacheExact
  SelectorsMean
  PathsMean
CHECK_DEADLOCK FALSE
