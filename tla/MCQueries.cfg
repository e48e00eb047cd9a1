SPECIFICATION QueriesSpec
CONSTANTS
  KnownNames = {"a", "b"}
  ClassBit <- MCClassBit
  IdHash <- MCIdHash
  Cases <- MCCases
  XPathCases <- MCXPathCases
INVARIANTS
  SelectsExactly
  ShortcutsSound
  PathsExact
  WalksExact
CHECK_DEADLOCK FALSE
