SPECIFICATION QueriesSpec
CONSTANTS
  KnownNames = {"a", "b"}
  ClassBit <- MCClassBit
  IdHash <- MCIdHash
  Cases <- NoCases
  XPathCases <- OrderCase
CHECK_DEADLOCK FALSE
INVARIANT InDocumentOrder
