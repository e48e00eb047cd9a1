SPECIFICATION AttributesSpec
CONSTANTS
  Names = {"class", "CLASS", "id", "ID", "a", "b", "c"}
  Values = {"x", "y", "none", "empty"}
  Fold <- MCFold
  MaxCount = 4
  Inputs <- MCInputs
  Fingerprint <- MCFingerprint
  BloomBits <- MCBloomBits
  InlineLimit = 2
  None = "none"
  Empty = "empty"
  ClassBits <- MCClassBits
  IdHash <- MCIdHash
  NoId = 0
INVARIANTS
  KeptExact
  PrescanExact
PROPERTIES
  ImplementsList
  RegionSplit
CHECK_DEADLOCK FALSE
