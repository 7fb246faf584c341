SPECIFICATION SignaturesSpec
CONSTANTS
  Layouts <- MCLayouts
  IDs = {"", "a", "b"}
  Estimates = {2, 3, 5}
  SignatureSizes = {0, 1, 2, 4}
  HdrSize = 1
  LinkeditCmd = 1
  SignatureCmd = 1
  OtherCmd = 1
  SignatureAlign = 2
  PageSize = 4
  MaxU32 = 14
  MaxCalls = 3
  NoData = NoData
  NoCall = NoCall
  Signatures <- SuperBlobs
  ParseBudget = 20
  MaxUint = 1000
CHECK_DEADLOCK FALSE
INVARIANT EmbeddedComponentsAreBound
