SPECIFICATION Spec
CONSTANTS
  Layouts <- ThreadLayouts
  IDs = {"", "a", "b"}
  Estimates = {2, 3, 5}
  SignatureSizes = {0, 1, 2, 4}
  HdrSize = 1
  LinkeditCmd = 1
  SignatureCmd = 1
  OtherCmd = 1
  SignatureAlign = 2
  PageSize = 4
  MaxU32 = 14
  MaxCalls = 2
  NoData = NoData
  NoCall = NoCall
INVARIANT TextSurvives
CHECK_DEADLOCK FALSE
