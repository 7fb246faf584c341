SPECIFICATION MCSpec
CONSTANTS
  MaxU64 = 7
  PointerSize = 2
  TextWidth = 1
  Segments <- MCSegments
  Dylibs = 1
  Arm64e = "yes"
  Word <- MCWord
  Operands = {0, 1, 2, 3, 7}
  Immediates = {0, 1, 2, 12}
  MaxTable = 1
  MaxFixups = 3
  PayloadBits = 2
  WordBits = 5
  charA = charA
  charB = charB
  Broken = Broken
INVARIANTS FixupsLieInSegments BindsCanBeResolved ChainLimitNeverBites OffsetBoundsAreExact
INVARIANTS WalksAreExact IntegersAreExact
PROPERTY WalkEnds
CHECK_DEADLOCK FALSE
