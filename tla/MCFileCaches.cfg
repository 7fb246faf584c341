SPECIFICATION CachesSpec
CONSTANTS
  b1 = b1
  b2 = b2
  low1 = low1
  c1 = c1
  c2 = c2
  Images <- MCImages
  Levels = {0, 1}
  Bases <- MCBases
  Unset = Unset
  Malformed = Malformed
  Nil = Nil
  FunctionFiles <- MCFunctionFiles
  Callers = {c1, c2}
  Given <- MCGiven
  AddrSpace = 256
  None = None
  PayloadFiles <- MCPayloadFiles
  HeaderSize = 24
  MinVMOffset = 10
  MaxAddr = 1000
  MaxChain = 3
  NoData = NoData
  Bad = Bad
  Goroutines = {g1, g2}
  Scopes = {w1, w2}
  a1 = a1
  a2 = a2
  a3 = a3
  s1 = s1
  p1 = p1
  Zero = Zero
  Unreadable = Unreadable
  NoRef = NoRef
  NoName = NoName
  BadName = BadName
  Addrs = {a1, a2, a3}
  PointerSlots = {s1}
  Starts = {p1, p2}
  ContextImages <- MCContextImages
  maxSwiftContextDepth = 2
  Refs = {a1, a2}
  Positions <- MCPositions
  Files <- MCFiles
  Outcome <- MCOutcome
  Contexts <- MCContexts
  Custom <- MCCustom
  Nothing = Nothing
SYMMETRY Symm
INVARIANTS CachesAreWhole BasesAgree
INVARIANTS FunctionListsAreOne LazyDylibsAreWhole VariantNamesSettle
INVARIANTS ReplayIsIndistinguishable DroppedWithLastScope ChainsAreExact
