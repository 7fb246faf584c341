SPECIFICATION Spec
CONSTANTS
  Readers = {g1}
  Names <- MCNames
  v1 = v1
  v2 = v2
  v3 = v3
  Values <- MCValues
  FoldKey <- MCFoldKey
  SymArrays = {s1}
  ExpArrays = {e1, e2, e3, e4, e5}
  Tables <- MCTables
  ClassicExports <- MCClassic
  ModernExports <- MCModern
  After = 1
  MaxMutations = 1
  Nil = Nil
  NoCmd = NoCmd
  Failed = Failed
  ErrNoSymtab = ErrNoSymtab
  ErrExports = ErrExports
  ErrNotFound = ErrNotFound
SYMMETRY Symm
INVARIANT LookupMatchesLinear
CHECK_DEADLOCK FALSE
