SPECIFICATION MCSpec
CONSTANTS
  ParsedLoads <- MCParsed
  NewLoads <- MCNew
  Names <- DylibNames
  MaxLoads = 3
  MaxSections = 4
  SizeWrap = 512
  Calls = {"c1", "c2"}
  FileLen = 5
  Chunk = 2
  Probe = 2
  Wrap = 32
  SegmentHeaders <- MCSegments
  Addresses = {4, 6, 8, 9, 12}
  Counts = {0, 1, 2, 3, 5, 20}
  ElemSizes = {0, 1, 2}
  SectionHeaders <- MCSections
  Pointers <- MCPointers
  Files <- FilesRead
  Filters <- MCFilters
  FileSize = 360
  Wrap32 = 64
  MaxInt64 = 100
  Images <- ExImages
  Locals <- ExLocals
  PageSize = 4
  PtrSize = 2
  HdrLen = 1
  ReserveChunk = 20
  MaxU32 = 200
  LocalMark = 90
INVARIANTS CommandsFollowCmdsize SegmentsIndexTheirSections
INVARIANTS RereadIsTheSame FilterIsProjection ReadsAreOnesOwn PointersAgree
INVARIANTS OffsetsFollowTheirData RebuiltSymbolsAgree
CHECK_DEADLOCK FALSE
