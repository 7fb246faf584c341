SPECIFICATION ChainsSpec
CONSTANTS
  MaxU64 = 19
  p1 = p1
  p2 = p2
  Procs <- MCProcs
  Images <- EveryImage
  StartsSets <- EveryStarts
  Offsets <- AllOffsets
  NoPage = NoPage
  Idle = Idle
  Payloads <- MCPayloads
  HeaderLen = 28
  RecordLen = 22
  PageSizes = {4096, 16384}
  MaxFormat = 14
  MaxOrdinal <- MCMaxOrdinal
SYMMETRY Readers
INVARIANTS LookupMatchesWalker ParsedListIsOneWalk
INVARIANTS WholePageAgrees LookupsFindWhatParseFound
INVARIANTS FormatsAgree KeptMetadataIsSound
