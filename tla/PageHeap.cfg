SPECIFICATION Spec
CONSTANTS
  d1 = d1
  d2 = d2
  d3 = d3
  d4 = d4
  LastPage = 4
  Descriptors <- MCDescriptors4
  NoSpan = NoSpan
  kMaxPages = 2
  kMaxValidPages = 15
  LengthLimit = 32
  smallest_span_size = 1
  kForcedCoalesceInterval = 4
  Requests <- MCRequests
  Alignments = {2}
  Releases = {1, 3}
  Limits = {0, 3}
  MetadataLimit = 0
  StuckPages <- MCStuckPages
  PageMapMayFail = TRUE
SYMMETRY MCSymmetry
INVARIANTS
  TypeOK
  SpansDisjoint
  PageMapRight
  ListsRight
  StatsRight
  NormalCoalesced
PROPERTIES
  
  NoPageLost
  
