SPECIFICATION Spec
CONSTANTS
  d1 = d1
  d2 = d2
  d3 = d3
  d4 = d4
  LastPage = 4
  Descriptors <- MCDescriptors4
  NoSpan = NoSpan
  kMaxPages = 1
  kMaxValidPages = 15
  LengthLimit = 32
  smallest_span_size = 1
  kForcedCoalesceInterval = 4
  Requests = {1, 2}
  Alignments = {}
  Releases = {1}
  Limits = {3}
  MetadataLimit = 1
  StuckPages = {{}}
  PageMapMayFail = FALSE
PROPERTY
  EveryCallReturns
