SPECIFICATION RangesSpec
CONSTANTS
  d1 = d1
  d2 = d2
  d3 = d3
  d4 = d4
  LastPage = 4
  Descriptors <- MCDescriptors
  NoSpan = NoSpan
  kMaxPages = 2
  kMaxValidPages = 15
  LengthLimit = 32
  smallest_span_size = 1
  kForcedCoalesceInterval = 4
  Requests = {1, 2}
  kNumRanges = 1
  Alignments = {}
  Releases = {1}
  Limits = {0}
  MetadataLimit = 0
  StuckPages = {{}}
  PageMapMayFail = FALSE
SYMMETRY MCSymmetry
INVARIANT
  RangeFromStart
