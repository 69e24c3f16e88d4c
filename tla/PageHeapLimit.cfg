SPECIFICATION Spec
CONSTANTS
  d1 = d1
  d2 = d2
  d3 = d3
  d4 = d4
  LastPage = 5
  Descriptors <- MCDescriptors4
  NoSpan = NoSpan
  kMaxPages = 1
  kMaxValidPages = 15
  LengthLimit = 32
  smallest_span_size = 1
  kForcedCoalesceInterval = 4
  Requests = {1, 2, 3}
  Alignments = {}
  Releases = {1, 2}
  Limits = {4}
  MetadataLimit = 0
  StuckPages <- MCStuckPages
  PageMapMayFail = FALSE
SYMMETRY MCSymmetry
INVARIANT
  AllocLargeLimit
