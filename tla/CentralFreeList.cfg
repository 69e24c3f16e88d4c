SPECIFICATION Spec
CONSTANTS
  a = a
  b = b
  s1 = s1
  s2 = s2
  t1 = t1
  t2 = t2
  Class0 = Class0
  NoThread = NoThread
  NoClass = NoClass
  NoSpan = NoSpan
  Threads <- MCThreads
  Classes <- MCClasses
  Spans <- MCSpans
  ObjectsPerSpan <- MCObjectsPerSpan
  num_objects_to_move <- MCBatch
  SlotLimit <- MCSlotLimit
  kMaxNumTransferEntries = 2
  kInitialCacheSize = 1
SYMMETRY MCSymmetry
INVARIANTS
  TypeOK
  LockDiscipline
  SlotBounds
  SlotBudget
  ObjectInOnePlace
  SpanAccounts
  CounterAccounts
  FetchFailsOnlyWithoutMemory
