SPECIFICATION Spec
CONSTANTS
  t1 = t1
  t2 = t2
  t3 = t3
  Threads <- MCThreads3
  NumClasses = 1
  ByteSizeForClass <- MCThree
  num_objects_to_move <- MCOne
  TotalObjects <- MCOne
  kStealAmount = 2
  kMaxThreadCacheSize = 4
  kMaxOverages = 0
  kMaxDynamicFreeListLength = 1
  kMaxTries = 3
  kMaxOverall = 5
  kDefaultOverallThreadCacheSize = 5
  kMinThreadCacheSize = 2
  Overalls = {3}
  Mins = {2, 3}
  Null = Null
  NoThread = NoThread
  Setter = Setter
SYMMETRY MCSymmetry
INVARIANTS
  TypeOK
  HeapListRight
  SearchHasHeaps
  UnclaimedRight
  BudgetNotNegative
