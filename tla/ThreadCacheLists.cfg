SPECIFICATION Spec
CONSTANTS
  t1 = t1
  t2 = t2
  t3 = t3
  Threads <- MCThreads2
  NumClasses = 2
  ByteSizeForClass <- MCSizes
  num_objects_to_move <- MCBatches
  TotalObjects <- MCObjects
  kStealAmount = 1
  kMaxThreadCacheSize = 3
  kMaxOverages = 1
  kMaxDynamicFreeListLength = 5
  kMaxTries = 3
  kMaxOverall = 4
  kDefaultOverallThreadCacheSize = 2
  kMinThreadCacheSize = 1
  Overalls = {2}
  Mins = {1}
  Null = Null
  NoThread = NoThread
  Setter = Setter
SYMMETRY MCSymmetry
INVARIANTS
  
  ObjectsConserved
  ListLimits
