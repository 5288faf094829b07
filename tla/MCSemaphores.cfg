SPECIFICATION MCSpec
CONSTANTS
  MAX_NUM_PROCESSES = 2
  Semaphore = {s1, s2}
  SemDescriptor = {d1, d2}
  MaxPtr = 4
  SemIds = {i1, i2}
  Oflags <- MCOflags
  InitialCounts <- MCCounts
  MaxCount = 1
  MaxFd = 2
  Recycled <- MCFirstPCB
VIEW MCView
SYMMETRY Symmetry
INVARIANT SemTypeOK
INVARIANT WaitersMatchCount
INVARIANT DescriptorTables
INVARIANT OpenSemaphoresListed
INVARIANT FdsUnique
INVARIANT PtrBlocksNotShared
PROPERTY DebtStays
PROPERTY OrphansOnlyWhenNoFd
PROPERTY ImplementsClassical
