SPECIFICATION ResourceSpec
CONSTANTS
  MAX_NUM_PROCESSES = 2
  MaxPid = 2
  SleepTimes = {}
  LogFile = FALSE
  Semaphore = {}
  SemDescriptor = {}
  MaxPtr = 0
  SemIds = {}
  Oflags = {}
  InitialCounts = {}
  MaxCount = 0
  MaxFd = 0
  Recycled <- MCAllPCB
  MAX_NUM_RESOURCES = 2
  Descriptor = {d1, d2}
  ResourceIds = {i1, i2, i3}
  ResourceTypes = {t1, t2}
  OpenModes <- MCOpenModes
  MaxResourceFd = 2
VIEW StateOnly
SYMMETRY ResourceSymmetry
INVARIANT ResTypeOK
INVARIANT ResourceTables
INVARIANT ListIsPool
INVARIANT ResourceFdsUnique
INVARIANT PtrBlocksInStep
PROPERTY OpenResourceStays
PROPERTY PoolIsStack
