SPECIFICATION ResourceSpec
CONSTANTS
  MAX_NUM_PROCESSES = 2
  MaxPid = 2
  SleepTimes = {}
  LogFile = FALSE
  Semaphore = {}
  SemDescriptor = {}
  MaxPtr = 0
  SemIds = {}
  Oflags = {}
  InitialCounts = {}
  MaxCount = 0
  MaxFd = 0
  Recycled <- MCAllPCB
  MAX_NUM_RESOURCES = 1
  Descriptor = {d1}
  ResourceIds = {1}
  ResourceTypes = {t1}
  OpenModes <- MCOpenModes
  MaxResourceFd = 1
VIEW StateOnly
INVARIANT ReleasedAtDeath
