SPECIFICATION MCTestSpec
CONSTANTS
  MAX_NUM_PROCESSES = 3
  MaxPid = 3
  SleepTimes = {}
  LogFile = FALSE
  Semaphore = {1, 2, 3, 4}
  SemDescriptor = {1, 2, 3, 4, 5, 6, 7, 8}
  MaxPtr = 12
  SemIds = {0, 1, 2, 3}
  Oflags <- MCOflags
  InitialCounts = {0, 1, 2}
  MaxCount = 4
  MaxFd = 4
  Recycled <- MCAllPCB
  MAX_NUM_RESOURCES = 1
  Descriptor = {}
  ResourceIds = {}
  ResourceTypes = {}
  OpenModes = {}
  MaxResourceFd = 0
  BUFFER_SIZE = 2
  TRANSACTIONS_NUMBER = 3
  Rounds = 3
INVARIANT NamesMeanSemaphores
