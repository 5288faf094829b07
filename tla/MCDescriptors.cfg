SPECIFICATION ProgramSpec
CONSTANTS
  MAX_NUM_PROCESSES = 2
  MaxPid = 2
  SleepTimes = {0}
  LogFile = FALSE
  Semaphore = {s1}
  SemDescriptor = {d1, d2}
  MaxPtr = 3
  SemIds = {i1}
  Oflags <- MCOflags
  InitialCounts <- MCCounts
  MaxCount = 1
  MaxFd = 1
  Recycled <- MCAllPCB
  MAX_NUM_RESOURCES = 1
  Descriptor = {}
  ResourceIds = {}
  ResourceTypes = {}
  OpenModes = {}
  MaxResourceFd = 0
VIEW StateOnly
PROPERTY NewProcessesOwnNothing
