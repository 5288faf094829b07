SPECIFICATION MCSpec
CONSTANTS
  MAX_NUM_PROCESSES = 3
  MaxPid = 4
  SleepTimes = {0, 1}
  LogFile = FALSE
VIEW StateOnly
INVARIANT ProcTypeOK
INVARIANT ListsOK
INVARIANT WaitersHaveAWakeup
INVARIANT PoolsConsistent
PROPERTY WakesOnTime
