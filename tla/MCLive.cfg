SPECIFICATION LiveSpec
CONSTANTS
  MAX_NUM_PROCESSES = 3
  MaxPid = 2
  SleepTimes = {1}
  LogFile = FALSE
PROPERTY ReadyRuns
PROPERTY SleepersWake
