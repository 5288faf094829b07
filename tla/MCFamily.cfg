SPECIFICATION FamilySpec
CONSTANTS
  MAX_NUM_PROCESSES = 4
  MaxPid = 4
  SleepTimes = {}
  LogFile = FALSE
VIEW FamilyView
INVARIANT NoLostWakeup
INVARIANT EveryChildHasOneOwner
INVARIANT OrphansHungUp
INVARIANT NobodyLost
PROPERTY DeadStayDead
PROPERTY DeathsReported
PROPERTY AnsweredAsAsked
