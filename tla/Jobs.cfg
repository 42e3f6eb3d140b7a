CONSTANTS
  j1 = j1
  j2 = j2
  NoJob = NoJob
  Jobs = {j1, j2}
  PoolWidth = 1
  MaxFaults = 2
CHECK_DEADLOCK FALSE
SPECIFICATION FairSpec
INVARIANT TypeOK
PROPERTIES StaleCancelOnlyDead RowOfLiveJobKept RunningEnds
