CONSTANTS
  daily = daily
  weekly = weekly
  v1 = v1
  v2 = v2
  t1 = t1
  t2 = t2
  dailyTail = dailyTail
  weeklyTail = weeklyTail
  xDailyTail = xDailyTail
  NoPlan = NoPlan
  NoVolume = NoVolume
  NoName = NoName
  Plans = {daily}
  Volumes = {v1, v2}
  StoresOf <- AllVolumes
  Tails = {dailyTail}
  TailOf <- PlanTails
  Matches <- Apart
  ManualTails = {}
  Retention <- KeepOne
  Threads = {t1}
  ScanEnabled = TRUE
  MaxMinute = 2
  MaxRuns = 2
  MaxFaults = 1
  MaxDeletes = 0
CHECK_DEADLOCK FALSE
SPECIFICATION FairSpec
PROPERTIES StaleRowsCollected IndexedGetsRow
