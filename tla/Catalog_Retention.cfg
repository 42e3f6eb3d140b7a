CONSTANTS
  daily = daily
  weekly = weekly
  v1 = v1
  v2 = v2
  t1 = t1
  t2 = t2
  dailyTail = dailyTail
  weeklyTail = weeklyTail
  xDailyTail = xDailyTail
  NoPlan = NoPlan
  NoVolume = NoVolume
  NoName = NoName
  Plans = {daily}
  Volumes = {v1}
  StoresOf <- OneVolume
  Tails = {dailyTail, xDailyTail}
  TailOf <- PlanTails
  Matches <- ByEnding
  ManualTails = {xDailyTail}
  Retention <- KeepOne
  Threads = {t1, t2}
  ScanEnabled = FALSE
  MaxMinute = 2
  MaxRuns = 3
  MaxFaults = 1
  MaxDeletes = 1
CHECK_DEADLOCK FALSE
SPECIFICATION Spec
INVARIANTS TypeOK ExpiredCovered SweptBounded
PROPERTY ImplementsPolicy
SYMMETRY ThreadSymmetry
