CONSTANTS
  p1 = p1
  p2 = p2
  t1 = t1
  t2 = t2
  Plans = {p1, p2}
  Crons <- EveryMinuteOrOnce
  Stores = 1
  Runners = {t1, t2}
  Minute = 2
  Work = 1
  MaxTime = 8
  MaxEdits = 3
  MaxMisses = 1
CHECK_DEADLOCK FALSE
SPECIFICATION SchedSpec
SYMMETRY Symmetry
INVARIANTS SchedTypeOK OncePerMinute JudgedEverySecondMinute
