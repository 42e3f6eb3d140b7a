CONSTANTS
  s1 = s1
  t1 = t1
  t2 = t2
  NoSession = NoSession
  Sessions = {s1}
  Disks = 2
  Threads = {t1, t2}
  MaxFaults = 2
  MaxCrashes = 1
CHECK_DEADLOCK FALSE
SPECIFICATION FairSpec
INVARIANTS TypeOK ClosedMeansClean LeftoverReachable
PROPERTIES CloneKeptUnderDisks DiscardEnds
