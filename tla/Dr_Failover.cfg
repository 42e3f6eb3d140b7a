CONSTANTS
  p1 = p1
  v1 = v1
  v2 = v2
  s1 = s1
  s2 = s2
  NoVolume = NoVolume
  Old = Old
  Sids = {s1, s2}
  Used = {s1}
  NoSid = NoSid
  PrimarySid <- FirstMapped
  Targets <- Entered
  Plans = {p1}
  Volumes = {v1, v2}
  MaxEdits = 3
  MaxRuns = 2
  MaxFaults = 1
  MaxCrashes = 1
CHECK_DEADLOCK FALSE
SPECIFICATION Spec
INVARIANTS TypeOK StateTellsRunner MirrorBrokenOnPurpose
PROPERTIES SuccessServes FailoverEnds
