CONSTANTS
  d1 = d1
  d2 = d2
  h1 = h1
  h2 = h2
  j1 = j1
  j2 = j2
  i1 = i1
  i2 = i2
  Datastores = {d1, d2}
  Protocols <- Pairs
  Ids = {i1, i2}
  Hosts = {h1, h2}
  Jobs = {j1, j2}
  IscsiTarget = IscsiTarget
  None = None
  Clustered = FALSE
  MaxJobs = 3
  MaxFaults = 1
CHECK_DEADLOCK FALSE
SPECIFICATION Spec
SYMMETRY Symmetry
INVARIANTS TypeOK TouchedMeansRecorded MountsOwn
PROPERTIES RemovalIsComplete LeavesOthersAlone
