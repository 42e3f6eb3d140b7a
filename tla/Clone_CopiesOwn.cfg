CONSTANTS
  j1 = j1
  j2 = j2
  v1 = v1
  v2 = v2
  Jobs = {j1, j2}
  Vmids = {v1, v2}
  Existing = {}
  NDisks = 2
  Requested <- SanClones
  None = None
  Live = Live
  Torn = Torn
  MaxFaults = 0
CHECK_DEADLOCK FALSE
SPECIFICATION Spec
INVARIANT CopiesOwn
