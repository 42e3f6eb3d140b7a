CONSTANTS
  j1 = j1
  j2 = j2
  v1 = v1
  v2 = v2
  Jobs = {j1, j2}
  Vmids = {v1, v2}
  Existing = {v1}
  NDisks = 2
  Requested <- Kinds
  None = None
  Live = Live
  Torn = Torn
  MaxFaults = 1
CHECK_DEADLOCK FALSE
SPECIFICATION Spec
SYMMETRY Symmetry
INVARIANTS TypeOK TemporariesGone
PROPERTIES  ConfKept NotUnderRunning
