CONSTANTS
  s1 = s1
  s2 = s2
  c1 = c1
  c2 = c2
  a = a
  b = b
  Sessions = {s1, s2}
  San = {s1}
  Copies = {c1}
  Tars = {}
  Hosts = {a, b}
  First = a
  NDevices = 1
  MaxMounts = 2
  MaxFaults = 1
CHECK_DEADLOCK FALSE
SPECIFICATION Spec
VIEW Relevant
INVARIANTS TypeOK MountNamed
PROPERTIES DisconnectsOwn CopyUndisturbed
