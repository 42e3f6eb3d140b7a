CONSTANTS
  s1 = s1
  s2 = s2
  c1 = c1
  c2 = c2
  a = a
  b = b
  Sessions = {s1, s2}
  San = {s1}
  Copies = {c1, c2}
  Tars = {}
  Hosts = {a, b}
  First = a
  NDevices = 2
  MaxMounts = 2
  MaxFaults = 0
CHECK_DEADLOCK FALSE
SPECIFICATION Spec
PROPERTIES ChunksKept
