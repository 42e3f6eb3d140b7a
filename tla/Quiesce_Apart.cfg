CONSTANTS
  t1 = t1
  t2 = t2
  vm1 = vm1
  vm2 = vm2
  ct1 = ct1
  NoGuest = NoGuest
  Threads = {t1, t2}
  Guests = {vm1, vm2, ct1}
  Containers = {ct1}
  GuestsOf <- Apart
  Level <- AppAndSuspend
  MaxRuns = 3
  MaxFaults = 2
CHECK_DEADLOCK FALSE
SPECIFICATION Spec
INVARIANTS TypeOK ReleasedOrExcused
PROPERTY FrozenAtSnapshot
