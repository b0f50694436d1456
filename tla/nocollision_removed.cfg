CONSTANTS
  b1 = b1
  b2 = b2
  Builders = {b1, b2}
  Faults = {}
  MaxFaults = 0
SPECIFICATION Spec
INVARIANTS
  RemovedStays
