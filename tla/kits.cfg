CONSTANTS
  s1 = s1
  s2 = s2
  p1 = p1
  p2 = p2
  k1 = k1
  k2 = k2
  NoEntry = NoEntry
  Servers = {s1, s2}
  Players = {p1, p2}
  Kits = {k1, k2}
  DefaultAmount <- OneEach
  Amounts <- AddOrTake
  MaxAmount = 2
  Ops <- AllOps
  Faults = {"read", "update", "reply", "crash"}
  MaxFaults = 2
  MaxOwned = 2
SYMMETRY Symmetry
SPECIFICATION GuardedSpec
INVARIANTS
  TypeOK
  KitsConserved
  NoFreeKits
