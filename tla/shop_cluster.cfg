CONSTANTS
  s1 = s1
  s2 = s2
  p1 = p1
  p2 = p2
  NoEntry = NoEntry
  Servers = {s1, s2}
  Players = {p1, p2}
  MaxAmount = 2
  Amounts = {1, 2}
  Balances = {0, 1}
  Ops <- LedgerOps
  Faults <- AllFaults
  MaxFaults = 2
  MaxPoints = 4
  MinPoints <- Debt
SYMMETRY Symmetry
SPECIFICATION ClusterSpec
INVARIANTS
  TypeOK
  NoOverdraft
PROPERTIES
  ImplementsLedger
