CONSTANTS
  s1 = s1
  s2 = s2
  p1 = p1
  p2 = p2
  NoEntry = NoEntry
  Servers = {s1, s2}
  Players = {p1, p2}
  MaxAmount = 2
  Amounts = {1, 2}
  Balances = {0, 1}
  Ops <- AllOps
  Faults <- AllFaults
  MaxFaults = 1
  MaxPoints = 2
  MinPoints <- Debt
SYMMETRY Symmetry
SPECIFICATION AccountsSpec
INVARIANTS
  Conserved
