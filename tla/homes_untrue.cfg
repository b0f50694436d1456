CONSTANTS
  p1 = p1
  p2 = p2
  NoDino = NoDino
  Nobody = Nobody
  Players = {p1, p2}
  Dinos = {}
  Kinds = {"home", "tp"}
  MaxRequests = 3
  Fare = 0
  MaxPoints = 0
  MinPoints = 0
SPECIFICATION FairScopedSpec
INVARIANTS
  InterruptIsTrue
