CONSTANTS
  p1 = p1
  p2 = p2
  NoDino = NoDino
  Nobody = Nobody
  d1 = d1
  Players = {p1, p2}
  Dinos = {d1}
  Kinds = {"home", "tp"}
  MaxRequests = 3
  Fare = 1
  MaxPoints = 1
  MinPoints = 0
SPECIFICATION FairScopedSpec
INVARIANTS
  TypeOK
  MountsFollow
  FrozenIsServed
  ListedIsPending
  InterruptedStays
  DiedStays
  FaresCovered
PROPERTIES
  OnlyLastMoves
  InputComesBack
