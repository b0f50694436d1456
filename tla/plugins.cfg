CONSTANTS
  a = a
  b = b
  c = c
  d = d
  e = e
  turret = turret
  wall = wall
  t1 = t1
  t2 = t2
  NoTribe = NoTribe
  Structures = {a, b, c, d, e}
  Tribes = {t1, t2}
  Types = {turret}
  TypeOf <- TurretsAndWalls
  Limit <- TwoTurrets
  MaxAmount = 3
  p1 = p1
  p2 = p2
  Players = {p1, p2}
  NoTask = NoTask
  Interval = 3
  m1 = m1
  m2 = m2
  Messages = {m1, m2}
  NoMessage = NoMessage
  Faults = {"insert", "load", "check", "write"}
  MaxFaults = 2
  z1 = z1
  z2 = z2
  z3 = z3
  z4 = z4
  Names = {z1, z2, z3, z4}
  File <- ThreeZones
  MaxReloads = 3
  MaxChanges = 2
  MaxTasks = 2
SPECIFICATION FairPlugins
INVARIANTS
  CountsCover
  WithinLimit
  AddedStays
  OnlineOnly
  ChangedIsKept
  SeesWhatWasSet
  ZonesStand
PROPERTIES
  NotRefusedForEver
  Spaced
  OnlineEarns
  LeftoversFade
  MovedInTheEnd
