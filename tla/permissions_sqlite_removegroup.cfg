SPECIFICATION Spec
CONSTANTS
  p1 = p1
  p2 = p2
  t1 = t1
  Players = {p1}
  Tribes = {}
  Groups = {Default, Admins}
  Perms = {Star}
  Star = Star
  DefaultGroup = Default
  AdminsGroup = Admins
  CallbackGroups = {}
  TribeOf <- NoTribe
  Secs = {1}
  DelaySecs = {0}
  Ops = {"NewPlayer", "RemoveGroup"}
  NoEntry = NoEntry
  Workers = {}
  NoWorker = NoWorker
  Faults = {}
  MaxFaults = 0
  MaxNow = 0
INVARIANTS RemoveGroupDeletes
