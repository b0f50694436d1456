SPECIFICATION FairSpec
CONSTANTS
  p1 = p1
  p2 = p2
  t1 = t1
  Players = {p1}
  Tribes = {}
  Groups = {Default, Admins}
  Perms = {Star}
  Star = Star
  DefaultGroup = Default
  AdminsGroup = Admins
  CallbackGroups = {}
  TribeOf <- NoTribe
  Secs = {1}
  DelaySecs = {0}
  Ops = {"NewPlayer", "Add", "Remove", "AddTimed", "RemoveTimed", "AddGroup", "RemoveGroup"}
  NoEntry = NoEntry
  Workers = {w1}
  NoWorker = NoWorker
  Faults = {"read", "insert", "update"}
  MaxFaults = 1
  MaxNow = 0
PROPERTIES CommandsFinish Reconciled
