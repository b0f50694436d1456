SPECIFICATION Spec
CONSTANTS
  p1 = p1
  p2 = p2
  t1 = t1
  Players = {p1}
  Tribes = {t1}
  Groups = {Default, Admins}
  Perms = {Star}
  Star = Star
  DefaultGroup = Default
  AdminsGroup = Admins
  CallbackGroups = {Admins}
  TribeOf <- InTribe
  Secs = {1}
  DelaySecs = {0}
  Ops = {"NewPlayer", "Add", "Remove", "AddTimed", "RemoveTimed", "AddGroup", "RemoveGroup", "Grant", "Revoke"}
  NoEntry = NoEntry
  Workers = {w1}
  NoWorker = NoWorker
  Faults = {"update"}
  MaxFaults = 1
  MaxNow = 1
INVARIANTS TypeOK DbCacheCoherent
PROPERTIES RegistryInDb RegistryInCache
