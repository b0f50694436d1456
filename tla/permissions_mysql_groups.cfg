SPECIFICATION FairScopedSpec
CONSTANTS
  p1 = p1
  t1 = t1
  sv1 = sv1
  w1 = w1
  Players = {p1}
  Tribes = {}
  Groups = {Default, Admins}
  Perms = {Star}
  Star = Star
  DefaultGroup = Default
  AdminsGroup = Admins
  CallbackGroups = {}
  TribeOf <- NoTribe
  Secs = {1}
  DelaySecs = {0}
  Ops = {"NewPlayer", "Add", "AddTimed", "RemoveTimed", "AddGroup", "RemoveGroup"}
  NoEntry = NoEntry
  Servers = {sv1}
  Threads <- OneThread
  Faults = {"read", "insert", "update"}
  MaxFaults = 1
  MaxNow = 0
  Scopes = {"timed", "groups"}
PROPERTIES
  Reconciled CommandsFinish
