SPECIFICATION ScopedSpec
CONSTANTS
  p1 = p1
  t1 = t1
  sv1 = sv1
  w1 = w1
  Players = {p1}
  Tribes = {t1}
  Groups = {Default, Admins}
  Perms = {Star}
  Star = Star
  DefaultGroup = Default
  AdminsGroup = Admins
  CallbackGroups = {}
  TribeOf <- NoTribe
  Secs = {1}
  DelaySecs = {0}
  Ops = {"Add", "Remove", "AddTimed", "RemoveTimed", "Grant", "Revoke"}
  NoEntry = NoEntry
  Servers = {sv1, sv2}
  Threads <- OneThread
  Faults = {"read", "insert", "update"}
  MaxFaults = 1
  MaxNow = 1
  Scopes = {"lists", "tribes", "rights"}
INVARIANTS
  TypeOK
PROPERTIES
  RevocationFinal
