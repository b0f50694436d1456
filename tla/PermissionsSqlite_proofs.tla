---------------------- MODULE PermissionsSqlite_proofs ----------------------
(***************************************************************************)
(* Theorems about the Permissions plugin on SQLite.                        *)
(***************************************************************************)
EXTENDS PermissionsSqlite, PermissionCommands_proofs

TypeInv == TypeOK /\ Phase

-----------------------------------------------------------------------------
(* Type correctness. *)

(* The new process starts with well-formed tables. *)
LEMMA RestartType ==
  ASSUME TypeInv, Restart
  PROVE  TypeInv'
<1> USE FaultsAssumption DEF TypeInv
<1>1. IsTable(db') /\ IsTable(cache')
  <2>1. IsTable(db')
    BY DefaultsTable DEF TypeOK, Restart
  <2>2. CASE cache' = db'
    BY <2>1, <2>2
  <2>3. CASE \E m \in Maps : \E K \in SUBSET KeysOf(m) :
               cache' = Rows(db', (Key \ KeysOf(m)) \cup K)
    BY <2>1, <2>3, RowsTable
  <2> QED
    BY <2>1, <2>2, <2>3 DEF Restart
<1>2. lock' \in [Maps -> Workers \cup {NoWorker}] /\ at' \in [Workers -> Maps \cup {"idle"}]
  BY DEF Restart
<1>3. DOMAIN read' = Workers /\ \A w \in Workers : IsTable(read'[w])
  BY EmptyTable DEF Restart
<1>4. pc' = "idle" /\ cmd' = NoCmd /\ online' = {} /\ now' \in Nat /\ faults' \in Nat
  BY DEF Restart, Return, Fails, TypeOK
<1> QED
  BY <1>1, <1>2, <1>3, <1>4 DEF TypeOK, Phase

(* A command is one of those the game can be given. *)
LEMMA CallType ==
  ASSUME TypeInv, NEW op, NEW target, NEW group, Call(op, target, group),
         [op |-> op, target |-> target, group |-> group] \in Cmd,
         op = "NewPlayer" => target \in Players
  PROVE  TypeInv'
<1> DEFINE c == [op |-> op, target |-> target, group |-> group]
<1>1. cmd' = c /\ pc' \in {"insert", "check"} /\ (pc' = "insert" => op \in Creators)
  BY DEF Call, Creates, Creators
<1>2. online' \subseteq Players
  BY DEF Call, TypeInv, TypeOK
<1> QED
  BY <1>1, <1>2 DEF Call, syncVars, TypeInv, TypeOK, Phase

(* The commands of players, tribes and groups. *)
LEMMA CommandType ==
  ASSUME TypeInv,
         \/ \E g \in Groups : \/ \E p \in Players : PlayerCommand(p, g)
                              \/ \E t \in Tribes : TribeCommand(t, g)
                              \/ GroupCommand(g)
         \/ \E p \in Players : HandleNewPlayer(p) \/ ClientNotifyAdmin(p)
  PROVE  TypeInv'
<1> USE DEF Cmd, SubjectOps, GroupOps, PermOps, Subjects
<1>1. ASSUME NEW g \in Groups, NEW p \in Players, PlayerCommand(p, g)
      PROVE  TypeInv'
  BY <1>1, CallType DEF PlayerCommand, AddPlayerToGroup, RemovePlayerFromGroup,
     AddPlayerToTimedGroup, RemovePlayerFromTimedGroup
<1>2. ASSUME NEW g \in Groups, NEW t \in Tribes, TribeCommand(t, g)
      PROVE  TypeInv'
  BY <1>2, CallType DEF TribeCommand, AddTribeToGroup, RemoveTribeFromGroup,
     AddTribeToTimedGroup, RemoveTribeFromTimedGroup
<1>3. ASSUME NEW g \in Groups, GroupCommand(g)
      PROVE  TypeInv'
  BY <1>3, CallType DEF GroupCommand, AddGroup, RemoveGroup, GroupGrantPermission,
     GroupRevokePermission
<1>4. ASSUME NEW p \in Players, HandleNewPlayer(p) \/ ClientNotifyAdmin(p)
      PROVE  TypeInv'
  BY <1>4, CallType, KeysAssumption DEF HandleNewPlayer, ClientNotifyAdmin, AddPlayerToGroup
<1> QED
  BY <1>1, <1>2, <1>3, <1>4

(* A reload assigns tables to the caches. *)
LEMMA SyncType ==
  ASSUME TypeInv, NEW w \in Workers, DatabaseSync(w) \/ SyncRead(w) \/ SyncAssign(w)
  PROVE  TypeInv'
<1> USE DEF TypeInv
<1>1. CASE DatabaseSync(w)
  BY <1>1 DEF DatabaseSync, TypeOK, Phase, gameVars, Maps
<1>2. CASE SyncRead(w)
  <2>1. at[w] \in Maps
    BY <1>2 DEF SyncRead, TypeOK
  <2>2. lock' \in [Maps -> Workers \cup {NoWorker}]
    BY <1>2, <2>1 DEF SyncRead, TypeOK
  <2>3. \E K \in SUBSET KeysOf(at[w]) : read' = [read EXCEPT ![w] = Rows(db, K)]
    BY <1>2 DEF SyncRead
  <2>4. DOMAIN read' = Workers /\ \A v \in Workers : IsTable(read'[v])
    BY <2>3, RowsTable DEF TypeOK
  <2> QED
    BY <1>2, <2>2, <2>4 DEF SyncRead, Fails, TypeOK, Phase, gameVars
<1>3. CASE SyncAssign(w)
  <2>1. at[w] \in Maps
    BY <1>3 DEF SyncAssign, TypeOK
  <2>2. IsTable(cache')
    BY <1>3, MergedTable DEF SyncAssign, TypeOK
  <2>3. at' \in [Workers -> Maps \cup {"idle"}] /\ lock' \in [Maps -> Workers \cup {NoWorker}]
    BY <1>3, <2>1, NextMapType DEF SyncAssign, TypeOK
  <2>4. DOMAIN read' = Workers /\ \A v \in Workers : IsTable(read'[v])
    BY <1>3, EmptyTable DEF SyncAssign, TypeOK
  <2> QED
    BY <1>3, <2>2, <2>3, <2>4 DEF SyncAssign, TypeOK, Phase, gameVars
<1> QED
  BY <1>1, <1>2, <1>3

(* The steps of a command write entries of their record's kind. *)
LEMMA GameType ==
  ASSUME TypeInv, Game
  PROVE  TypeInv'
<1> USE DEF TypeInv
<1>1. CASE Insert \/ CacheRow
  <2>1. cmd \in Cmd /\ cmd.op \in SubjectOps
    BY <1>1 DEF Insert, CacheRow, TypeOK, Phase, Creators, SubjectOps
  <2>2. cmd.target \in Key /\ IsEntry(cmd.target, NewRow(cmd.target))
    BY <2>1, CmdParts, KeyKinds, NewRowType DEF IsEntry
  <2>3. IsTable(db') /\ IsTable(cache')
    BY <1>1, <2>2, TableExcept DEF Insert, CacheRow, TypeOK
  <2> QED
    BY <1>1, <2>3 DEF Insert, CacheRow, Fails, TypeOK, Phase, syncVars
<1>2. CASE Check
  <2>1. CASE Done
    BY <1>2, <2>1 DEF Check, Done, Return, TypeOK, Phase, syncVars
  <2>2. CASE ~Done
    <3>1. cmd \in Cmd /\ CanProceed(cache, cmd, online, now) /\ list' \in Copies(cache, cmd, now)
      BY <1>2, <2>2 DEF Check, TypeOK
    <3>2. list' \in Lists(cmd.op)
      BY <3>1, CopiesType DEF TypeOK
    <3>3. cmd.op # "NewPlayer"
      BY <3>1 DEF CanProceed
    <3> QED
      BY <1>2, <2>2, <3>2, <3>3 DEF Check, TypeOK, Phase, syncVars
  <2> QED
    BY <2>1, <2>2
<1>3. CASE Update
  <2>1. CASE Done
    BY <1>3, <2>1 DEF Update, Fails, Done, Return, TypeOK, Phase, syncVars
  <2>2. CASE ~Done
    <3>1. /\ cmd \in Cmd /\ cmd.op # "NewPlayer" /\ list \in Lists(cmd.op)
          /\ Changed(cmd) \in Key
      BY <1>3, CmdParts DEF Update, TypeOK, Phase
    <3>2. IsEntry(Changed(cmd), Written(cmd, list, db[Changed(cmd)]))
      BY <3>1, TableEntry, WrittenType DEF TypeOK
    <3>3. IsTable(db')
      BY <1>3, <2>2, <3>1, <3>2, TableExcept DEF Update, TypeOK
    <3> QED
      BY <1>3, <2>2, <3>3 DEF Update, TypeOK, Phase, syncVars
  <2> QED
    BY <2>1, <2>2
<1>4. CASE Apply
  <2>1. CASE Restart
    BY <2>1, RestartType
  <2>2. CASE ~Restart
    <3>1. /\ cmd \in Cmd /\ cmd.op # "NewPlayer" /\ list \in Lists(cmd.op)
          /\ Changed(cmd) \in Key
      BY <1>4, CmdParts DEF Apply, TypeOK, Phase
    <3>2. PICK e \in Applied(cache, cmd, list) : cache' = [cache EXCEPT ![Changed(cmd)] = e]
      BY <1>4, <2>2 DEF Apply
    <3>3. IsTable(cache')
      BY <3>1, <3>2, AppliedType, TableExcept DEF TypeOK
    <3> QED
      BY <1>4, <2>2, <3>3 DEF Apply, Return, TypeOK, Phase, syncVars
  <2> QED
    BY <2>1, <2>2
<1> QED
  BY <1>1, <1>2, <1>3, <1>4 DEF Game

(* Every variable keeps its type, and a command is only at the labels its  *)
(* operation has: the state of PermissionsSqlite.                          *)
THEOREM TypeCorrect == Spec => [](TypeOK /\ Phase)
<1>1. Init => TypeInv
  <2> SUFFICES ASSUME Init PROVE TypeInv
    OBVIOUS
  <2>1. IsTable(db) /\ IsTable(cache) /\ \A w \in Workers : IsTable(read[w])
    BY EmptyTable, DefaultsTable DEF Init
  <2> QED
    BY <2>1 DEF Init, TypeInv, TypeOK, Phase
<1>2. TypeInv /\ [Next]_vars => TypeInv'
  <2> SUFFICES ASSUME TypeInv, [Next]_vars PROVE TypeInv'
    OBVIOUS
  <2>1. CASE \/ \E g \in Groups : \/ \E p \in Players : PlayerCommand(p, g)
                                  \/ \E t \in Tribes : TribeCommand(t, g)
                                  \/ GroupCommand(g)
             \/ \E p \in Players : HandleNewPlayer(p) \/ ClientNotifyAdmin(p)
    BY <2>1, CommandType
  <2>2. ASSUME NEW p \in Players, Leave(p)
        PROVE  TypeInv'
    BY <2>2 DEF Leave, TypeInv, TypeOK, Phase, syncVars
  <2>3. CASE Game
    BY <2>3, GameType
  <2>4. ASSUME NEW w \in Workers, DatabaseSync(w) \/ SyncRead(w) \/ SyncAssign(w)
        PROVE  TypeInv'
    BY <2>4, SyncType
  <2>5. CASE Tick
    BY <2>5 DEF Tick, TypeInv, TypeOK, Phase, gameVars, syncVars
  <2>6. CASE Crash
    BY <2>6, RestartType DEF Crash
  <2>7. CASE UNCHANGED vars
    BY <2>7 DEF vars, gameVars, syncVars, TypeInv, TypeOK, Phase
  <2> QED
    BY <2>1, <2>2, <2>3, <2>4, <2>5, <2>6, <2>7 DEF Next
<1>3. TypeInv => TypeOK /\ Phase
  BY DEF TypeInv
<1> QED
  BY <1>1, <1>2, <1>3, PTL DEF Spec
-----------------------------------------------------------------------------
(* The caches and the database. *)

(* A row and a group's row are different records. *)
LEMMA RowKinds == \A v \in Row : v \notin GroupRow
<1> SUFFICES ASSUME NEW v \in Row, v \in GroupRow PROVE FALSE
  OBVIOUS
<1>1. DOMAIN v = {"groups", "timed"} /\ DOMAIN v = {"perms"}
  BY DEF Row, GroupRow
<1> QED
  BY <1>1

(* What agreeing means for a subject and for a group. *)
LEMMA AgreeParts ==
  ASSUME NEW k \in Key, NEW v, IsEntry(k, v), NEW d, IsEntry(k, d)
  PROVE  /\ Agree(d, d)
         /\ k \in Subjects /\ Agree(v, d) =>
              (v = NoEntry /\ d = NoEntry) \/ (v \in Row /\ d \in Row /\ v.groups = d.groups)
         /\ k \in Groups /\ Agree(v, d) => v = d
BY RowKinds, KeyKinds DEF Agree, IsEntry, Key

(* Once the statement ran, the record as the cache held it before and the  *)
(* record as it is now are both pending.                                   *)
LEMMA WrittenPending ==
  ASSUME cmd \in Cmd, cmd.op # "NewPlayer", list \in Lists(cmd.op),
         NEW v, IsEntry(Changed(cmd), v), NEW d, IsEntry(Changed(cmd), d),
         Agree(v, d), Ready(d)
  PROVE  /\ Pending(v, Written(cmd, list, d))
         /\ Pending(Written(cmd, list, d), Written(cmd, list, d))
<1> USE CmdParts, KeyKinds
<1> DEFINE n == Written(cmd, list, d)
<1> SUFFICES Pending(v, n) /\ Pending(n, n)
  OBVIOUS
<1> HIDE DEF n
<1>1. CASE cmd.op \in {"Add", "Remove"}
  <2>1. d \in Row /\ v \in Row /\ v.groups = d.groups
    BY <1>1, AgreeParts DEF Ready, Listed, SubjectOps
  <2>2. n = [d EXCEPT !.groups = list] /\ list \subseteq Groups
    BY <1>1, <2>1 DEF n, Written, Lists
  <2>3. n \in Row /\ n.groups = list
    BY <2>1, <2>2 DEF Row
  <2> QED
    BY <1>1, <2>1, <2>3 DEF Pending, Ready, PermOps
<1>2. CASE cmd.op \in {"AddTimed", "RemoveTimed"}
  <2>1. d \in Row /\ v \in Row /\ v.groups = d.groups
    BY <1>2, AgreeParts DEF Ready, Listed, SubjectOps
  <2>2. PICK t \in SUBSET TimedGroup : n = [d EXCEPT !.timed = t]
    BY <1>2, <2>1 DEF n, Written, Lists, OtherTimed
  <2>3. n \in Row /\ n.groups = d.groups
    BY <2>1, <2>2 DEF Row
  <2> QED
    BY <1>2, <2>1, <2>3 DEF Pending, PermOps
<1>3. CASE cmd.op \in GroupOps
  BY <1>3 DEF n, Written, Pending, GroupOps, PermOps, Listed
<1>4. CASE cmd.op \in PermOps
  <2>1. d \in GroupRow /\ v = d /\ cmd.target \in Perms
    BY <1>4, AgreeParts DEF Ready, PermOps, SubjectOps
  <2>2. \/ cmd.op = "Grant" /\ n = [perms |-> d.perms \cup {cmd.target}]
        \/ cmd.op = "Revoke" /\ n = [perms |-> list] /\ list \subseteq Perms
    BY <1>4, <2>1 DEF n, Written, PermOps, Lists
  <2>3. n \in GroupRow
    BY <2>1, <2>2 DEF GroupRow
  <2> QED
    BY <1>4, <2>1, <2>2, <2>3 DEF Pending, PermOps, Listed
<1> QED
  BY <1>1, <1>2, <1>3, <1>4 DEF SubjectOps, GroupOps, PermOps

(* The change a command repeats in the cache makes a pending entry agree.  *)
LEMMA AppliedAgrees ==
  ASSUME IsTable(cache), cmd \in Cmd, cmd.op # "NewPlayer", list \in Lists(cmd.op),
         NEW d, IsEntry(Changed(cmd), d), Pending(cache[Changed(cmd)], d),
         NEW e \in Applied(cache, cmd, list)
  PROVE  Agree(e, d)
<1> USE CmdParts, KeyKinds
<1> DEFINE v == cache[Changed(cmd)]
<1>1. CASE cmd.op \in Listed
  <2>1. Changed(cmd) = cmd.target /\ v \in Row /\ d \in Row /\ Entered(cache, cmd.target) = v
    BY <1>1 DEF Pending, Listed, SubjectOps, Entered
  <2>2. CASE cmd.op \in {"Add", "Remove"}
    <3>1. \E g : e = [v EXCEPT !.groups = g] /\ g = d.groups
      BY <2>1, <2>2 DEF Applied, Pending
    <3>2. e \in Row /\ e.groups = d.groups
      BY <2>1, <3>1 DEF Row
    <3> QED
      BY <2>1, <3>2 DEF Agree
  <2>3. CASE cmd.op \in {"AddTimed", "RemoveTimed"}
    <3>1. /\ list \subseteq TimedGroup /\ v.timed \subseteq TimedGroup
          /\ \A t \in RemovedAt(v.timed, list, cmd.group) : t \subseteq v.timed
      BY <2>1, <2>3 DEF Lists, Row, RemovedAt, OtherTimed
    <3>2. \E t \in SUBSET TimedGroup : e = [v EXCEPT !.timed = t]
      BY <2>1, <2>3, <3>1 DEF Applied
    <3>3. e.groups = d.groups
      BY <2>1, <2>3, <3>2 DEF Row, Pending
    <3>4. e \in Row
      BY <2>1, <3>2 DEF Row
    <3> QED
      BY <2>1, <3>3, <3>4 DEF Agree
  <2> QED
    BY <1>1, <2>2, <2>3 DEF Listed
<1>2. CASE cmd.op \in GroupOps
  <2>1. NoPerms \in GroupRow
    BY DEF NoPerms, GroupRow
  <2> QED
    BY <1>2, <2>1 DEF Applied, Pending, Agree, GroupOps
<1>3. CASE cmd.op \in PermOps
  <2>1. Changed(cmd) = cmd.group /\ v \in GroupRow /\ d \in GroupRow
    BY <1>3 DEF Pending, PermOps, SubjectOps
  <2>2. e = [perms |-> d.perms]
    BY <1>3, <2>1 DEF Applied, Pending, PermOps
  <2>3. d = [perms |-> d.perms]
    BY <2>1 DEF GroupRow
  <2> QED
    BY <2>1, <2>2, <2>3 DEF Agree
<1> QED
  BY <1>1, <1>2, <1>3 DEF SubjectOps, GroupOps, PermOps, Listed
-----------------------------------------------------------------------------
(* The steps preserve the invariant. *)

(* Reads and inserts do not fail. *)
OnlyUpdatesFail == Faults \subseteq {"update"}

(* Types of the tables, key by key. *)
LEMMA EntriesTyped ==
  ASSUME IInv, NEW k \in Key
  PROVE  IsEntry(k, db[k]) /\ IsEntry(k, cache[k])
BY TableEntry DEF IInv, TypeOK

(* What the database holds follows itself, so a SELECT reads what it may. *)
LEMMA DbFollows ==
  ASSUME IInv, NEW k \in Key
  PROVE  Follows(k, db[k])
BY EntriesTyped, AgreeParts DEF Follows, IInv, Planned

(* A step that leaves the tables, the reloads and the labels "cacheRow"    *)
(* and "apply" alone keeps what the cache and the reads hold.              *)
LEMMA QuietStep ==
  ASSUME IInv, UNCHANGED <<db, cache, lock, at, read>>,
         pc \notin {"cacheRow", "apply"}, pc' \notin {"cacheRow", "apply"}
  PROVE  CacheFollows' /\ ReadsFollow' /\ LocksHeld'
BY DEF IInv, CacheFollows, ReadsFollow, LocksHeld, Follows, InFlight

(* A new process holds what the database holds. *)
LEMMA RestartStep ==
  ASSUME OnlyUpdatesFail, IInv, TypeInv', Restart
  PROVE  IInv'
<1>1. cache' = db' /\ pc' = "idle"
  BY DEF Restart, Fails, OnlyUpdatesFail, Return
<1>2. CacheFollows'
  BY <1>1, TableEntry, AgreeParts DEF CacheFollows, Follows, InFlight, TypeInv, TypeOK
<1>3. ReadsFollow' /\ LocksHeld'
  BY FaultsAssumption DEF Restart, ReadsFollow, LocksHeld
<1>4. Planned'
  BY <1>1 DEF Planned
<1> QED
  BY <1>2, <1>3, <1>4 DEF IInv, TypeInv

(* A command starts: it inserts only a subject the database lacks. *)
LEMMA CallStep ==
  ASSUME IInv, TypeInv', NEW op, NEW target, NEW group, Call(op, target, group)
  PROVE  IInv'
<1>1. CacheFollows' /\ ReadsFollow' /\ LocksHeld'
  BY QuietStep DEF Call, syncVars
<1>2. Planned'
  <2>1. cmd' \in Cmd /\ pc' \in {"insert", "check"} /\ cmd'.op = op /\ cmd'.target = target
    BY DEF Call, TypeInv, TypeOK
  <2>2. ASSUME cmd'.op \in Creators
        PROVE  /\ target \in Subjects /\ target \in Key
               /\ (cache[target] = NoEntry <=> db[target] = NoEntry)
               /\ db[target] = NoEntry \/ db[target] \in Row
    <3>1. target \in Subjects /\ target \in Key
      BY <2>1, <2>2, CmdParts, KeyKinds DEF Creators, SubjectOps
    <3>2. Agree(cache[target], db[target])
      BY <3>1 DEF IInv, CacheFollows, Follows, InFlight, Call
    <3> QED
      BY <3>1, <3>2, EntriesTyped, AgreeParts, KeyKinds
  <2>3. pc' = "insert" <=> op \in Creators /\ cache[target] = NoEntry
    BY DEF Call, Creates, Creators
  <2> QED
    BY <2>1, <2>2, <2>3 DEF Planned, Call
<1> QED
  BY <1>1, <1>2 DEF IInv, TypeInv

(* Every command is a Call. *)
LEMMA CommandStep ==
  ASSUME IInv, TypeInv',
         \/ \E g \in Groups : \/ \E p \in Players : PlayerCommand(p, g)
                              \/ \E t \in Tribes : TribeCommand(t, g)
                              \/ GroupCommand(g)
         \/ \E p \in Players : HandleNewPlayer(p) \/ ClientNotifyAdmin(p)
  PROVE  IInv'
BY CallStep DEF PlayerCommand, TribeCommand, GroupCommand, AddPlayerToGroup,
   RemovePlayerFromGroup, AddPlayerToTimedGroup, RemovePlayerFromTimedGroup, AddTribeToGroup,
   RemoveTribeFromGroup, AddTribeToTimedGroup, RemoveTribeFromTimedGroup, AddGroup,
   RemoveGroup, GroupGrantPermission, GroupRevokePermission, HandleNewPlayer, ClientNotifyAdmin

(* A reload reads and assigns what follows the database, and no two        *)
(* reloads are at one map's mutex.                                         *)
LEMMA SyncStep ==
  ASSUME OnlyUpdatesFail, IInv, TypeInv', NEW w \in Workers,
         DatabaseSync(w) \/ SyncRead(w) \/ SyncAssign(w)
  PROVE  IInv'
<1>1. UNCHANGED <<db, pc, cmd, list>>
  BY DEF DatabaseSync, SyncRead, SyncAssign, gameVars
<1>2. Planned' /\ \A k, v : Follows(k, v)' <=> Follows(k, v)
  BY <1>1 DEF IInv, Planned, Ready, Pending, Follows, InFlight
<1>3. "idle" \notin Maps /\ at \in [Workers -> Maps \cup {"idle"}]
      /\ lock \in [Maps -> Workers \cup {NoWorker}] /\ DOMAIN read = Workers
  BY DEF Maps, IInv, TypeOK
<1>4. CASE DatabaseSync(w)
  <2>1. UNCHANGED <<cache, lock, read>> /\ at[w] = "idle" /\ at' = [at EXCEPT ![w] = "groups"]
    BY <1>4 DEF DatabaseSync
  <2>2. \A m \in Maps : lock[m] # w
    BY <1>3, <2>1 DEF IInv, LocksHeld
  <2>3. CacheFollows'
    BY <1>2, <2>1 DEF IInv, CacheFollows
  <2>4. LocksHeld'
    BY <1>3, <2>1, <2>2 DEF IInv, LocksHeld
  <2>5. ReadsFollow'
    BY <1>2, <1>3, <2>1, <2>2 DEF IInv, ReadsFollow, Maps
  <2> QED
    BY <1>2, <2>3, <2>4, <2>5 DEF IInv, TypeInv
<1>5. CASE SyncRead(w)
  <2>1. /\ at[w] \in Maps /\ lock[at[w]] = NoWorker /\ UNCHANGED <<cache, at>>
        /\ lock' = [lock EXCEPT ![at[w]] = w]
        /\ read' = [read EXCEPT ![w] = Rows(db, KeysOf(at[w]))]
    BY <1>3, <1>5 DEF SyncRead, Free, Fails, OnlyUpdatesFail
  <2>2. \A k \in KeysOf(at[w]) : Follows(k, read'[w][k])
    BY <1>3, <2>1, KeysOfKey, DbFollows DEF Rows
  <2>3. ReadsFollow'
    BY <1>2, <1>3, <2>1, <2>2 DEF IInv, ReadsFollow
  <2>4. LocksHeld'
    BY <1>3, <2>1 DEF IInv, LocksHeld
  <2>5. CacheFollows'
    BY <1>2, <2>1 DEF IInv, CacheFollows
  <2> QED
    BY <1>2, <2>3, <2>4, <2>5 DEF IInv, TypeInv
<1>6. CASE SyncAssign(w)
  <2>1. /\ at[w] \in Maps /\ lock[at[w]] = w
        /\ cache' = [k \in Key |-> IF k \in KeysOf(at[w]) THEN read[w][k] ELSE cache[k]]
        /\ lock' = [lock EXCEPT ![at[w]] = NoWorker]
        /\ at' = [at EXCEPT ![w] = NextMap(at[w])]
        /\ read' = [read EXCEPT ![w] = Empty]
    BY <1>3, <1>6 DEF SyncAssign
  <2>2. CacheFollows'
    <3>1. \A k \in KeysOf(at[w]) : Follows(k, read[w][k])
      BY <1>3, <2>1 DEF IInv, ReadsFollow
    <3>2. \A k \in Key : Follows(k, cache'[k])
      BY <2>1, <3>1 DEF IInv, CacheFollows
    <3> QED
      BY <1>2, <3>2 DEF CacheFollows
  <2>3. \A m \in Maps : lock'[m] # w
    BY <1>3, <2>1, FaultsAssumption DEF IInv, LocksHeld
  <2>4. LocksHeld'
    BY <1>3, <2>1, <2>3, FaultsAssumption DEF IInv, LocksHeld
  <2>5. ReadsFollow'
    <3> SUFFICES ASSUME NEW v \in Workers, at'[v] # "idle", lock'[at'[v]] = v,
                        NEW k \in KeysOf(at'[v])
                 PROVE  Follows(k, read'[v][k])
      BY <1>2 DEF ReadsFollow
    <3>1. v # w
      BY <1>3, <2>1, <2>3, NextMapType
    <3>2. at'[v] = at[v] /\ read'[v] = read[v] /\ at[v] \in Maps
      BY <1>3, <2>1, <3>1
    <3>3. lock[at[v]] = v
      BY <1>3, <2>1, <3>2, FaultsAssumption
    <3> QED
      BY <3>2, <3>3 DEF IInv, ReadsFollow
  <2> QED
    BY <1>2, <2>2, <2>4, <2>5 DEF IInv, TypeInv
<1> QED
  BY <1>4, <1>5, <1>6

(* The INSERT and the row it caches. *)
LEMMA InsertStep ==
  ASSUME OnlyUpdatesFail, IInv, TypeInv', Insert \/ CacheRow
  PROVE  IInv'
<1> DEFINE t == cmd.target
<1>1. /\ cmd \in Cmd /\ cmd.op \in Creators /\ t \in Subjects /\ t \in Key
      /\ Changed(cmd) = t /\ NewRow(t) \in Row /\ NewRow(t) # NoEntry
  BY CmdParts, KeyKinds, NewRowType
     DEF Insert, CacheRow, IInv, TypeOK, Phase, Creators, SubjectOps
<1>2. UNCHANGED <<cmd, list, lock, at, read>>
  BY DEF Insert, CacheRow, syncVars
<1>3. CASE Insert
  <2>1. /\ pc = "insert" /\ pc' = "cacheRow" /\ UNCHANGED cache
        /\ db' = [db EXCEPT ![t] = NewRow(t)]
    BY <1>3, KeysAssumption DEF Insert, Fails, OnlyUpdatesFail, IInv, Planned
  <2>2. \A k \in Key : db'[k] = (IF k = t THEN NewRow(t) ELSE db[k])
    BY <1>1, <2>1 DEF IInv, TypeOK, IsTable
  <2>3. \A k \in Key : \A v : Follows(k, v) => Follows(k, v)'
    BY <1>1, <1>2, <2>1, <2>2 DEF Follows, InFlight
  <2>4. CacheFollows' /\ LocksHeld'
    BY <1>2, <2>1, <2>3 DEF IInv, CacheFollows, LocksHeld
  <2>5. ReadsFollow'
    BY <1>2, <2>3, KeysOfKey DEF IInv, ReadsFollow, TypeOK
  <2>6. Planned'
    BY <1>1, <1>2, <2>1, <2>2 DEF Planned
  <2> QED
    BY <2>4, <2>5, <2>6 DEF IInv, TypeInv
<1>4. CASE CacheRow
  <2>1. /\ pc = "cacheRow" /\ pc' = "check" /\ UNCHANGED db /\ lock[MapOf(t)] = NoWorker
        /\ cache' = [cache EXCEPT ![t] = NewRow(t)] /\ db[t] = NewRow(t)
    BY <1>4 DEF CacheRow, Free, IInv, Planned
  <2>2. \A k \in Key : \A v : k # t /\ Follows(k, v) => Follows(k, v)'
    BY <1>1, <1>2, <2>1 DEF Follows, InFlight
  <2>3. Follows(t, NewRow(t))'
    BY <1>1, <1>2, <2>1 DEF Follows, InFlight, Agree
  <2>4. CacheFollows' /\ LocksHeld'
    BY <1>1, <1>2, <2>1, <2>2, <2>3 DEF IInv, CacheFollows, LocksHeld, TypeOK, IsTable
  <2>5. ReadsFollow'
    <3> SUFFICES ASSUME NEW w \in Workers, at[w] # "idle", lock[at[w]] = w, NEW k \in KeysOf(at[w])
                 PROVE  Follows(k, read[w][k])'
      BY <1>2 DEF ReadsFollow
    <3>1. at[w] \in Maps /\ k \in Key
      BY KeysOfKey DEF IInv, TypeOK
    <3>2. k # t
      BY <1>1, <2>1, <3>1, KeysOfMapOf, FaultsAssumption
    <3> QED
      BY <1>2, <2>2, <3>1, <3>2 DEF IInv, ReadsFollow
  <2>6. Planned'
    BY <1>1, <1>2, <2>1 DEF Planned
  <2> QED
    BY <2>4, <2>5, <2>6 DEF IInv, TypeInv
<1> QED
  BY <1>3, <1>4

(* The guards: the list copied from the cache fits the database's row.     *)
LEMMA CheckStep ==
  ASSUME IInv, TypeInv', Check
  PROVE  IInv'
<1>1. UNCHANGED <<db, cache, lock, at, read>> /\ pc = "check" /\ pc' \in {"idle", "update"}
  BY DEF Check, Done, Return, syncVars
<1>2. CacheFollows' /\ ReadsFollow' /\ LocksHeld'
  BY <1>1, QuietStep
<1>3. Planned'
  <2>1. CASE pc' = "idle"
    BY <2>1 DEF Planned
  <2>2. CASE pc' = "update"
    <3> DEFINE k == Changed(cmd)
    <3>1. /\ cmd \in Cmd /\ cmd' = cmd /\ CanProceed(cache, cmd, online, now)
          /\ list' \in Copies(cache, cmd, now)
      BY <1>1, <2>2 DEF Check, Done, Return, IInv, TypeOK
    <3>2. k \in Key /\ Agree(cache[k], db[k])
      BY <1>1, <3>1, CmdParts DEF IInv, CacheFollows, Follows, InFlight
    <3>3. CASE cmd.op \in Listed
      <4>1. k = cmd.target /\ k \in Subjects
        BY <3>1, <3>3, CmdParts DEF Listed, SubjectOps
      <4>2. cache[k] # NoEntry \/ db[k] # NoEntry
        BY <1>1, <3>1, <3>3, <4>1, KeyKinds
           DEF CanProceed, Listed, Creators, IInv, Planned
      <4>3. db[k] \in Row /\ cache[k] \in Row /\ cache[k].groups = db[k].groups
        BY <3>2, <4>1, <4>2, EntriesTyped, AgreeParts
      <4>4. Entered(cache, cmd.target) = cache[k]
        BY <4>1, <4>3, KeyKinds DEF Entered
      <4>5. Ready(db[k])'
        BY <1>1, <3>1, <3>3, <4>1, <4>3, <4>4 DEF Ready, Copies, Listed, PermOps
      <4> QED
        BY <1>1, <2>2, <3>1, <4>5 DEF Planned
    <3>4. CASE cmd.op \in GroupOps
      BY <1>1, <2>2, <3>1, <3>4 DEF Planned, Ready, GroupOps, Listed, PermOps
    <3>5. CASE cmd.op \in PermOps
      <4>1. k = cmd.group /\ k \in Groups
        BY <3>1, <3>5, CmdParts DEF PermOps, SubjectOps
      <4>2. cache[k] = db[k] /\ db[k] \in GroupRow
        BY <3>1, <3>2, <3>5, <4>1, EntriesTyped, AgreeParts DEF CanProceed, PermOps, IsEntry
      <4>3. Ready(db[k])'
        BY <1>1, <3>1, <3>5, <4>1, <4>2 DEF Ready, Copies, Listed, PermOps
      <4> QED
        BY <1>1, <2>2, <3>1, <4>3 DEF Planned
    <3>6. cmd.op # "NewPlayer"
      BY <3>1 DEF CanProceed
    <3> QED
      BY <3>1, <3>3, <3>4, <3>5, <3>6, CmdParts DEF SubjectOps, Listed
  <2> QED
    BY <1>1, <2>1, <2>2
<1> QED
  BY <1>2, <1>3 DEF IInv, TypeInv

(* The statement: the change of the cache that is to follow makes the old  *)
(* and the new record agree with the database.                             *)
LEMMA UpdateStep ==
  ASSUME IInv, TypeInv', Update
  PROVE  IInv'
<1>1. pc = "update" /\ UNCHANGED <<cache, lock, at, read>>
  BY DEF Update, Done, Return, syncVars
<1>2. CASE Done
  <2>1. CacheFollows' /\ ReadsFollow' /\ LocksHeld'
    BY <1>1, <1>2, QuietStep DEF Done, Return
  <2> QED
    BY <1>2, <2>1 DEF Done, Return, Planned, IInv, TypeInv
<1>3. CASE ~Done
  <2> DEFINE c == Changed(cmd)
             n == Written(cmd, list, db[c])
  <2>1. /\ cmd \in Cmd /\ cmd.op # "NewPlayer" /\ list \in Lists(cmd.op)
        /\ c \in Key /\ Ready(db[c])
    BY <1>1, CmdParts DEF IInv, TypeOK, Phase, Planned
  <2>2. /\ UNCHANGED <<cmd, list>> /\ pc' = "apply" /\ db' = [db EXCEPT ![c] = n]
    BY <1>3 DEF Update
  <2>3. \A k \in Key : db'[k] = (IF k = c THEN n ELSE db[k])
    BY <2>1, <2>2 DEF IInv, TypeOK, IsTable
  <2>4. \A v : IsEntry(c, v) /\ Agree(v, db[c]) => Pending(v, n) /\ Pending(n, n)
    BY <2>1, EntriesTyped, WrittenPending
  <2> HIDE DEF n
  <2>5. \A k \in Key : \A v : IsEntry(k, v) /\ Follows(k, v) => Follows(k, v)'
    BY <1>1, <2>1, <2>2, <2>3, <2>4 DEF Follows, InFlight, Pending
  <2>6. CacheFollows' /\ LocksHeld'
    BY <1>1, <2>5, EntriesTyped DEF IInv, CacheFollows, LocksHeld
  <2>7. ReadsFollow'
    <3> SUFFICES ASSUME NEW w \in Workers, at[w] # "idle", lock[at[w]] = w, NEW k \in KeysOf(at[w])
                 PROVE  Follows(k, read[w][k])'
      BY <1>1 DEF ReadsFollow
    <3>1. k \in Key /\ IsEntry(k, read[w][k])
      BY KeysOfKey, TableEntry DEF IInv, TypeOK
    <3>2. Follows(k, read[w][k])
      BY DEF IInv, ReadsFollow
    <3> QED
      BY <1>1, <2>5, <3>1, <3>2
  <2>8. Pending(n, n)
    BY <2>1, <2>4, EntriesTyped, AgreeParts
  <2>9. Planned'
    BY <2>1, <2>2, <2>3, <2>8 DEF Planned, Pending
  <2> QED
    BY <2>6, <2>7, <2>9 DEF IInv, TypeInv
<1> QED
  BY <1>2, <1>3

(* The change of the cache makes its entry agree with the database.        *)
LEMMA ApplyStep ==
  ASSUME OnlyUpdatesFail, IInv, TypeInv', Apply
  PROVE  IInv'
<1>1. CASE Restart
  BY <1>1, RestartStep
<1>2. CASE ~Restart
  <2> DEFINE c == Changed(cmd)
  <2>1. /\ pc = "apply" /\ cmd \in Cmd /\ cmd.op # "NewPlayer" /\ list \in Lists(cmd.op)
        /\ c \in Key /\ lock[MapOf(c)] = NoWorker /\ IsTable(cache)
    BY CmdParts DEF Apply, Free, IInv, TypeOK, Phase
  <2>2. PICK e \in Applied(cache, cmd, list) : cache' = [cache EXCEPT ![c] = e]
    BY <1>2 DEF Apply
  <2>3. pc' = "idle" /\ UNCHANGED <<db, lock, at, read>>
    BY <1>2 DEF Apply, Return, syncVars
  <2>4. Pending(cache[c], db[c])
    BY <2>1 DEF IInv, CacheFollows, Follows
  <2>5. Agree(e, db[c])
    BY <2>1, <2>4, EntriesTyped, AppliedAgrees
  <2>6. \A k \in Key : \A v : k # c /\ Follows(k, v) => Follows(k, v)'
    BY <2>1, <2>3 DEF Follows, InFlight
  <2>7. CacheFollows'
    <3>1. \A k \in Key : cache'[k] = (IF k = c THEN e ELSE cache[k])
      BY <2>1, <2>2 DEF IsTable
    <3>2. \A k \in Key : k # c => Agree(cache[k], db[k])
      BY <2>1 DEF IInv, CacheFollows, Follows, InFlight
    <3>3. \A k \in Key : Agree(cache'[k], db'[k])
      BY <2>3, <2>5, <3>1, <3>2
    <3> QED
      BY <2>3, <3>3 DEF CacheFollows, Follows, InFlight
  <2>8. ReadsFollow'
    <3> SUFFICES ASSUME NEW w \in Workers, at[w] # "idle", lock[at[w]] = w, NEW k \in KeysOf(at[w])
                 PROVE  Follows(k, read[w][k])'
      BY <2>3 DEF ReadsFollow
    <3>1. at[w] \in Maps /\ k \in Key
      BY KeysOfKey DEF IInv, TypeOK
    <3>2. k # c
      BY <2>1, <3>1, KeysOfMapOf, FaultsAssumption
    <3> QED
      BY <2>3, <2>6, <3>1, <3>2 DEF IInv, ReadsFollow
  <2>9. Planned' /\ LocksHeld'
    BY <2>3 DEF Planned, IInv, LocksHeld
  <2> QED
    BY <2>7, <2>8, <2>9 DEF IInv, TypeInv
<1> QED
  BY <1>1, <1>2

(* The invariant is inductive. *)
LEMMA Inductive ==
  ASSUME OnlyUpdatesFail, IInv, TypeInv', [Next]_vars
  PROVE  IInv'
<1>1. CASE \/ \E g \in Groups : \/ \E p \in Players : PlayerCommand(p, g)
                                \/ \E t \in Tribes : TribeCommand(t, g)
                                \/ GroupCommand(g)
           \/ \E p \in Players : HandleNewPlayer(p) \/ ClientNotifyAdmin(p)
  BY <1>1, CommandStep
<1>2. CASE (\E p \in Players : Leave(p)) \/ Tick \/ UNCHANGED vars
  <2>1. UNCHANGED <<db, cache, lock, at, read, pc, cmd, list>>
    BY <1>2 DEF Leave, Tick, vars, gameVars, syncVars
  <2> QED
    BY <2>1 DEF IInv, TypeInv, Planned, Ready, Pending, CacheFollows, ReadsFollow, LocksHeld,
       Follows, InFlight
<1>3. CASE Insert \/ CacheRow
  BY <1>3, InsertStep
<1>4. CASE Check
  BY <1>4, CheckStep
<1>5. CASE Update
  BY <1>5, UpdateStep
<1>6. CASE Apply
  BY <1>6, ApplyStep
<1>7. CASE \E w \in Workers : DatabaseSync(w) \/ SyncRead(w) \/ SyncAssign(w)
  BY <1>7, SyncStep
<1>8. CASE Crash
  BY <1>8, RestartStep DEF Crash
<1> QED
  BY <1>1, <1>2, <1>3, <1>4, <1>5, <1>6, <1>7, <1>8 DEF Next, Game

(* The invariant holds in every reachable state.                           *)
LEMMA Invariant ==
  ASSUME OnlyUpdatesFail
  PROVE  Spec => []IInv
<1>1. Init => IInv
  <2> SUFFICES ASSUME Init PROVE IInv
    OBVIOUS
  <2>1. IsTable(db) /\ cache = db /\ \A w \in Workers : IsTable(read[w])
    BY EmptyTable, DefaultsTable DEF Init
  <2>2. TypeOK /\ Phase /\ Planned
    BY <2>1 DEF Init, TypeOK, Phase, Planned
  <2>3. CacheFollows
    BY <2>1, TableEntry, AgreeParts DEF Init, CacheFollows, Follows, InFlight
  <2>4. ReadsFollow /\ LocksHeld
    BY FaultsAssumption DEF Init, ReadsFollow, LocksHeld
  <2> QED
    BY <2>2, <2>3, <2>4 DEF IInv
<1>2. IInv /\ TypeInv' /\ [Next]_vars => IInv'
  BY Inductive
<1>3. Spec => []TypeInv
  BY TypeCorrect DEF TypeInv
<1> QED
  BY <1>1, <1>2, <1>3, PTL DEF Spec

(* The caches hold what the database holds, except for the record a        *)
(* command is just writing (Init of SqlLite and the writes of the          *)
(* commands), as long as no SELECT and no INSERT fails.                    *)
THEOREM Coherent ==
  ASSUME OnlyUpdatesFail
  PROVE  Spec => []DbCacheCoherent
<1>1. IInv => DbCacheCoherent
  BY DEF IInv, CacheFollows, Follows, DbCacheCoherent
<1>2. Spec => []IInv
  BY Invariant
<1> QED
  BY <1>1, <1>2, PTL
-----------------------------------------------------------------------------
(* The database is a registry of memberships. *)

(* A step that changes no subject's groups is a step of the registry.      *)
LEMMA SameMembers ==
  ASSUME \A s \in Subjects : db'[s] = db[s]
  PROVE  InDb!Next
<1>1. Permanent(db)' = Permanent(db)
  BY DEF Permanent
<1> QED
  BY <1>1 DEF InDb!Next, InDb!Receive

(* One record is written: the others keep their groups.                    *)
LEMMA OneMember ==
  ASSUME IInv, NEW t \in Subjects, NEW n \in Row, db' = [db EXCEPT ![t] = n]
  PROVE  /\ Permanent(db)' = [Permanent(db) EXCEPT ![t] = n.groups]
         /\ Permanent(db)[t] = (IF db[t] = NoEntry THEN NoEntry ELSE db[t].groups)
<1>1. \A s \in Subjects : db'[s] = (IF s = t THEN n ELSE db[s])
  BY KeyKinds DEF IInv, TypeOK, IsTable
<1>2. n # NoEntry
  BY KeyKinds
<1> DEFINE m(f, s) == Kept(f[s])
<1>3. /\ Permanent(db) = [s \in Subjects |-> m(db, s)]
      /\ Permanent(db)' = [s \in Subjects |-> m(db', s)]
  BY DEF Permanent
<1>4. \A s \in Subjects : m(db', s) = (IF s = t THEN n.groups ELSE m(db, s))
  BY <1>1, <1>2 DEF Kept
<1> HIDE DEF m
<1>5. Permanent(db)' = [s \in Subjects |-> IF s = t THEN n.groups ELSE m(db, s)]
  BY <1>3, <1>4
<1>6. [Permanent(db) EXCEPT ![t] = n.groups]
        = [s \in Subjects |-> IF s = t THEN n.groups ELSE m(db, s)]
  BY <1>3
<1> QED
  BY <1>3, <1>5, <1>6 DEF m, Kept

(* An INSERT enters a subject the registry does not know.                  *)
LEMMA InsertEnters ==
  ASSUME OnlyUpdatesFail, IInv, Insert
  PROVE  InDb!Next
<1> DEFINE t == cmd.target
<1>1. cmd.op \in Creators /\ t \in Subjects
  BY CmdParts DEF Insert, IInv, TypeOK, Phase, Creators, SubjectOps
<1>2. db[t] = NoEntry /\ db' = [db EXCEPT ![t] = NewRow(t)]
  BY KeysAssumption DEF Insert, Fails, OnlyUpdatesFail, IInv, Planned
<1>3. /\ Permanent(db)' = [Permanent(db) EXCEPT ![t] = NewRow(t).groups]
      /\ Permanent(db)[t] = NoEntry
  BY <1>1, <1>2, OneMember, NewRowType
<1>4. NewRow(t).groups = IF t \in Players THEN {DefaultGroup} ELSE {}
  BY DEF NewRow
<1>5. InDb!Enter(t)
  BY <1>1, <1>3, <1>4 DEF InDb!Enter, Creators
<1> QED
  BY <1>1, <1>5 DEF InDb!Next, InDb!Subjects, Subjects

(* An UPDATE makes its subject join or leave the command's group, or       *)
(* changes no membership that is for good.                                 *)
LEMMA UpdateJoins ==
  ASSUME IInv, Update
  PROVE  InDb!Next
<1> DEFINE t == Changed(cmd)
           n == Written(cmd, list, db[t])
<1>1. /\ cmd \in Cmd /\ cmd.op # "NewPlayer" /\ list \in Lists(cmd.op)
      /\ t \in Key /\ Ready(db[t])
  BY CmdParts DEF Update, IInv, TypeOK, Phase, Planned
<1>2. CASE Done
  BY <1>2, SameMembers DEF Done
<1>3. ASSUME db' = [db EXCEPT ![t] = n], cmd.op \in Listed
      PROVE  InDb!Next
  <2>1. t = cmd.target /\ t \in Subjects /\ db[t] \in Row /\ db[t] # NoEntry
    BY <1>1, <1>3, CmdParts, KeyKinds DEF Listed, SubjectOps, Ready
  <2>2. /\ cmd.op \in {"Add", "Remove"} => n = [db[t] EXCEPT !.groups = list]
        /\ cmd.op \in {"AddTimed", "RemoveTimed"} =>
             \E x \in SUBSET TimedGroup : n = [db[t] EXCEPT !.timed = x]
    BY <1>1, <1>3, <2>1 DEF Written, Lists, OtherTimed
  <2>3. n \in Row /\ n.groups = IF cmd.op \in {"Add", "Remove"} THEN list ELSE db[t].groups
    BY <1>1, <1>3, <2>1, <2>2 DEF Listed, Row, Lists
  <2> HIDE DEF n
  <2>4. /\ Permanent(db)' = [Permanent(db) EXCEPT ![t] = n.groups]
        /\ Permanent(db)[t] = db[t].groups
    BY <1>3, <2>1, <2>3, OneMember
  <2>5. Permanent(db)[t] # NoEntry
    BY <2>1, <2>4, KeysAssumption DEF Row
  <2>6. CASE cmd.op = "Add"
    <3>1. InDb!Join(t)
      BY <1>1, <2>1, <2>3, <2>4, <2>5, <2>6 DEF InDb!Join, Ready
    <3> QED
      BY <2>1, <3>1 DEF InDb!Next, InDb!Subjects, Subjects
  <2>7. CASE cmd.op = "Remove"
    <3>1. InDb!Quit(t)
      BY <1>1, <2>1, <2>3, <2>4, <2>5, <2>7 DEF InDb!Quit, Ready
    <3> QED
      BY <2>1, <3>1 DEF InDb!Next, InDb!Subjects, Subjects
  <2>8. CASE cmd.op \in {"AddTimed", "RemoveTimed"}
    <3>1. Permanent(db)' = Permanent(db)
      BY <2>3, <2>4, <2>8 DEF Permanent
    <3> QED
      BY <3>1 DEF InDb!Next, InDb!Receive
  <2> QED
    BY <1>3, <2>6, <2>7, <2>8 DEF Listed
<1>4. ASSUME db' = [db EXCEPT ![t] = n], cmd.op \notin Listed
      PROVE  InDb!Next
  <2>1. t \in Groups
    BY <1>1, <1>4, CmdParts DEF Listed, SubjectOps
  <2> QED
    BY <1>4, <2>1, SameMembers, KeyKinds DEF IInv, TypeOK, IsTable
<1> QED
  BY <1>2, <1>3, <1>4 DEF Update

(* The table of players and tribes is a registry that serves one request   *)
(* at a time: no UPDATE of a whole list, no INSERT, no reload and no       *)
(* restart changes a permanent membership but the one the command is       *)
(* about, as long as no SELECT and no INSERT fails.                        *)
THEOREM DbImplementsRegistry ==
  ASSUME OnlyUpdatesFail
  PROVE  Spec => RegistryInDb
<1>1. Init => InDb!Init
  <2> SUFFICES ASSUME Init PROVE InDb!Init
    OBVIOUS
  <2>1. \A s \in Subjects : db[s] = NoEntry
    BY EmptyTable, DefaultsSubjects, KeyKinds DEF Init, Empty
  <2> QED
    BY <2>1 DEF InDb!Init, InDb!Subjects, Subjects, Permanent, Kept
<1>2. IInv /\ [Next]_vars => [InDb!Next]_<<Permanent(db), cmd>>
  <2> SUFFICES ASSUME IInv, [Next]_vars PROVE InDb!Next \/ UNCHANGED <<Permanent(db), cmd>>
    OBVIOUS
  <2>1. CASE Restart
    <3>1. \A s \in Subjects : db'[s] = db[s]
      BY <2>1, DefaultsSubjects DEF Restart, IInv, TypeOK
    <3> QED
      BY <3>1, SameMembers
  <2>2. CASE Insert
    BY <2>2, InsertEnters
  <2>3. CASE Update
    BY <2>3, UpdateJoins
  <2>4. CASE UNCHANGED db
    BY <2>4, SameMembers
  <2>5. Restart \/ Insert \/ Update \/ UNCHANGED db
    <3>1. CASE Game
      BY <3>1 DEF Game, CacheRow, Check, Done, Apply
    <3>2. CASE ~Game
      BY <3>2 DEF Next, vars, PlayerCommand, TribeCommand, GroupCommand, AddPlayerToGroup,
         RemovePlayerFromGroup, AddPlayerToTimedGroup, RemovePlayerFromTimedGroup,
         AddTribeToGroup, RemoveTribeFromGroup, AddTribeToTimedGroup,
         RemoveTribeFromTimedGroup, AddGroup, RemoveGroup, GroupGrantPermission,
         GroupRevokePermission, HandleNewPlayer, ClientNotifyAdmin, Call, Leave,
         DatabaseSync, SyncRead, SyncAssign, Tick, Crash
    <3> QED
      BY <3>1, <3>2
  <2> QED
    BY <2>1, <2>2, <2>3, <2>4, <2>5
<1>3. Spec => []IInv
  BY Invariant
<1> QED
  BY <1>1, <1>2, <1>3, PTL DEF Spec, RegistryInDb, InDb!Spec
-----------------------------------------------------------------------------
(* The caches are a registry of memberships. *)

(* For an entry of a subject, agreeing is keeping the same groups.         *)
LEMMA AgreeKept ==
  ASSUME NEW s \in Subjects, NEW v, IsEntry(s, v), NEW d, IsEntry(s, d), Agree(v, d)
  PROVE  Kept(v) = Kept(d)
BY KeyKinds, AgreeParts DEF Kept

(* A row keeps a set of groups, never NoEntry.                             *)
LEMMA RowKept ==
  ASSUME NEW v \in Row
  PROVE  Kept(v) = v.groups /\ Kept(v) # NoEntry
BY KeyKinds, KeysAssumption DEF Kept, Row

(* What follows the database by a pending change is at most one membership *)
(* behind it.                                                              *)
LEMMA DbAhead ==
  ASSUME IInv, RowCached, NEW s \in Subjects
  PROVE  Ahead(s, db[s], cache[s])
<1>1. s \in Key /\ s \notin Groups
  BY KeyKinds
<1>2. IsEntry(s, db[s]) /\ IsEntry(s, cache[s]) /\ Follows(s, cache[s])
  BY <1>1, EntriesTyped DEF IInv, CacheFollows
<1>3. CASE ~InFlight(s)
  BY <1>2, <1>3, AgreeKept DEF Follows, Ahead
<1>4. CASE InFlight(s) /\ pc = "cacheRow"
  <2>1. s = cmd.target
    BY <1>4, CmdParts DEF InFlight, IInv, TypeOK, Phase, Creators, SubjectOps
  <2>2. Kept(db[s]) = NewRow(s).groups
    BY <1>4, <2>1, NewRowType, RowKept DEF IInv, Planned
  <2> QED
    BY <1>4, <2>1, <2>2 DEF RowCached, Ahead
<1>5. CASE InFlight(s) /\ pc = "apply"
  <2>1. /\ cmd \in Cmd /\ cmd.op \in Listed /\ Changed(cmd) = s
        /\ Pending(cache[s], db[s])
    BY <1>1, <1>2, <1>5, CmdParts
       DEF InFlight, Follows, IInv, TypeOK, Phase, Listed, SubjectOps
  <2>2. cache[s] \in Row /\ db[s] \in Row
    BY <2>1 DEF Pending
  <2>3. /\ cmd.op = "Add" => db[s].groups = cache[s].groups \cup {cmd.group}
        /\ cmd.op = "Remove" => db[s].groups = cache[s].groups \ {cmd.group}
        /\ cmd.op \in {"AddTimed", "RemoveTimed"} => db[s].groups = cache[s].groups
    BY <2>1 DEF Pending
  <2> QED
    BY <1>5, <2>1, <2>2, <2>3, RowKept DEF Ahead, Listed
<1> QED
  BY <1>3, <1>4, <1>5 DEF InFlight

(* The change a command repeats in the cache is the one it is in flight    *)
(* for.                                                                    *)
LEMMA AppliedAhead ==
  ASSUME IInv, pc = "apply", NEW s \in Subjects, s = Changed(cmd),
         NEW e \in Applied(cache, cmd, list)
  PROVE  Ahead(s, e, cache[s])
<1>1. /\ cmd \in Cmd /\ cmd.op \in Listed /\ cmd.target = s /\ list \in Lists(cmd.op)
      /\ cmd.group \in Groups /\ cache[s] \in Row
  BY CmdParts, KeyKinds
     DEF IInv, TypeOK, Phase, CacheFollows, Follows, Pending, Listed, SubjectOps
<1> DEFINE v == cache[s]
<1>2. Entered(cache, cmd.target) = v
  BY <1>1, KeyKinds DEF Entered
<1>3. CASE cmd.op \in {"Add", "Remove"}
  <2>1. \E g \in SUBSET Groups : /\ e = [v EXCEPT !.groups = g]
                                 /\ cmd.op = "Add" => g = v.groups \cup {cmd.group}
                                 /\ cmd.op = "Remove" => g = v.groups \ {cmd.group}
    BY <1>1, <1>2, <1>3 DEF Applied, Row
  <2>2. /\ e \in Row
        /\ cmd.op = "Add" => e.groups = v.groups \cup {cmd.group}
        /\ cmd.op = "Remove" => e.groups = v.groups \ {cmd.group}
    BY <1>1, <2>1 DEF Row
  <2> QED
    BY <1>1, <1>3, <2>2, RowKept DEF Ahead, InFlight
<1>4. CASE cmd.op \in {"AddTimed", "RemoveTimed"}
  <2>1. /\ list \subseteq TimedGroup
        /\ \A t \in RemovedAt(v.timed, list, cmd.group) : t \subseteq v.timed
    BY <1>1, <1>4 DEF Lists, RemovedAt, OtherTimed
  <2>2. \E t \in SUBSET TimedGroup : e = [v EXCEPT !.timed = t]
    BY <1>1, <1>2, <1>4, <2>1 DEF Applied, Row
  <2>3. e \in Row /\ e.groups = v.groups
    BY <1>1, <2>2 DEF Row
  <2> QED
    BY <1>1, <2>3, RowKept DEF Ahead
<1> QED
  BY <1>1, <1>3, <1>4 DEF Listed

(* While a reload holds the mutex of a map, no other thread changes it.    *)
LEMMA ReadsUndisturbed ==
  ASSUME CacheIInv, NEW m \in Maps, lock[m] = NoWorker, NEW t \in KeysOf(m),
         UNCHANGED <<lock, at, read>>,
         \A k \in Key : k # t => cache'[k] = cache[k],
         InFlight(t)
  PROVE  ReadsAhead'
<1> SUFFICES ASSUME NEW w \in Workers, at[w] # "idle", lock[at[w]] = w,
                    NEW s \in KeysOf(at[w]) \cap Subjects
             PROVE  Ahead(s, read[w][s], cache[s])'
  BY DEF ReadsAhead
<1>1. at[w] \in Maps /\ s \in Key /\ s # t
  BY KeysOfKey, KeysOfMapOf, FaultsAssumption DEF CacheIInv, IInv, TypeOK
<1>2. Ahead(s, read[w][s], cache[s]) /\ ~InFlight(s)
  BY <1>1 DEF CacheIInv, ReadsAhead, InFlight
<1>3. Kept(read[w][s]) = Kept(cache[s])
  BY <1>2 DEF Ahead
<1> QED
  BY <1>1, <1>3 DEF Ahead, Kept

(* No reload holds what it read in a new process.                          *)
LEMMA RestartAhead ==
  ASSUME Restart
  PROVE  RowCached' /\ ReadsAhead'
BY FaultsAssumption DEF Restart, Return, RowCached, ReadsAhead

(* The game thread: what a command adds to the invariant it is in flight   *)
(* for, and the cache that no reload has under its mutex.                  *)
LEMMA GameAhead ==
  ASSUME OnlyUpdatesFail, CacheIInv, Game
  PROVE  RowCached' /\ ReadsAhead'
<1>1. CASE Insert
  <2> DEFINE t == cmd.target
  <2>1. UNCHANGED <<cache, cmd, lock, at, read>> /\ pc = "insert" /\ pc' = "cacheRow"
    BY <1>1, KeysAssumption
       DEF Insert, Fails, OnlyUpdatesFail, CacheIInv, IInv, Planned, syncVars
  <2>2. t \in Subjects /\ t \in Key
    BY <2>1, CmdParts, KeyKinds DEF CacheIInv, IInv, TypeOK, Phase, Creators, SubjectOps
  <2>3. cache[t] = NoEntry
    <3>1. db[t] = NoEntry /\ Agree(cache[t], db[t])
      BY <2>1, <2>2 DEF CacheIInv, IInv, Planned, CacheFollows, Follows, InFlight
    <3> QED
      BY <2>2, <3>1, KeyKinds, EntriesTyped, AgreeParts DEF CacheIInv
  <2>4. RowCached'
    BY <2>1, <2>3 DEF RowCached, Kept
  <2>5. ReadsAhead'
    BY <2>1 DEF CacheIInv, ReadsAhead, Ahead, InFlight
  <2> QED
    BY <2>4, <2>5
<1>2. CASE CacheRow
  <2> DEFINE t == cmd.target
  <2>1. /\ UNCHANGED <<cmd, lock, at, read>> /\ pc = "cacheRow" /\ pc' = "check"
        /\ lock[MapOf(t)] = NoWorker /\ cache' = [cache EXCEPT ![t] = NewRow(t)]
    BY <1>2 DEF CacheRow, Free, syncVars
  <2>2. t \in Key /\ Changed(cmd) = t
    BY <2>1, CmdParts DEF CacheIInv, IInv, TypeOK, Phase, Creators, SubjectOps
  <2>3. \A k \in Key : k # t => cache'[k] = cache[k]
    BY <2>1 DEF CacheIInv, IInv, TypeOK, IsTable
  <2>4. ReadsAhead'
    BY <2>1, <2>2, <2>3, KeysOfMapOf, ReadsUndisturbed DEF InFlight
  <2> QED
    BY <2>1, <2>4 DEF RowCached
<1>3. CASE Check \/ Update
  <2>1. /\ UNCHANGED <<cache, lock, at, read>> /\ pc \in {"check", "update"}
        /\ pc' \in {"idle", "update", "apply"}
    BY <1>3 DEF Check, Update, Done, Return, syncVars
  <2> QED
    BY <2>1 DEF CacheIInv, RowCached, ReadsAhead, Ahead, InFlight
<1>4. CASE Apply
  <2>1. CASE Restart
    BY <2>1, RestartAhead
  <2>2. CASE ~Restart
    <3> DEFINE t == Changed(cmd)
    <3>1. PICK e : cache' = [cache EXCEPT ![t] = e]
      BY <1>4, <2>2 DEF Apply
    <3>2. /\ UNCHANGED <<lock, at, read>> /\ pc = "apply" /\ pc' = "idle"
          /\ lock[MapOf(t)] = NoWorker /\ t \in Key
      BY <1>4, <2>2, CmdParts DEF Apply, Return, Free, syncVars, CacheIInv, IInv, TypeOK
    <3>3. \A k \in Key : k # t => cache'[k] = cache[k]
      BY <3>1 DEF CacheIInv, IInv, TypeOK, IsTable
    <3>4. ReadsAhead'
      BY <3>2, <3>3, KeysOfMapOf, ReadsUndisturbed DEF InFlight
    <3> QED
      BY <3>2, <3>4 DEF RowCached
  <2> QED
    BY <2>1, <2>2
<1> QED
  BY <1>1, <1>2, <1>3, <1>4 DEF Game

(* A reload reads what is at most one membership ahead of the cache, and   *)
(* two reloads work on different maps.                                     *)
LEMMA SyncAhead ==
  ASSUME OnlyUpdatesFail, CacheIInv, NEW w \in Workers,
         DatabaseSync(w) \/ SyncRead(w) \/ SyncAssign(w)
  PROVE  RowCached' /\ ReadsAhead'
<1>1. UNCHANGED <<db, pc, cmd>> /\ \A s, v, c : Ahead(s, v, c)' <=> Ahead(s, v, c)
  BY DEF DatabaseSync, SyncRead, SyncAssign, gameVars, Ahead, InFlight
<1>2. "idle" \notin Maps /\ at \in [Workers -> Maps \cup {"idle"}]
      /\ lock \in [Maps -> Workers \cup {NoWorker}] /\ DOMAIN read = Workers
  BY DEF Maps, CacheIInv, IInv, TypeOK
<1>3. CASE DatabaseSync(w)
  <2>1. UNCHANGED <<cache, lock, read>> /\ at[w] = "idle" /\ at' = [at EXCEPT ![w] = "groups"]
    BY <1>3 DEF DatabaseSync
  <2>2. \A m \in Maps : lock[m] # w
    BY <1>2, <2>1 DEF CacheIInv, IInv, LocksHeld
  <2>3. RowCached'
    BY <1>1, <2>1 DEF CacheIInv, RowCached
  <2>4. ReadsAhead'
    BY <1>1, <1>2, <2>1, <2>2 DEF CacheIInv, ReadsAhead, Maps
  <2> QED
    BY <2>3, <2>4
<1>4. CASE SyncRead(w)
  <2>1. /\ at[w] \in Maps /\ lock[at[w]] = NoWorker /\ UNCHANGED <<cache, at>>
        /\ lock' = [lock EXCEPT ![at[w]] = w]
        /\ read' = [read EXCEPT ![w] = Rows(db, KeysOf(at[w]))]
    BY <1>2, <1>4 DEF SyncRead, Free, Fails, OnlyUpdatesFail
  <2>2. \A s \in KeysOf(at[w]) \cap Subjects : Ahead(s, read'[w][s], cache[s])
    BY <1>2, <2>1, KeysOfKey, DbAhead DEF Rows, CacheIInv
  <2>3. ReadsAhead'
    BY <1>1, <1>2, <2>1, <2>2 DEF CacheIInv, ReadsAhead
  <2>4. RowCached'
    BY <1>1, <2>1 DEF CacheIInv, RowCached
  <2> QED
    BY <2>3, <2>4
<1>5. CASE SyncAssign(w)
  <2>1. /\ at[w] \in Maps /\ lock[at[w]] = w
        /\ cache' = [k \in Key |-> IF k \in KeysOf(at[w]) THEN read[w][k] ELSE cache[k]]
        /\ lock' = [lock EXCEPT ![at[w]] = NoWorker]
        /\ at' = [at EXCEPT ![w] = NextMap(at[w])]
        /\ read' = [read EXCEPT ![w] = Empty]
    BY <1>2, <1>5 DEF SyncAssign
  <2>2. \A s \in KeysOf(at[w]) \cap Subjects : Ahead(s, read[w][s], cache[s])
    BY <1>2, <2>1 DEF CacheIInv, ReadsAhead
  <2>3. ASSUME pc = "cacheRow"
        PROVE  RowCached'
    <3>1. cmd.target \in Subjects /\ cmd.target \in Key
      BY <2>3, CmdParts, KeyKinds DEF CacheIInv, IInv, TypeOK, Phase, Creators, SubjectOps
    <3>2. CASE cmd.target \in KeysOf(at[w])
      BY <1>1, <2>1, <2>2, <2>3, <3>1, <3>2 DEF CacheIInv, RowCached, Ahead
    <3>3. CASE cmd.target \notin KeysOf(at[w])
      BY <1>1, <2>1, <2>3, <3>1, <3>3 DEF CacheIInv, RowCached
    <3> QED
      BY <3>2, <3>3
  <2>4. \A m \in Maps : lock'[m] # w
    BY <1>2, <2>1, FaultsAssumption DEF CacheIInv, IInv, LocksHeld
  <2>5. ReadsAhead'
    <3> SUFFICES ASSUME NEW v \in Workers, at'[v] # "idle", lock'[at'[v]] = v,
                        NEW s \in KeysOf(at'[v]) \cap Subjects
                 PROVE  Ahead(s, read'[v][s], cache'[s])
      BY <1>1 DEF ReadsAhead
    <3>1. v # w
      BY <1>2, <2>1, <2>4, NextMapType
    <3>2. at'[v] = at[v] /\ read'[v] = read[v] /\ at[v] \in Maps
      BY <1>2, <2>1, <3>1
    <3>3. lock[at[v]] = v /\ at[v] # at[w]
      BY <1>2, <2>1, <3>1, <3>2, FaultsAssumption
    <3>4. s \in Key /\ s \notin KeysOf(at[w])
      BY <2>1, <3>2, <3>3, KeysOfKey, KeysOfMapOf
    <3> QED
      BY <2>1, <3>2, <3>3, <3>4 DEF CacheIInv, ReadsAhead
  <2> QED
    BY <1>1, <2>3, <2>5 DEF RowCached
<1> QED
  BY <1>3, <1>4, <1>5

(* Every step changes the cache at most where, and as, the command in      *)
(* flight is about to.                                                     *)
LEMMA CacheSteps ==
  ASSUME OnlyUpdatesFail, CacheIInv, [Next]_vars, NEW s \in Subjects
  PROVE  Ahead(s, cache'[s], cache[s])
<1>1. s \in Key /\ DOMAIN cache = Key
  BY KeyKinds DEF CacheIInv, IInv, TypeOK, IsTable
<1>2. CASE UNCHANGED cache
  BY <1>2 DEF Ahead
<1>3. CASE Restart
  <2>1. cache'[s] = db[s]
    BY <1>3, DefaultsSubjects DEF Restart, Fails, OnlyUpdatesFail, CacheIInv, IInv, TypeOK
  <2> QED
    BY <2>1, DbAhead DEF CacheIInv
<1>4. CASE CacheRow
  <2>1. /\ pc = "cacheRow" /\ cache' = [cache EXCEPT ![cmd.target] = NewRow(cmd.target)]
        /\ Changed(cmd) = cmd.target
    BY <1>4, CmdParts DEF CacheRow, CacheIInv, IInv, TypeOK, Phase, Creators, SubjectOps
  <2>2. CASE s = cmd.target
    <3>1. cache'[s] = NewRow(s) /\ Kept(NewRow(s)) = NewRow(s).groups
      BY <1>1, <2>1, <2>2, NewRowType, RowKept
    <3> QED
      BY <2>1, <2>2, <3>1 DEF CacheIInv, RowCached, Ahead, InFlight
  <2>3. CASE s # cmd.target
    BY <1>1, <2>1, <2>3 DEF Ahead
  <2> QED
    BY <2>2, <2>3
<1>5. CASE Apply /\ ~Restart
  <2>1. PICK e \in Applied(cache, cmd, list) : cache' = [cache EXCEPT ![Changed(cmd)] = e]
    BY <1>5 DEF Apply
  <2>2. CASE s = Changed(cmd)
    BY <1>1, <1>5, <2>1, <2>2, AppliedAhead DEF Apply, CacheIInv
  <2>3. CASE s # Changed(cmd)
    BY <1>1, <2>1, <2>3 DEF Ahead
  <2> QED
    BY <2>2, <2>3
<1>6. ASSUME NEW w \in Workers, SyncAssign(w)
      PROVE  Ahead(s, cache'[s], cache[s])
  <2>1. cache'[s] = IF s \in KeysOf(at[w]) THEN read[w][s] ELSE cache[s]
    BY <1>1, <1>6 DEF SyncAssign
  <2> QED
    BY <1>6, <2>1 DEF SyncAssign, CacheIInv, ReadsAhead, Ahead
<1>7. \/ UNCHANGED cache \/ Restart \/ CacheRow \/ (Apply /\ ~Restart)
      \/ \E w \in Workers : SyncAssign(w)
  <2>1. CASE Game
    BY <2>1 DEF Game, Insert, Check, Done, Update
  <2>2. CASE ~Game
    BY <2>2 DEF Next, vars, PlayerCommand, TribeCommand, GroupCommand, AddPlayerToGroup,
       RemovePlayerFromGroup, AddPlayerToTimedGroup, RemovePlayerFromTimedGroup,
       AddTribeToGroup, RemoveTribeFromGroup, AddTribeToTimedGroup,
       RemoveTribeFromTimedGroup, AddGroup, RemoveGroup, GroupGrantPermission,
       GroupRevokePermission, HandleNewPlayer, ClientNotifyAdmin, Call, Leave,
       DatabaseSync, SyncRead, Tick, Crash
  <2> QED
    BY <2>1, <2>2
<1> QED
  BY <1>2, <1>3, <1>4, <1>5, <1>6, <1>7

(* A command that starts, and a step that leaves the caches, the reloads   *)
(* and the command alone.                                                  *)
LEMMA OtherAhead ==
  ASSUME CacheIInv, [Next]_vars, ~Game, ~Restart,
         ~ \E w \in Workers : DatabaseSync(w) \/ SyncRead(w) \/ SyncAssign(w)
  PROVE  RowCached' /\ ReadsAhead'
<1>1. /\ UNCHANGED <<cache, lock, at, read>>
      /\ \/ UNCHANGED <<pc, cmd>>
         \/ pc = "idle" /\ pc' \in {"insert", "check"}
  BY DEF Next, vars, PlayerCommand, TribeCommand, GroupCommand, AddPlayerToGroup,
     RemovePlayerFromGroup, AddPlayerToTimedGroup, RemovePlayerFromTimedGroup,
     AddTribeToGroup, RemoveTribeFromGroup, AddTribeToTimedGroup,
     RemoveTribeFromTimedGroup, AddGroup, RemoveGroup, GroupGrantPermission,
     GroupRevokePermission, HandleNewPlayer, ClientNotifyAdmin, Call, Leave,
     Tick, Crash, gameVars, syncVars
<1> QED
  BY <1>1 DEF CacheIInv, RowCached, ReadsAhead, Ahead, InFlight

(* A step of the cache towards the command in flight is a step of the      *)
(* registry.                                                               *)
LEMMA AheadIsStep ==
  ASSUME TypeInv, \A s \in Subjects : Ahead(s, cache'[s], cache[s])
  PROVE  InCache!Next
<1> DEFINE t == Changed(cmd)
<1>1. /\ Permanent(cache) = [s \in Subjects |-> Kept(cache[s])]
      /\ Permanent(cache)' = [s \in Subjects |-> Kept(cache'[s])]
  BY DEF Permanent
<1>2. \A s \in Subjects : s # t => Kept(cache'[s]) = Kept(cache[s])
  BY DEF Ahead, InFlight
<1>3. CASE t \notin Subjects \/ Kept(cache'[t]) = Kept(cache[t])
  BY <1>1, <1>2, <1>3 DEF InCache!Next, InCache!Receive
<1>4. CASE t \in Subjects /\ Kept(cache'[t]) # Kept(cache[t])
  <2>1. /\ Permanent(cache)' = [Permanent(cache) EXCEPT ![t] = Kept(cache'[t])]
        /\ Permanent(cache)[t] = Kept(cache[t])
    BY <1>1, <1>2, <1>4
  <2>2. Ahead(t, cache'[t], cache[t])
    BY <1>4
  <2>3. pc # "idle" /\ cmd \in Cmd /\ t = cmd.target
    BY <1>4, <2>2, CmdParts, KeyKinds DEF Ahead, InFlight, TypeInv, TypeOK
  <2>4. CASE pc = "cacheRow"
    <3>1. cmd.op \in Creators /\ Kept(cache[t]) = NoEntry /\ Kept(cache'[t]) = NewRow(t).groups
      BY <1>4, <2>2, <2>4 DEF Ahead, TypeInv, Phase
    <3>2. NewRow(t).groups = IF t \in Players THEN {DefaultGroup} ELSE {}
      BY DEF NewRow
    <3>3. InCache!Enter(t)
      BY <2>1, <2>3, <3>1, <3>2 DEF InCache!Enter, Creators
    <3> QED
      BY <1>4, <3>3 DEF InCache!Next, InCache!Subjects, Subjects
  <2>5. CASE pc # "cacheRow"
    <3>1. /\ Kept(cache[t]) # NoEntry
          /\ \/ cmd.op = "Add" /\ Kept(cache'[t]) = Kept(cache[t]) \cup {cmd.group}
             \/ cmd.op = "Remove" /\ Kept(cache'[t]) = Kept(cache[t]) \ {cmd.group}
      BY <1>4, <2>2, <2>5 DEF Ahead
    <3>2. InCache!Join(t) \/ InCache!Quit(t)
      BY <2>1, <2>3, <3>1 DEF InCache!Join, InCache!Quit
    <3> QED
      BY <1>4, <3>2 DEF InCache!Next, InCache!Subjects, Subjects
  <2> QED
    BY <2>4, <2>5
<1> QED
  BY <1>3, <1>4

(* The caches the server answers from are a registry too: no reload, no    *)
(* restart and no command of anybody else takes a membership back or gives *)
(* one that was taken, as long as no SELECT and no INSERT fails.           *)
THEOREM CacheImplementsRegistry ==
  ASSUME OnlyUpdatesFail
  PROVE  Spec => RegistryInCache
<1>1. Init => InCache!Init /\ RowCached /\ ReadsAhead
  <2> SUFFICES ASSUME Init PROVE InCache!Init /\ RowCached /\ ReadsAhead
    OBVIOUS
  <2>1. \A s \in Subjects : cache[s] = NoEntry
    BY EmptyTable, DefaultsSubjects, KeyKinds DEF Init, Empty
  <2>2. InCache!Init
    BY <2>1 DEF InCache!Init, InCache!Subjects, Subjects, Permanent, Kept
  <2>3. RowCached /\ ReadsAhead
    BY DEF Init, RowCached, ReadsAhead
  <2> QED
    BY <2>2, <2>3
<1>2. IInv /\ RowCached /\ ReadsAhead /\ [Next]_vars => RowCached' /\ ReadsAhead'
  <2> SUFFICES ASSUME CacheIInv, [Next]_vars PROVE RowCached' /\ ReadsAhead'
    BY DEF CacheIInv
  <2>1. CASE Game
    BY <2>1, GameAhead
  <2>2. CASE Restart
    BY <2>2, RestartAhead
  <2>3. CASE \E w \in Workers : DatabaseSync(w) \/ SyncRead(w) \/ SyncAssign(w)
    BY <2>3, SyncAhead
  <2> QED
    BY <2>1, <2>2, <2>3, OtherAhead
<1>3. /\ IInv /\ RowCached /\ ReadsAhead /\ [Next]_vars
           => [InCache!Next]_<<Permanent(cache), cmd>>
  <2> SUFFICES ASSUME CacheIInv, [Next]_vars PROVE InCache!Next
    BY DEF CacheIInv
  <2> QED
    BY CacheSteps, AheadIsStep DEF CacheIInv, IInv, TypeInv
<1>4. Spec => []IInv
  BY Invariant
<1> QED
  BY <1>1, <1>2, <1>3, <1>4, PTL DEF Spec, RegistryInCache, InCache!Spec
=============================================================================
