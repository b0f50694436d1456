------------------------- MODULE PermissionsSqlite -------------------------
(***************************************************************************)
(* The Permissions plugin on SQLite: one server, whose game thread runs    *)
(* every hook, chat, console and RCON command, and a thread pool on which  *)
(* DatabaseSync reloads the caches.  A command evaluates its guards and    *)
(* copies the list it needs from the cache, writes the whole list to the   *)
(* database, and only then repeats the change in the cache; the reload     *)
(* holds each map's mutex from before its SELECT until after it assigned   *)
(* the result.                                                             *)
(*                                                                         *)
(* Evaluating the guards is one step: between two of them only a reload    *)
(* can act, and a reload before Check has the same effect.                 *)
(***************************************************************************)
EXTENDS PermissionCommands

CONSTANTS
  Workers,     \* threads of the pool that may run a reload
  NoWorker,
  Faults,      \* the kinds of statement that may fail
  MaxFaults,   \* bound of the number of failures
  MaxNow       \* bound of the clock

ASSUME FaultsAssumption ==
  /\ NoWorker \notin Workers
  /\ Faults \subseteq {"read", "insert", "update"}
  /\ MaxFaults \in Nat /\ MaxNow \in Nat

VARIABLES
  db,       \* the three tables
  cache,    \* permissionGroups, permissionPlayers and permissionTribes
  lock,     \* the holder of groupsMutex, playersMutex, tribesMutex
  at,       \* the map each worker is at, "idle" when it runs no reload
  read,     \* what the SELECT of each worker returned
  pc,       \* how far the game thread is in its command
  cmd,      \* the command: operation, target and group
  list,     \* the list the command copied from the cache
  online,   \* players with a player controller
  now,      \* the wall clock, in seconds
  faults    \* how many statements have failed

gameVars == <<pc, cmd, list, online>>
syncVars == <<lock, at, read>>
vars == <<db, cache, lock, at, read, pc, cmd, list, online, now, faults>>

FreeUnchecked(m) == TRUE  \* mutation: a thread that takes no mutex
Free(m) == lock[m] = NoWorker

Init ==
  /\ db = WithDefaultGroups(Empty)
  /\ cache = db
  /\ lock = [m \in Maps |-> NoWorker]
  /\ at = [w \in Workers |-> "idle"]
  /\ read = [w \in Workers |-> Empty]
  /\ pc = "idle"
  /\ cmd = NoCmd
  /\ list = {}
  /\ online = {}
  /\ now = 0
  /\ faults = 0

(* A statement of this kind fails. *)
Fails(kind) == kind \in Faults /\ faults < MaxFaults /\ faults' = faults + 1

-----------------------------------------------------------------------------
(***************************************************************************)
(* The reload: DatabaseSync queues Init, and Init loads map after map.     *)
(***************************************************************************)
DatabaseSync(w) ==
  /\ at[w] = "idle"
  /\ at' = [at EXCEPT ![w] = "groups"]
  /\ UNCHANGED <<db, cache, lock, read, gameVars, now, faults>>

SyncRead(w) ==
  /\ at[w] # "idle"
  /\ Free(at[w])
  /\ lock' = [lock EXCEPT ![at[w]] = w]
  /\ \/ read' = [read EXCEPT ![w] = Rows(db, KeysOf(at[w]))] /\ UNCHANGED faults
     \/ /\ Fails("read")
        /\ \E K \in SUBSET KeysOf(at[w]) : read' = [read EXCEPT ![w] = Rows(db, K)]
  /\ UNCHANGED <<db, cache, at, gameVars, now>>

SyncAssignKeepingLock(w) ==  \* mutation: no unlock() after the assignment
  /\ at[w] # "idle"
  /\ lock[at[w]] = w
  /\ cache' = [k \in Key |-> IF k \in KeysOf(at[w]) THEN read[w][k] ELSE cache[k]]
  /\ at' = [at EXCEPT ![w] = NextMap(at[w])]
  /\ read' = [read EXCEPT ![w] = Empty]
  /\ UNCHANGED <<db, lock, gameVars, now, faults>>

SyncAssign(w) ==
  /\ at[w] # "idle"
  /\ lock[at[w]] = w
  /\ cache' = [k \in Key |-> IF k \in KeysOf(at[w]) THEN read[w][k] ELSE cache[k]]
  /\ lock' = [lock EXCEPT ![at[w]] = NoWorker]
  /\ at' = [at EXCEPT ![w] = NextMap(at[w])]
  /\ read' = [read EXCEPT ![w] = Empty]
  /\ UNCHANGED <<db, gameVars, now, faults>>
-----------------------------------------------------------------------------
(***************************************************************************)
(* The game thread.                                                        *)
(***************************************************************************)
Return == pc' = "idle" /\ cmd' = NoCmd /\ list' = {}
Done == Return /\ UNCHANGED <<db, cache, online, now, syncVars>>

Call(op, target, group) ==
  LET c == [op |-> op, target |-> target, group |-> group] IN
  /\ op \in Ops
  /\ pc = "idle"
  /\ Free(MapOf(Changed(c)))
  /\ cmd' = c
  /\ pc' = IF Creates(cache, c) THEN "insert" ELSE "check"
  /\ online' = IF op = "NewPlayer" THEN online \cup {target} ELSE online
  /\ UNCHANGED <<db, cache, list, now, faults, syncVars>>

AddPlayerToGroup(p, g) == Call("Add", p, g)
RemovePlayerFromGroup(p, g) == Call("Remove", p, g)
AddPlayerToTimedGroup(p, g) == Call("AddTimed", p, g)
RemovePlayerFromTimedGroup(p, g) == Call("RemoveTimed", p, g)
AddTribeToGroup(t, g) == Call("Add", t, g)
RemoveTribeFromGroup(t, g) == Call("Remove", t, g)
AddTribeToTimedGroup(t, g) == Call("AddTimed", t, g)
RemoveTribeFromTimedGroup(t, g) == Call("RemoveTimed", t, g)
AddGroup(g) == Call("AddGroup", NoEntry, g)
RemoveGroup(g) == Call("RemoveGroup", NoEntry, g)
GroupGrantPermission(g, x) == Call("Grant", x, g)
GroupRevokePermission(g, x) == Call("Revoke", x, g)

(* The player is added if the cache does not know it. *)
HandleNewPlayer(p) == Call("NewPlayer", p, DefaultGroup)

(* Whoever becomes an admin in game joins "Admins". *)
ClientNotifyAdmin(p) ==
  /\ p \in online
  /\ Free("tribes")
  /\ \E reported \in SUBSET CallbackGroups :
       ~InGroup(cache, p, AdminsGroup, online, reported, now)
  /\ AddPlayerToGroup(p, AdminsGroup)

(***************************************************************************)
(* The INSERT of AddPlayer fails for a known player (SteamId is UNIQUE);   *)
(* that of AddTribe does not, and the newest row is the one read back.     *)
(* The commands do not look at the result.                                 *)
(***************************************************************************)
Insert ==
  /\ pc = "insert"
  /\ \/ /\ cmd.target \in Tribes \/ db[cmd.target] = NoEntry
        /\ db' = [db EXCEPT ![cmd.target] = NewRow(cmd.target)]
        /\ pc' = "cacheRow"
        /\ UNCHANGED faults
     \/ /\ \/ cmd.target \in Players /\ db[cmd.target] # NoEntry /\ UNCHANGED faults
           \/ Fails("insert")
        /\ pc' = "check"
        /\ UNCHANGED db
  /\ UNCHANGED <<cache, cmd, list, online, now, syncVars>>

CacheRow ==
  /\ pc = "cacheRow"
  /\ Free(MapOf(cmd.target))
  /\ cache' = [cache EXCEPT ![cmd.target] = NewRow(cmd.target)]
  /\ pc' = "check"
  /\ UNCHANGED <<db, cmd, list, online, now, faults, syncVars>>

(***************************************************************************)
(* GetGroupMembers holds playersMutex while IsPlayerInGroup locks it again *)
(* for each cached player.  Locking a std::mutex twice is undefined; the   *)
(* library of the build (MSVC) throws, and the exception leaves            *)
(* RemoveGroup before it changed anything.  Nothing in the plugin catches  *)
(* it: whether the server goes on (Done) or dies (Crash) is up to the      *)
(* game.                                                                   *)
(***************************************************************************)
Relocks == cmd.op = "RemoveGroup" /\ \E p \in Players : cache[p] # NoEntry

(* The guards and the copy of the list take the mutex once each; here they
   are one step, so that no reload is assigned between them. *)
Check ==
  /\ pc = "check"
  /\ \A m \in Maps : Free(m)
  /\ UNCHANGED faults
  /\ \/ CanRefuse(cache, cmd, online, now) /\ Done
     \/ Relocks /\ Done
     \/ /\ CanProceed(cache, cmd, online, now) /\ ~Relocks
        /\ \E copy \in Copies(cache, cmd, now) : list' = copy
        /\ pc' = "update"
        /\ UNCHANGED <<db, cache, cmd, online, now, syncVars>>

Update ==
  /\ pc = "update"
  /\ \/ Fails("update") /\ Done
     \/ /\ db' = [db EXCEPT ![Changed(cmd)] = Written(cmd, list, @)]
        /\ pc' = "apply"
        /\ UNCHANGED <<cache, cmd, list, online, now, faults, syncVars>>

(***************************************************************************)
(* Load fills the caches before the first command of a new process.        *)
(***************************************************************************)
Restart ==
  /\ db' = WithDefaultGroups(db)
  /\ \/ cache' = db' /\ UNCHANGED faults
     \/ /\ Fails("read")
        /\ \E m \in Maps : \E K \in SUBSET KeysOf(m) :
             cache' = Rows(db', (Key \ KeysOf(m)) \cup K)
  /\ lock' = [m \in Maps |-> NoWorker]
  /\ at' = [w \in Workers |-> "idle"]
  /\ read' = [w \in Workers |-> Empty]
  /\ Return
  /\ online' = {}
  /\ UNCHANGED now

Apply ==
  /\ pc = "apply"
  /\ Free(MapOf(Changed(cmd)))
  /\ \/ /\ \E e \in Applied(cache, cmd, list) : cache' = [cache EXCEPT ![Changed(cmd)] = e]
        /\ Return
        /\ UNCHANGED <<db, online, now, faults, syncVars>>
     \/ Stale(cache, cmd, list) /\ Restart
-----------------------------------------------------------------------------
(***************************************************************************)
(* The environment: players leave, time passes, and the process may die at *)
(* any point; it comes back through Load, which fills the caches before it *)
(* serves a command.                                                       *)
(***************************************************************************)
Leave(p) ==
  /\ pc = "idle"
  /\ p \in online
  /\ online' = online \ {p}
  /\ UNCHANGED <<db, cache, pc, cmd, list, now, faults, syncVars>>

Tick ==
  /\ now < MaxNow
  /\ now' = now + 1
  /\ UNCHANGED <<db, cache, gameVars, faults, syncVars>>

Crash ==
  /\ pc # "idle" \/ \E w \in Workers : at[w] # "idle"
  /\ Restart

PlayerCommand(p, g) ==
  \/ AddPlayerToGroup(p, g) \/ RemovePlayerFromGroup(p, g)
  \/ AddPlayerToTimedGroup(p, g) \/ RemovePlayerFromTimedGroup(p, g)

TribeCommand(t, g) ==
  \/ AddTribeToGroup(t, g) \/ RemoveTribeFromGroup(t, g)
  \/ AddTribeToTimedGroup(t, g) \/ RemoveTribeFromTimedGroup(t, g)

GroupCommand(g) ==
  \/ AddGroup(g) \/ RemoveGroup(g)
  \/ \E x \in Perms : GroupGrantPermission(g, x) \/ GroupRevokePermission(g, x)

Game == Insert \/ CacheRow \/ Check \/ Update \/ Apply

Next ==
  \/ \E g \in Groups : \/ \E p \in Players : PlayerCommand(p, g)
                       \/ \E t \in Tribes : TribeCommand(t, g)
                       \/ GroupCommand(g)
  \/ \E p \in Players : HandleNewPlayer(p) \/ ClientNotifyAdmin(p) \/ Leave(p)
  \/ Game
  \/ \E w \in Workers : DatabaseSync(w) \/ SyncRead(w) \/ SyncAssign(w)
  \/ Tick
  \/ Crash

Spec == Init /\ [][Next]_vars

(***************************************************************************)
(* The game thread and the pool's threads run; a lock that is taken again  *)
(* and again (a reload runs every 20 seconds or more) is got in the end.   *)
(* Nothing makes a player or an operator issue a command.                  *)
(***************************************************************************)
Fairness ==
  /\ SF_vars(Game)
  /\ \A w \in Workers : WF_vars(DatabaseSync(w)) /\ SF_vars(SyncRead(w)) /\ WF_vars(SyncAssign(w))

FairSpec == Spec /\ Fairness
-----------------------------------------------------------------------------
TypeOK ==
  /\ IsTable(db) /\ IsTable(cache)
  /\ lock \in [Maps -> Workers \cup {NoWorker}]
  /\ at \in [Workers -> Maps \cup {"idle"}]
  /\ DOMAIN read = Workers /\ \A w \in Workers : IsTable(read[w])
  /\ pc \in {"idle", "insert", "cacheRow", "check", "update", "apply"}
  /\ cmd \in Cmd \cup {NoCmd} /\ (pc # "idle" => cmd \in Cmd)
  /\ pc \in {"update", "apply"} => list \in Lists(cmd.op)
  /\ online \subseteq Players
  /\ now \in Nat /\ faults \in Nat

(***************************************************************************)
(* What a player is granted for good, in the database and on the server.   *)
(***************************************************************************)
Kept(v) == IF v = NoEntry THEN NoEntry ELSE v.groups
Permanent(f) == [s \in Subjects |-> Kept(f[s])]

Agree(v, d) ==
  \/ v = NoEntry /\ d = NoEntry
  \/ v \in Row /\ d \in Row /\ v.groups = d.groups
  \/ v \in GroupRow /\ v = d

InFlight(k) == pc \in {"cacheRow", "apply"} /\ Changed(cmd) = k

(***************************************************************************)
(* Apart from the one record a command is just writing, the caches hold    *)
(* the database's permanent memberships, its groups and its permissions,   *)
(* whatever reloads and crashes run between the two writes of a command.   *)
(* Init of SqlLite keeps each mutex from its SELECT to the assignment for  *)
(* this.                                                                   *)
(***************************************************************************)
DbCacheCoherent == \A k \in Key : ~InFlight(k) => Agree(cache[k], db[k])

(***************************************************************************)
(* The table and the cache each behave like a registry in which one        *)
(* request changes one membership: no write of a whole list undoes another *)
(* command's change (the UPDATEs of AddPlayerToGroup and the rest).        *)
(***************************************************************************)
InDb == INSTANCE MembershipRegistry WITH members <- Permanent(db), request <- cmd
InCache == INSTANCE MembershipRegistry WITH members <- Permanent(cache), request <- cmd
RegistryInDb == InDb!Spec
RegistryInCache == InCache!Spec

(***************************************************************************)
(* Every command ends: no lock of a reload holds the game thread up for    *)
(* good.                                                                   *)
(***************************************************************************)
CommandsFinish == (pc # "idle") ~> (pc = "idle")

(***************************************************************************)
(* However often statements failed, once the commands stop the reloads     *)
(* bring the caches back to what the database holds, timed groups too.     *)
(***************************************************************************)
Reconciled == <>[](pc = "idle") => <>[](cache = db)

(***************************************************************************)
(* "Delete group" (RemoveGroup): with the locks free and no statement      *)
(* failing, the removal of a group that exists gets to its DELETE.         *)
(***************************************************************************)
RemoveGroupDeletes ==
  pc = "check" /\ cmd.op = "RemoveGroup" /\ cache[cmd.group] # NoEntry
    /\ (\A m \in Maps : Free(m))
    => ENABLED (Check /\ pc' = "update")
-----------------------------------------------------------------------------
(***************************************************************************)
(* The inductive invariant behind DbCacheCoherent and RegistryInDb, for a  *)
(* database whose reads and inserts do not fail.                           *)
(*                                                                         *)
(* While a command is between its write and its change of the cache, the   *)
(* cache and the reloads under way may hold its record as it was before or *)
(* after the write: Pending says that the change makes either of them the  *)
(* database's record.                                                      *)
(***************************************************************************)
Creators == {"NewPlayer", "Add", "AddTimed"}
Listed == {"Add", "Remove", "AddTimed", "RemoveTimed"}

Phase ==
  /\ pc \in {"insert", "cacheRow"} => cmd.op \in Creators
  /\ pc \in {"update", "apply"} => cmd.op # "NewPlayer"

Ready(d) ==
  /\ cmd.op \in Listed => d \in Row
  /\ cmd.op = "Add" => list = d.groups \cup {cmd.group}
  /\ cmd.op = "Remove" => list = d.groups \ {cmd.group}
  /\ cmd.op \in PermOps => d \in GroupRow
  /\ cmd.op = "Revoke" => list = d.perms \ {cmd.target}

Pending(v, d) ==
  /\ cmd.op \in Listed => v \in Row /\ d \in Row
  /\ cmd.op = "Add" => v.groups \cup {cmd.group} = d.groups
  /\ cmd.op = "Remove" => v.groups \ {cmd.group} = d.groups
  /\ cmd.op \in {"AddTimed", "RemoveTimed"} => v.groups = d.groups
  /\ cmd.op = "AddGroup" => d = NoPerms
  /\ cmd.op = "RemoveGroup" => d = NoEntry
  /\ cmd.op \in PermOps => v \in GroupRow /\ d \in GroupRow
  /\ cmd.op = "Grant" => v.perms \cup {cmd.target} = d.perms
  /\ cmd.op = "Revoke" => d.perms = list

Planned ==
  /\ pc = "insert" => db[cmd.target] = NoEntry
  /\ pc = "cacheRow" => db[cmd.target] = NewRow(cmd.target)
  /\ pc = "check" /\ cmd.op \in Creators => db[cmd.target] \in Row
  /\ pc = "update" => Ready(db[Changed(cmd)])
  /\ pc = "apply" => Pending(db[Changed(cmd)], db[Changed(cmd)])

Follows(k, v) ==
  /\ ~InFlight(k) => Agree(v, db[k])
  /\ pc = "apply" /\ Changed(cmd) = k => Pending(v, db[k])

CacheFollows == \A k \in Key : Follows(k, cache[k])
ReadsFollow ==
  \A w \in Workers : at[w] # "idle" /\ lock[at[w]] = w =>
    \A k \in KeysOf(at[w]) : Follows(k, read[w][k])

LocksHeld == \A m \in Maps : lock[m] \in Workers => at[lock[m]] = m

IInv == TypeOK /\ Phase /\ Planned /\ CacheFollows /\ ReadsFollow /\ LocksHeld

(***************************************************************************)
(* What RegistryInCache needs beyond IInv: whatever a reload has read, its *)
(* assignment changes at most what the command in flight is about to       *)
(* change itself.  A reload is Ahead of the cache where it read the        *)
(* command's row or group before the command repeated it there.            *)
(***************************************************************************)
Ahead(s, v, c) ==
  \/ Kept(v) = Kept(c)
  \/ /\ InFlight(s) /\ pc = "cacheRow"
     /\ Kept(c) = NoEntry /\ Kept(v) = NewRow(s).groups
  \/ /\ InFlight(s) /\ pc = "apply" /\ Kept(c) # NoEntry
     /\ \/ cmd.op = "Add" /\ Kept(v) = Kept(c) \cup {cmd.group}
        \/ cmd.op = "Remove" /\ Kept(v) = Kept(c) \ {cmd.group}

RowCached ==
  pc = "cacheRow" => Kept(cache[cmd.target]) \in {NoEntry, NewRow(cmd.target).groups}

ReadsAhead ==
  \A w \in Workers : at[w] # "idle" /\ lock[at[w]] = w =>
    \A s \in KeysOf(at[w]) \cap Subjects : Ahead(s, read[w][s], cache[s])

CacheIInv == IInv /\ RowCached /\ ReadsAhead
=============================================================================
