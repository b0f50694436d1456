-------------------------- MODULE PermissionsMysql --------------------------
(***************************************************************************)
(* The Permissions plugin on MySQL: the servers of a cluster share one     *)
(* database, each with its own caches, game thread and pool.  Init of the  *)
(* MySQL back end runs its SELECT first and takes the mutex only to assign *)
(* the result, so that a command may run in between; GetGroupMembers works *)
(* on a copy of the cache, so that RemoveGroup runs here.                  *)
(***************************************************************************)
EXTENDS PermissionCommands

CONSTANTS
  Servers,
  Threads,     \* <<server, worker>>: the threads of its pool that may run a reload
  Faults,      \* the kinds of query that may fail
  MaxFaults,   \* bound of the number of failures
  MaxNow       \* bound of the clock

ASSUME MysqlAssumption ==
  /\ NoEntry \notin Servers
  /\ \A th \in Threads : th[1] \in Servers
  /\ Faults \subseteq {"read", "insert", "update"}
  /\ MaxFaults \in Nat /\ MaxNow \in Nat

VARIABLES
  db,       \* the three tables of the shared database
  cache,    \* the caches of each server
  at,       \* the map each worker of each server is at
  read,     \* what its SELECT returned, before it is assigned
  got,      \* whether it has run the SELECT of that map
  pc,       \* how far each game thread is in its command
  cmd,      \* the command of each game thread
  member,   \* in RemoveGroup: the player being removed, NoEntry for none
  todo,     \* in RemoveGroup: the members still to be removed
  list,     \* the list the command copied from the cache
  online,   \* the server each player is on
  now,      \* the wall clock, in seconds
  faults    \* how many queries have failed

gameVars == <<pc, cmd, member, todo, list, online>>
syncVars == <<at, read, got>>
vars == <<db, cache, at, read, got, pc, cmd, member, todo, list, online, now, faults>>

Idle == [sv \in Servers |-> "idle"]
OnlineAt(sv) == {p \in Players : online[p] = sv}

Init ==
  /\ db = WithDefaultGroups(Empty)
  /\ cache = [sv \in Servers |-> db]
  /\ at = [th \in Threads |-> "idle"]
  /\ read = [th \in Threads |-> Empty]
  /\ got = [th \in Threads |-> FALSE]
  /\ pc = Idle
  /\ cmd = [sv \in Servers |-> NoCmd]
  /\ member = [sv \in Servers |-> NoEntry]
  /\ todo = [sv \in Servers |-> {}]
  /\ list = [sv \in Servers |-> {}]
  /\ online = [p \in Players |-> NoEntry]
  /\ now = 0
  /\ faults = 0

(* A query of this kind fails. *)
Fails(kind) == kind \in Faults /\ faults < MaxFaults /\ faults' = faults + 1
-----------------------------------------------------------------------------
(***************************************************************************)
(* The reload.                                                             *)
(***************************************************************************)
DatabaseSync(th) ==
  /\ at[th] = "idle"
  /\ at' = [at EXCEPT ![th] = "groups"]
  /\ UNCHANGED <<db, cache, read, got, gameVars, now, faults>>

SyncRead(th) ==
  /\ at[th] # "idle" /\ ~got[th]
  /\ got' = [got EXCEPT ![th] = TRUE]
  /\ \/ read' = [read EXCEPT ![th] = Rows(db, KeysOf(at[th]))] /\ UNCHANGED faults
     \/ /\ Fails("read")
        /\ \E K \in SUBSET KeysOf(at[th]) : read' = [read EXCEPT ![th] = Rows(db, K)]
  /\ UNCHANGED <<db, cache, at, gameVars, now>>

SyncAssignRepeated(th) ==  \* mutation: the result of one map is left for the next
  /\ got[th]
  /\ cache' = [cache EXCEPT ![th[1]] =
                 [k \in Key |-> IF k \in KeysOf(at[th]) THEN read[th][k] ELSE @[k]]]
  /\ at' = [at EXCEPT ![th] = NextMap(@)]
  /\ UNCHANGED <<db, read, got, gameVars, now, faults>>

SyncAssignMerging(th) ==  \* mutation: rows that are no longer in the table stay cached
  /\ got[th]
  /\ cache' = [cache EXCEPT ![th[1]] =
                 [k \in Key |-> IF read[th][k] # NoEntry THEN read[th][k] ELSE @[k]]]
  /\ at' = [at EXCEPT ![th] = NextMap(@)]
  /\ read' = [read EXCEPT ![th] = Empty]
  /\ got' = [got EXCEPT ![th] = FALSE]
  /\ UNCHANGED <<db, gameVars, now, faults>>

SyncAssign(th) ==
  /\ got[th]
  /\ LET ks == KeysOf(at[th])
     IN  cache' = [cache EXCEPT ![th[1]] =
                     [k \in Key |-> IF k \in ks THEN read[th][k] ELSE @[k]]]
  /\ at' = [at EXCEPT ![th] = NextMap(@)]
  /\ read' = [read EXCEPT ![th] = Empty]
  /\ got' = [got EXCEPT ![th] = FALSE]
  /\ UNCHANGED <<db, gameVars, now, faults>>
-----------------------------------------------------------------------------
(***************************************************************************)
(* The game threads.  Cur is the command a server is at: its own, or the   *)
(* removal of one member inside RemoveGroup.                               *)
(***************************************************************************)
Cur(sv) ==
  IF member[sv] # NoEntry
    THEN [op |-> "Remove", target |-> member[sv], group |-> cmd[sv].group]
    ELSE cmd[sv]

Goto(sv, label) ==
  /\ pc' = [pc EXCEPT ![sv] = label]
  /\ UNCHANGED <<cmd, member, todo, online, now>>

(* The end of a command, or of one removal inside RemoveGroup. *)
Return(sv) ==
  /\ IF member[sv] # NoEntry
       THEN pc' = [pc EXCEPT ![sv] = "members"] /\ UNCHANGED cmd
       ELSE pc' = [pc EXCEPT ![sv] = "idle"] /\ cmd' = [cmd EXCEPT ![sv] = NoCmd]
  /\ member' = [member EXCEPT ![sv] = NoEntry]
  /\ list' = [list EXCEPT ![sv] = {}]
  /\ UNCHANGED <<todo, online, now, syncVars>>

Call(sv, op, target, group) ==
  LET c == [op |-> op, target |-> target, group |-> group] IN
  /\ op \in Ops
  /\ pc[sv] = "idle"
  /\ cmd' = [cmd EXCEPT ![sv] = c]
  /\ pc' = [pc EXCEPT ![sv] = IF Creates(cache[sv], c) THEN "insert" ELSE "check"]
  /\ online' = IF op = "NewPlayer" THEN [online EXCEPT ![target] = sv] ELSE online
  /\ UNCHANGED <<db, cache, member, todo, list, now, faults, syncVars>>

AddPlayerToGroup(sv, p, g) == Call(sv, "Add", p, g)
RemovePlayerFromGroup(sv, p, g) == Call(sv, "Remove", p, g)
AddPlayerToTimedGroup(sv, p, g) == Call(sv, "AddTimed", p, g)
RemovePlayerFromTimedGroup(sv, p, g) == Call(sv, "RemoveTimed", p, g)
AddTribeToGroup(sv, t, g) == Call(sv, "Add", t, g)
RemoveTribeFromGroup(sv, t, g) == Call(sv, "Remove", t, g)
AddTribeToTimedGroup(sv, t, g) == Call(sv, "AddTimed", t, g)
RemoveTribeFromTimedGroup(sv, t, g) == Call(sv, "RemoveTimed", t, g)
AddGroup(sv, g) == Call(sv, "AddGroup", NoEntry, g)
RemoveGroup(sv, g) == Call(sv, "RemoveGroup", NoEntry, g)
GroupGrantPermission(sv, g, x) == Call(sv, "Grant", x, g)
GroupRevokePermission(sv, g, x) == Call(sv, "Revoke", x, g)

HandleNewPlayer(sv, p) == online[p] = NoEntry /\ Call(sv, "NewPlayer", p, DefaultGroup)

ClientNotifyAdmin(sv, p) ==
  /\ online[p] = sv
  /\ \E reported \in SUBSET CallbackGroups :
       ~InGroup(cache[sv], p, AdminsGroup, OnlineAt(sv), reported, now)
  /\ AddPlayerToGroup(sv, p, AdminsGroup)

(***************************************************************************)
(* SteamId and TribeId are UNIQUE: the INSERT fails for a known subject.   *)
(* A query that fails may have been executed, its answer lost.             *)
(***************************************************************************)
Insert(sv) ==
  /\ pc[sv] = "insert"
  /\ LET s == cmd[sv].target IN
     \/ /\ db[s] = NoEntry
        /\ db' = [db EXCEPT ![s] = NewRow(s)]
        /\ Goto(sv, "cacheRow")
        /\ UNCHANGED faults
     \/ /\ db[s] # NoEntry
        /\ Goto(sv, "check")
        /\ UNCHANGED <<db, faults>>
     \/ /\ Fails("insert")
        /\ \/ UNCHANGED db
           \/ db[s] = NoEntry /\ db' = [db EXCEPT ![s] = NewRow(s)]
        /\ Goto(sv, "check")
  /\ UNCHANGED <<cache, list, syncVars>>

CacheRow(sv) ==
  /\ pc[sv] = "cacheRow"
  /\ LET s == cmd[sv].target IN cache' = [cache EXCEPT ![sv][s] = NewRow(s)]
  /\ Goto(sv, "check")
  /\ UNCHANGED <<db, list, faults, syncVars>>

(***************************************************************************)
(* The guards.  RemoveGroup goes on to its members, those a permanent or a *)
(* timed membership, their tribe or a callback puts in the group.  The     *)
(* code takes the mutex once for each guard and once more for the copy of  *)
(* the list; here they are one step, so that no reload is assigned between *)
(* them.                                                                   *)
(***************************************************************************)
GetGroupMembers(sv, g) ==
  LET in(p, reported) == InGroup(cache[sv], p, g, OnlineAt(sv), reported, now)
      known == {p \in Players : cache[sv][p] # NoEntry}
      sure == {p \in known : \A reported \in SUBSET CallbackGroups : in(p, reported)}
      possible == {p \in known : \E reported \in SUBSET CallbackGroups : in(p, reported)}
  IN  {P \in SUBSET possible : sure \subseteq P}

Check(sv) ==
  LET c == Cur(sv) IN
  /\ pc[sv] = "check"
  /\ UNCHANGED <<db, cache, faults>>
  /\ \/ CanRefuse(cache[sv], c, OnlineAt(sv), now) /\ Return(sv)
     \/ /\ CanProceed(cache[sv], c, OnlineAt(sv), now)
        /\ c.op # "RemoveGroup"
        /\ \E copy \in Copies(cache[sv], c, now) : list' = [list EXCEPT ![sv] = copy]
        /\ Goto(sv, "update")
        /\ UNCHANGED syncVars
     \/ /\ CanProceed(cache[sv], c, OnlineAt(sv), now)
        /\ c.op = "RemoveGroup"
        /\ \E P \in GetGroupMembers(sv, c.group) : todo' = [todo EXCEPT ![sv] = P]
        /\ pc' = [pc EXCEPT ![sv] = "members"]
        /\ UNCHANGED <<cmd, member, list, online, now, syncVars>>

MembersRepeated(sv) ==  \* mutation: the loop does not move on
  /\ pc[sv] = "members"
  /\ \/ todo[sv] = {} /\ pc' = [pc EXCEPT ![sv] = "update"] /\ UNCHANGED member
     \/ \E p \in todo[sv] :
          /\ member' = [member EXCEPT ![sv] = p]
          /\ pc' = [pc EXCEPT ![sv] = "check"]
  /\ UNCHANGED <<db, cache, cmd, todo, list, online, now, faults, syncVars>>

(* The loop of RemoveGroup: one member after the other, then the group. *)
Members(sv) ==
  /\ pc[sv] = "members"
  /\ \/ /\ todo[sv] = {}
        /\ pc' = [pc EXCEPT ![sv] = "update"]
        /\ UNCHANGED <<member, todo>>
     \/ \E p \in todo[sv] :
          /\ member' = [member EXCEPT ![sv] = p]
          /\ todo' = [todo EXCEPT ![sv] = @ \ {p}]
          /\ pc' = [pc EXCEPT ![sv] = "check"]
  /\ UNCHANGED <<db, cache, cmd, list, online, now, faults, syncVars>>

Update(sv) ==
  LET k == Changed(Cur(sv))
      written == [db EXCEPT ![k] = Written(Cur(sv), list[sv], @)]
  IN
  /\ pc[sv] = "update"
  /\ \/ Fails("update") /\ db' \in {db, written} /\ Return(sv) /\ UNCHANGED cache
     \/ /\ db' = written
        /\ Goto(sv, "apply")
        /\ UNCHANGED <<cache, list, faults, syncVars>>

(* Load fills the caches before the first command of a new process. *)
Restart(sv) ==
  /\ db' = WithDefaultGroups(db)
  /\ \/ cache' = [cache EXCEPT ![sv] = db'] /\ UNCHANGED faults
     \/ /\ Fails("read")
        /\ \E m \in Maps : \E K \in SUBSET KeysOf(m) :
             cache' = [cache EXCEPT ![sv] = Rows(db', (Key \ KeysOf(m)) \cup K)]
  /\ at' = [th \in Threads |-> IF th[1] = sv THEN "idle" ELSE at[th]]
  /\ read' = [th \in Threads |-> IF th[1] = sv THEN Empty ELSE read[th]]
  /\ got' = [th \in Threads |-> IF th[1] = sv THEN FALSE ELSE got[th]]
  /\ pc' = [pc EXCEPT ![sv] = "idle"]
  /\ cmd' = [cmd EXCEPT ![sv] = NoCmd]
  /\ member' = [member EXCEPT ![sv] = NoEntry]
  /\ todo' = [todo EXCEPT ![sv] = {}]
  /\ list' = [list EXCEPT ![sv] = {}]
  /\ online' = [p \in Players |-> IF online[p] = sv THEN NoEntry ELSE online[p]]
  /\ UNCHANGED now

Apply(sv) ==
  LET k == Changed(Cur(sv)) IN
  /\ pc[sv] = "apply"
  /\ \/ /\ \E e \in Applied(cache[sv], Cur(sv), list[sv]) :
             cache' = [cache EXCEPT ![sv][k] = e]
        /\ Return(sv)
        /\ UNCHANGED <<db, faults>>
     \/ Stale(cache[sv], Cur(sv), list[sv]) /\ Restart(sv)
-----------------------------------------------------------------------------
Leave(sv, p) ==
  /\ pc[sv] = "idle"
  /\ online[p] = sv
  /\ online' = [online EXCEPT ![p] = NoEntry]
  /\ UNCHANGED <<db, cache, pc, cmd, member, todo, list, now, faults, syncVars>>

Tick ==
  /\ now < MaxNow
  /\ now' = now + 1
  /\ UNCHANGED <<db, cache, gameVars, faults, syncVars>>

(* Dying between two statements, or with a reload half done, is what matters. *)
Crash(sv) ==
  /\ pc[sv] # "idle" \/ \E th \in Threads : th[1] = sv /\ at[th] # "idle"
  /\ Restart(sv)

PlayerCommand(sv, p, g) ==
  \/ AddPlayerToGroup(sv, p, g) \/ RemovePlayerFromGroup(sv, p, g)
  \/ AddPlayerToTimedGroup(sv, p, g) \/ RemovePlayerFromTimedGroup(sv, p, g)

TribeCommand(sv, t, g) ==
  \/ AddTribeToGroup(sv, t, g) \/ RemoveTribeFromGroup(sv, t, g)
  \/ AddTribeToTimedGroup(sv, t, g) \/ RemoveTribeFromTimedGroup(sv, t, g)

GroupCommand(sv, g) ==
  \/ AddGroup(sv, g) \/ RemoveGroup(sv, g)
  \/ \E x \in Perms : GroupGrantPermission(sv, g, x) \/ GroupRevokePermission(sv, g, x)

Game(sv) ==
  Insert(sv) \/ CacheRow(sv) \/ Check(sv) \/ Members(sv) \/ Update(sv) \/ Apply(sv)

Next ==
  \/ \E sv \in Servers, g \in Groups :
       \/ \E p \in Players : PlayerCommand(sv, p, g)
       \/ \E t \in Tribes : TribeCommand(sv, t, g)
       \/ GroupCommand(sv, g)
  \/ \E sv \in Servers, p \in Players :
       HandleNewPlayer(sv, p) \/ ClientNotifyAdmin(sv, p) \/ Leave(sv, p)
  \/ \E sv \in Servers : Game(sv) \/ Crash(sv)
  \/ \E th \in Threads : DatabaseSync(th) \/ SyncRead(th) \/ SyncAssign(th)
  \/ Tick

Spec == Init /\ [][Next]_vars

(* The threads of every server run; nothing makes anybody issue a command. *)
Fairness ==
  /\ \A sv \in Servers : WF_vars(Game(sv))
  /\ \A th \in Threads : WF_vars(DatabaseSync(th)) /\ WF_vars(SyncRead(th)) /\ WF_vars(SyncAssign(th))

FairSpec == Spec /\ Fairness
-----------------------------------------------------------------------------
Labels == {"idle", "insert", "cacheRow", "check", "members", "update", "apply"}

TypeOK ==
  /\ IsTable(db)
  /\ DOMAIN cache = Servers /\ \A sv \in Servers : IsTable(cache[sv])
  /\ at \in [Threads -> Maps \cup {"idle"}] /\ got \in [Threads -> BOOLEAN]
  /\ DOMAIN read = Threads
  /\ \A th \in Threads : IsTable(read[th]) /\ (got[th] => at[th] # "idle")
  /\ pc \in [Servers -> Labels]
  /\ cmd \in [Servers -> Cmd \cup {NoCmd}]
  /\ member \in [Servers -> Players \cup {NoEntry}]
  /\ todo \in [Servers -> SUBSET Players]
  /\ DOMAIN list = Servers
  /\ \A sv \in Servers :
       /\ pc[sv] \in {"update", "apply"} => list[sv] \in Lists(Cur(sv).op)
       /\ member[sv] # NoEntry => cmd[sv].op = "RemoveGroup"
  /\ online \in [Players -> Servers \cup {NoEntry}]
  /\ now \in Nat /\ faults \in Nat

(***************************************************************************)
(* Which command a game thread can be at each label with: TypeOK is        *)
(* inductive only together with this.                                      *)
(***************************************************************************)
Phase ==
  \A sv \in Servers :
    /\ pc[sv] # "idle" => cmd[sv] \in Cmd
    /\ pc[sv] \in {"insert", "cacheRow"} => cmd[sv].op \in {"NewPlayer", "Add", "AddTimed"}
    /\ pc[sv] \in {"update", "apply"} => Cur(sv).op # "NewPlayer"
    /\ pc[sv] \in {"idle", "members"} => member[sv] = NoEntry
    /\ pc[sv] = "members" => cmd[sv].op = "RemoveGroup"
    /\ pc[sv] \notin {"update", "apply"} => list[sv] = {}

(***************************************************************************)
(* Once no table, no cache, no reload under way and no list about to be    *)
(* written holds a permanent membership of a player or tribe any more,     *)
(* only a command that grants it brings it back.  While one of them still  *)
(* holds it, the whole-list UPDATE of AddPlayerToGroup rewrites what its   *)
(* server's cache held and may undo what another server removed: nothing   *)
(* is said of that.  Nor of the permissions of groups, where a restart     *)
(* gives a missing Admins its "*" again.                                   *)
(***************************************************************************)
Holds(f, s, g) == f[s] # NoEntry /\ g \in f[s].groups

Gone(s, g) ==
  /\ ~Holds(db, s, g)
  /\ \A sv \in Servers :
       /\ ~Holds(cache[sv], s, g)
       /\ pc[sv] \in {"update", "apply"} /\ Cur(sv).op \in {"Add", "Remove"}
            /\ Cur(sv).target = s => g \notin list[sv]
  /\ \A th \in Threads : ~Holds(read[th], s, g)

RevocationFinal ==
  [][\A s \in Subjects, g \in Groups \ {DefaultGroup} :
       Gone(s, g) /\ ~Gone(s, g)' =>
         \E sv \in Servers : cmd[sv] = [op |-> "Add", target |-> s, group |-> g]]_vars

(***************************************************************************)
(* However the servers' writes and reloads interleave and fail, once the   *)
(* commands stop every server's caches settle on the shared tables.        *)
(***************************************************************************)
Reconciled == <>[](pc = Idle) => <>[](\A sv \in Servers : cache[sv] = db)

(***************************************************************************)
(* Every command ends, RemoveGroup's loop over the members too.            *)
(***************************************************************************)
CommandsFinish == \A sv \in Servers : (pc[sv] # "idle") ~> (pc[sv] = "idle")
=============================================================================
