---------------------- MODULE PermissionsMysql_proofs ----------------------
(***************************************************************************)
(* Theorems about the Permissions plugin on MySQL, for any number of       *)
(* servers, threads, players, tribes and groups, and whatever statements   *)
(* fail.                                                                   *)
(***************************************************************************)
EXTENDS PermissionsMysql, PermissionCommands_proofs

TypeInv == TypeOK /\ Phase

(* What TypeInv says of one server. *)
Here(sv) ==
  /\ IsTable(cache[sv])
  /\ pc[sv] \in Labels
  /\ cmd[sv] \in Cmd \cup {NoCmd}
  /\ member[sv] \in Players \cup {NoEntry}
  /\ todo[sv] \in SUBSET Players
  /\ pc[sv] \in {"update", "apply"} => list[sv] \in Lists(Cur(sv).op)
  /\ member[sv] # NoEntry => cmd[sv].op = "RemoveGroup"
  /\ pc[sv] # "idle" => cmd[sv] \in Cmd
  /\ pc[sv] \in {"insert", "cacheRow"} => cmd[sv].op \in {"NewPlayer", "Add", "AddTimed"}
  /\ pc[sv] \in {"update", "apply"} => Cur(sv).op # "NewPlayer"
  /\ pc[sv] \in {"idle", "members"} => member[sv] = NoEntry
  /\ pc[sv] = "members" => cmd[sv].op = "RemoveGroup"
  /\ pc[sv] \notin {"update", "apply"} => list[sv] = {}

(* ... and of what the servers share, and of the reloads. *)
Shared ==
  /\ IsTable(db)
  /\ online \in [Players -> Servers \cup {NoEntry}]
  /\ now \in Nat /\ faults \in Nat

Reloads ==
  /\ at \in [Threads -> Maps \cup {"idle"}] /\ got \in [Threads -> BOOLEAN]
  /\ DOMAIN read = Threads
  /\ \A th \in Threads : IsTable(read[th]) /\ (got[th] => at[th] # "idle")

(* g is f but for what it may hold at x. *)
Only(f, g, x) == g = f \/ \E v : g = [f EXCEPT ![x] = v]

-----------------------------------------------------------------------------
(* Type correctness. *)

(* A step of one server's game thread leaves the other servers alone. *)
LEMMA OneServer ==
  ASSUME TypeInv, NEW sv \in Servers,
         Only(cache, cache', sv), Only(pc, pc', sv), Only(cmd, cmd', sv),
         Only(member, member', sv), Only(todo, todo', sv), Only(list, list', sv),
         Here(sv)', Shared', Reloads'
  PROVE  TypeInv'
<1> USE DEF TypeInv
<1>1. /\ DOMAIN cache' = Servers /\ DOMAIN list' = Servers
      /\ pc' \in [Servers -> Labels]
      /\ cmd' \in [Servers -> Cmd \cup {NoCmd}]
      /\ member' \in [Servers -> Players \cup {NoEntry}]
      /\ todo' \in [Servers -> SUBSET Players]
  <2>1. DOMAIN cache' = Servers /\ DOMAIN list' = Servers
    BY DEF Only, TypeOK
  <2>2. pc' \in [Servers -> Labels]
    BY DEF Only, TypeOK, Here
  <2>3. cmd' \in [Servers -> Cmd \cup {NoCmd}]
    BY DEF Only, TypeOK, Here
  <2>4. member' \in [Servers -> Players \cup {NoEntry}]
    BY DEF Only, TypeOK, Here
  <2>5. todo' \in [Servers -> SUBSET Players]
    BY DEF Only, TypeOK, Here
  <2> QED
    BY <2>1, <2>2, <2>3, <2>4, <2>5
<1>2. ASSUME NEW u \in Servers PROVE Here(u)'
  <2>1. CASE u = sv
    BY <2>1
  <2>2. CASE u # sv
    <3>1. /\ cache'[u] = cache[u] /\ pc'[u] = pc[u] /\ cmd'[u] = cmd[u]
          /\ member'[u] = member[u] /\ list'[u] = list[u] /\ todo'[u] = todo[u]
      BY <2>2 DEF Only, TypeOK
    <3>2. Here(u)
      BY DEF TypeOK, Phase, Here
    <3> QED
      BY <3>1, <3>2 DEF Here, Cur
  <2> QED
    BY <2>1, <2>2
<1>3. TypeOK'
  BY <1>1, <1>2 DEF TypeOK, Here, Shared, Reloads
<1>4. Phase'
  BY <1>2 DEF Phase, Here
<1> QED
  BY <1>3, <1>4

(* The command a game thread is at. *)
LEMMA CurCmd ==
  ASSUME TypeInv, NEW sv \in Servers, pc[sv] # "idle"
  PROVE  /\ Here(sv) /\ cmd[sv] \in Cmd /\ Cur(sv) \in Cmd
         /\ member[sv] # NoEntry => Cur(sv).op = "Remove"
         /\ member[sv] = NoEntry => Cur(sv) = cmd[sv]
<1>1. Here(sv) /\ cmd[sv] \in Cmd
  BY DEF TypeInv, TypeOK, Phase, Here
<1>2. CASE member[sv] # NoEntry
  <2>1. member[sv] \in Subjects /\ cmd[sv].group \in Groups
    BY <1>1, <1>2, CmdParts DEF Here, Subjects
  <2> QED
    BY <1>1, <1>2, <2>1 DEF Cur, Cmd, SubjectOps
<1>3. CASE member[sv] = NoEntry
  BY <1>1, <1>3 DEF Cur
<1> QED
  BY <1>1, <1>2, <1>3

(* A step that leaves the reloads alone. *)
LEMMA ReloadsAlone ==
  ASSUME TypeInv, UNCHANGED <<at, read, got>>
  PROVE  Reloads'
BY DEF TypeInv, TypeOK, Reloads

(* The end of a command, or of one removal inside RemoveGroup. *)
LEMMA ReturnType ==
  ASSUME TypeInv, NEW sv \in Servers, pc[sv] \in {"check", "update", "apply"},
         Return(sv), Only(cache, cache', sv), IsTable(cache'[sv]),
         IsTable(db'), faults' \in Nat
  PROVE  TypeInv'
<1> USE DEF TypeInv
<1>1. /\ Only(pc, pc', sv) /\ Only(cmd, cmd', sv) /\ Only(member, member', sv)
      /\ Only(todo, todo', sv) /\ Only(list, list', sv)
  BY DEF Return, Only
<1>2. Here(sv)
  BY CurCmd
<1>3. pc'[sv] \in {"idle", "members"} /\ list'[sv] = {} /\ member'[sv] = NoEntry
      /\ todo'[sv] = todo[sv]
  BY DEF Return, TypeOK
<1>4. CASE member[sv] # NoEntry
  <2>1. pc'[sv] = "members" /\ cmd'[sv] = cmd[sv]
    BY <1>4 DEF Return, TypeOK
  <2> QED
    BY <1>1, <1>2, <1>3, <1>4, <2>1, CurCmd, OneServer, ReloadsAlone
       DEF Here, Return, Shared, TypeOK, syncVars, Labels
<1>5. CASE member[sv] = NoEntry
  <2>1. pc'[sv] = "idle" /\ cmd'[sv] = NoCmd
    BY <1>5 DEF Return, TypeOK
  <2>2. Here(sv)'
    BY <1>2, <1>3, <2>1 DEF Here, Labels
  <2>3. Shared' /\ Reloads'
    BY ReloadsAlone DEF Return, syncVars, Shared, TypeOK
  <2> QED
    BY <1>1, <2>2, <2>3, OneServer
<1> QED
  BY <1>4, <1>5

(* A command is one of those the game can be given. *)
LEMMA CallType ==
  ASSUME TypeInv, NEW sv \in Servers, NEW op, NEW target, NEW group,
         Call(sv, op, target, group),
         [op |-> op, target |-> target, group |-> group] \in Cmd,
         op = "NewPlayer" => target \in Players
  PROVE  TypeInv'
<1> USE DEF TypeInv
<1> DEFINE c == [op |-> op, target |-> target, group |-> group]
<1>1. /\ cmd' = [cmd EXCEPT ![sv] = c]
      /\ pc' = [pc EXCEPT ![sv] = IF Creates(cache[sv], c) THEN "insert" ELSE "check"]
      /\ UNCHANGED <<db, cache, member, todo, list, now, faults, at, read, got>>
      /\ pc[sv] = "idle"
  BY DEF Call, syncVars
<1>2. Creates(cache[sv], c) => op \in {"NewPlayer", "Add", "AddTimed"}
  BY DEF Creates
<1> HIDE DEF c
<1>3. /\ cmd'[sv] = c /\ pc'[sv] \in {"insert", "check"}
      /\ pc'[sv] = "insert" => op \in {"NewPlayer", "Add", "AddTimed"}
  BY <1>1, <1>2 DEF TypeOK
<1>4. c \in Cmd /\ c.op = op
  BY DEF c
<1>5. member[sv] = NoEntry /\ list[sv] = {} /\ IsTable(cache[sv]) /\ todo[sv] \in SUBSET Players
  BY <1>1 DEF TypeOK, Phase
<1>6. Here(sv)'
  BY <1>1, <1>3, <1>4, <1>5 DEF Here, Labels
<1>7. online' \in [Players -> Servers \cup {NoEntry}]
  BY DEF Call, TypeOK
<1>8. Shared' /\ Reloads'
  BY <1>1, <1>7, ReloadsAlone DEF Shared, TypeOK
<1> QED
  BY <1>1, <1>6, <1>8, OneServer DEF Only

(* The commands of players, tribes and groups. *)
LEMMA CommandType ==
  ASSUME TypeInv, NEW sv \in Servers,
         \/ \E g \in Groups : \/ \E p \in Players : PlayerCommand(sv, p, g)
                              \/ \E t \in Tribes : TribeCommand(sv, t, g)
                              \/ GroupCommand(sv, g)
         \/ \E p \in Players : HandleNewPlayer(sv, p) \/ ClientNotifyAdmin(sv, p)
  PROVE  TypeInv'
<1> USE DEF Cmd, SubjectOps, GroupOps, PermOps, Subjects
<1>1. ASSUME NEW g \in Groups, NEW p \in Players, PlayerCommand(sv, p, g)
      PROVE  TypeInv'
  BY <1>1, CallType DEF PlayerCommand, AddPlayerToGroup, RemovePlayerFromGroup,
     AddPlayerToTimedGroup, RemovePlayerFromTimedGroup
<1>2. ASSUME NEW g \in Groups, NEW t \in Tribes, TribeCommand(sv, t, g)
      PROVE  TypeInv'
  BY <1>2, CallType DEF TribeCommand, AddTribeToGroup, RemoveTribeFromGroup,
     AddTribeToTimedGroup, RemoveTribeFromTimedGroup
<1>3. ASSUME NEW g \in Groups, GroupCommand(sv, g)
      PROVE  TypeInv'
  BY <1>3, CallType DEF GroupCommand, AddGroup, RemoveGroup, GroupGrantPermission,
     GroupRevokePermission
<1>4. ASSUME NEW p \in Players, HandleNewPlayer(sv, p) \/ ClientNotifyAdmin(sv, p)
      PROVE  TypeInv'
  BY <1>4, CallType, KeysAssumption DEF HandleNewPlayer, ClientNotifyAdmin, AddPlayerToGroup
<1> QED
  BY <1>1, <1>2, <1>3, <1>4

(* A new process fills its own caches and leaves the other servers' alone. *)
LEMMA RestartType ==
  ASSUME TypeInv, NEW sv \in Servers, Restart(sv)
  PROVE  TypeInv'
<1> USE DEF TypeInv
<1>1. IsTable(db')
  BY DefaultsTable DEF TypeOK, Restart
<1>2. \E c : IsTable(c) /\ cache' = [cache EXCEPT ![sv] = c]
  <2>1. CASE cache' = [cache EXCEPT ![sv] = db']
    BY <1>1, <2>1
  <2>2. CASE \E m \in Maps : \E K \in SUBSET KeysOf(m) :
               cache' = [cache EXCEPT ![sv] = Rows(db', (Key \ KeysOf(m)) \cup K)]
    BY <1>1, <2>2, RowsTable
  <2> QED
    BY <2>1, <2>2 DEF Restart
<1>3. IsTable(cache'[sv]) /\ Only(cache, cache', sv)
  BY <1>2 DEF TypeOK, Only
<1>4. /\ pc' = [pc EXCEPT ![sv] = "idle"] /\ cmd' = [cmd EXCEPT ![sv] = NoCmd]
      /\ member' = [member EXCEPT ![sv] = NoEntry] /\ todo' = [todo EXCEPT ![sv] = {}]
      /\ list' = [list EXCEPT ![sv] = {}]
  BY DEF Restart
<1>5. /\ pc'[sv] = "idle" /\ cmd'[sv] = NoCmd /\ member'[sv] = NoEntry
      /\ todo'[sv] = {} /\ list'[sv] = {}
  BY <1>4 DEF TypeOK
<1>6. Here(sv)'
  BY <1>3, <1>5 DEF Here, Labels
<1>7. Shared'
  BY <1>1 DEF Restart, Fails, Shared, TypeOK
<1>8. Reloads'
  <2>1. at' \in [Threads -> Maps \cup {"idle"}] /\ got' \in [Threads -> BOOLEAN]
    BY DEF Restart, TypeOK
  <2>2. DOMAIN read' = Threads /\ \A th \in Threads : IsTable(read'[th])
    BY EmptyTable DEF Restart, TypeOK
  <2>3. \A th \in Threads : got'[th] => at'[th] # "idle"
    BY DEF Restart, TypeOK
  <2> QED
    BY <2>1, <2>2, <2>3 DEF Reloads
<1> QED
  BY <1>3, <1>4, <1>6, <1>7, <1>8, OneServer DEF Only

(* The INSERT, the row it caches, and the steps from label to label. *)
LEMMA InsertType ==
  ASSUME TypeInv, NEW sv \in Servers, Insert(sv) \/ CacheRow(sv)
  PROVE  TypeInv'
<1> USE DEF TypeInv
<1> DEFINE t == cmd[sv].target
<1>1. Here(sv) /\ cmd[sv] \in Cmd /\ pc[sv] \in {"insert", "cacheRow"}
  BY CurCmd DEF Insert, CacheRow
<1>2. t \in Key /\ IsEntry(t, NewRow(t))
  BY <1>1, CmdParts, KeyKinds, NewRowType DEF IsEntry, Here, SubjectOps
<1>3. /\ UNCHANGED <<cmd, member, todo, list, online, now, at, read, got>>
      /\ pc' \in {[pc EXCEPT ![sv] = "cacheRow"], [pc EXCEPT ![sv] = "check"]}
      /\ faults' \in Nat
  BY DEF Insert, CacheRow, Goto, Fails, syncVars, TypeOK
<1>4. pc[sv] = "cacheRow" => pc' = [pc EXCEPT ![sv] = "check"]
  BY DEF Insert, CacheRow, Goto
<1>5. IsTable(db')
  BY <1>2, TableExcept DEF Insert, CacheRow, TypeOK
<1>6. IsTable(cache'[sv]) /\ Only(cache, cache', sv)
  <2>1. cache' = cache \/ cache' = [cache EXCEPT ![sv] = [cache[sv] EXCEPT ![t] = NewRow(t)]]
    BY DEF Insert, CacheRow
  <2>2. IsTable([cache[sv] EXCEPT ![t] = NewRow(t)])
    BY <1>2, TableExcept DEF TypeOK
  <2> QED
    BY <2>1, <2>2 DEF TypeOK, Only
<1>7. pc'[sv] \in {"cacheRow", "check"}
  BY <1>3 DEF TypeOK
<1>8. Here(sv)'
  BY <1>1, <1>3, <1>6, <1>7 DEF Here, Labels
<1>9. Shared' /\ Reloads'
  BY <1>3, <1>5, ReloadsAlone DEF Shared, TypeOK
<1> QED
  BY <1>3, <1>6, <1>8, <1>9, OneServer DEF Only

(* The guards: a list of the command's kind is copied, or RemoveGroup goes *)
(* on to the members it found.                                             *)
LEMMA CheckType ==
  ASSUME TypeInv, NEW sv \in Servers, Check(sv)
  PROVE  TypeInv'
<1> USE DEF TypeInv
<1> DEFINE c == Cur(sv)
<1>1. /\ pc[sv] = "check" /\ UNCHANGED <<db, cache, faults>>
      /\ Here(sv) /\ c \in Cmd /\ cmd[sv] \in Cmd
  BY CurCmd DEF Check
<1>2. CASE Return(sv)
  BY <1>1, <1>2, ReturnType DEF Only, Here, TypeOK
<1>3. ASSUME CanProceed(cache[sv], c, OnlineAt(sv), now), c.op # "RemoveGroup",
             NEW copy \in Copies(cache[sv], c, now), list' = [list EXCEPT ![sv] = copy],
             Goto(sv, "update"), UNCHANGED syncVars
      PROVE  TypeInv'
  <2>1. copy \in Lists(c.op)
    BY <1>1, <1>3, CopiesType DEF TypeOK
  <2>2. c.op # "NewPlayer"
    BY <1>3 DEF CanProceed
  <2>3. /\ pc' = [pc EXCEPT ![sv] = "update"]
        /\ UNCHANGED <<cmd, member, todo, online, now, at, read, got>>
    BY <1>3 DEF Goto, syncVars
  <2>4. pc'[sv] = "update" /\ list'[sv] = copy /\ Cur(sv)' = c
    BY <1>3, <2>3 DEF TypeOK, Cur
  <2> HIDE DEF c
  <2>5. Here(sv)'
    BY <1>1, <2>1, <2>2, <2>3, <2>4 DEF Here, Labels
  <2>6. Shared' /\ Reloads'
    BY <1>1, <2>3, ReloadsAlone DEF Shared, TypeOK
  <2> QED
    BY <1>1, <1>3, <2>3, <2>5, <2>6, OneServer DEF Only
<1>4. ASSUME c.op = "RemoveGroup", NEW P \in GetGroupMembers(sv, c.group),
             todo' = [todo EXCEPT ![sv] = P], pc' = [pc EXCEPT ![sv] = "members"],
             UNCHANGED <<cmd, member, list, online, now, syncVars>>
      PROVE  TypeInv'
  <2>1. P \subseteq Players
    BY <1>4 DEF GetGroupMembers
  <2>2. member[sv] = NoEntry /\ cmd[sv].op = "RemoveGroup"
    BY <1>1, <1>4, CurCmd
  <2>3. pc'[sv] = "members" /\ todo'[sv] = P
    BY <1>4 DEF TypeOK
  <2>4. Here(sv)'
    BY <1>1, <1>4, <2>1, <2>2, <2>3 DEF Here, Labels
  <2>5. Shared' /\ Reloads'
    BY <1>1, <1>4, ReloadsAlone DEF Shared, TypeOK, syncVars
  <2> QED
    BY <1>1, <1>4, <2>4, <2>5, OneServer DEF Only
<1> QED
  BY <1>2, <1>3, <1>4 DEF Check

(* The loop of RemoveGroup. *)
LEMMA MembersType ==
  ASSUME TypeInv, NEW sv \in Servers, Members(sv)
  PROVE  TypeInv'
<1> USE DEF TypeInv
<1>1. /\ pc[sv] = "members" /\ UNCHANGED <<db, cache, cmd, list, online, now, faults>>
      /\ UNCHANGED <<at, read, got>>
      /\ Here(sv) /\ cmd[sv] \in Cmd /\ cmd[sv].op = "RemoveGroup"
      /\ member[sv] = NoEntry /\ list[sv] = {} /\ todo[sv] \subseteq Players
  BY CurCmd DEF Members, syncVars, Here
<1>2. Shared' /\ Reloads'
  BY <1>1, ReloadsAlone DEF Shared, TypeOK
<1>3. CASE pc' = [pc EXCEPT ![sv] = "update"] /\ UNCHANGED <<member, todo>>
  <2>1. pc'[sv] = "update" /\ Cur(sv)' = cmd[sv]
    BY <1>1, <1>3 DEF TypeOK, Cur
  <2>2. list[sv] \in Lists(cmd[sv].op)
    BY <1>1 DEF Lists
  <2>3. Here(sv)'
    BY <1>1, <1>3, <2>1, <2>2 DEF Here, Labels
  <2> QED
    BY <1>1, <1>2, <1>3, <2>3, OneServer DEF Only
<1>4. ASSUME NEW p \in todo[sv], member' = [member EXCEPT ![sv] = p],
             todo' = [todo EXCEPT ![sv] = @ \ {p}], pc' = [pc EXCEPT ![sv] = "check"]
      PROVE  TypeInv'
  <2>1. pc'[sv] = "check" /\ member'[sv] = p /\ todo'[sv] \subseteq Players /\ p \in Players
    BY <1>1, <1>4 DEF TypeOK
  <2>2. Here(sv)'
    BY <1>1, <2>1 DEF Here, Labels
  <2> QED
    BY <1>1, <1>2, <1>4, <2>2, OneServer DEF Only
<1> QED
  BY <1>3, <1>4 DEF Members

(* The statement, and the change repeated in the cache. *)
LEMMA WriteType ==
  ASSUME TypeInv, NEW sv \in Servers, Update(sv) \/ Apply(sv)
  PROVE  TypeInv'
<1> USE DEF TypeInv
<1> DEFINE c == Cur(sv)
           k == Changed(c)
<1>1. /\ pc[sv] \in {"update", "apply"} /\ Here(sv) /\ c \in Cmd /\ cmd[sv] \in Cmd
      /\ c.op # "NewPlayer" /\ list[sv] \in Lists(c.op) /\ k \in Key
  BY CurCmd, CmdParts DEF Update, Apply, Here
<1>2. CASE Update(sv)
  <2> DEFINE written == [db EXCEPT ![k] = Written(c, list[sv], @)]
  <2>3. IsTable(written)
    <3>1. IsEntry(k, Written(c, list[sv], db[k]))
      BY <1>1, TableEntry, WrittenType DEF TypeOK
    <3> QED
      BY <1>1, <3>1, TableExcept DEF TypeOK
  <2>4. IsTable(db)
    BY DEF TypeOK
  <2> HIDE DEF written
  <2>1. CASE Fails("update") /\ db' \in {db, written} /\ Return(sv) /\ UNCHANGED cache
    <3>1. IsTable(db') /\ faults' \in Nat
      BY <2>1, <2>3, <2>4 DEF Fails, TypeOK
    <3>2. IsTable(cache'[sv]) /\ Only(cache, cache', sv)
      BY <1>1, <2>1 DEF Only, Here
    <3> HIDE DEF c, k
    <3> QED
      BY <1>1, <2>1, <3>1, <3>2, ReturnType
  <2>2. CASE /\ db' = written
             /\ Goto(sv, "apply")
             /\ UNCHANGED <<cache, list, faults, syncVars>>
    <3>2. IsTable(db')
      BY <2>2, <2>3
    <3>3. /\ pc' = [pc EXCEPT ![sv] = "apply"]
          /\ UNCHANGED <<cache, cmd, member, todo, list, online, now, faults, at, read, got>>
      BY <2>2 DEF Goto, syncVars
    <3>4. pc'[sv] = "apply" /\ Cur(sv)' = c
      BY <3>3 DEF TypeOK, Cur
    <3> HIDE DEF c
    <3>5. Here(sv)'
      BY <1>1, <3>3, <3>4 DEF Here, Labels
    <3>6. Shared' /\ Reloads'
      BY <3>2, <3>3, ReloadsAlone DEF Shared, TypeOK
    <3> QED
      BY <3>3, <3>5, <3>6, OneServer DEF Only
  <2> QED
    BY <1>2, <2>1, <2>2 DEF Update, written
<1>3. CASE Apply(sv)
  <2>1. CASE Restart(sv)
    BY <2>1, RestartType
  <2>2. ASSUME NEW e \in Applied(cache[sv], c, list[sv]), cache' = [cache EXCEPT ![sv][k] = e],
               Return(sv), UNCHANGED <<db, faults>>
        PROVE  TypeInv'
    <3>1. cache' = [cache EXCEPT ![sv] = [cache[sv] EXCEPT ![k] = e]]
      BY <2>2
    <3>2. IsTable([cache[sv] EXCEPT ![k] = e])
      BY <1>1, <2>2, AppliedType, TableExcept DEF TypeOK
    <3>3. IsTable(cache'[sv]) /\ Only(cache, cache', sv)
      BY <3>1, <3>2 DEF TypeOK, Only
    <3> QED
      BY <1>1, <2>2, <3>3, ReturnType DEF TypeOK
  <2> QED
    BY <1>3, <2>1, <2>2 DEF Apply
<1> QED
  BY <1>2, <1>3

(* A reload assigns tables to the caches of its own server. *)
LEMMA SyncType ==
  ASSUME TypeInv, NEW th \in Threads, DatabaseSync(th) \/ SyncRead(th) \/ SyncAssign(th)
  PROVE  TypeInv'
<1> USE DEF TypeInv
<1> DEFINE sv == th[1]
<1>1. /\ UNCHANGED <<db, pc, cmd, member, todo, list, online, now>> /\ faults' \in Nat
      /\ sv \in Servers
  BY MysqlAssumption DEF DatabaseSync, SyncRead, SyncAssign, gameVars, Fails, TypeOK
<1>2. IsTable(cache'[sv]) /\ Only(cache, cache', sv)
  <2>1. CASE UNCHANGED cache
    BY <1>1, <2>1 DEF TypeOK, Only
  <2>2. CASE SyncAssign(th)
    <3> DEFINE r == [k \in Key |-> IF k \in KeysOf(at[th]) THEN read[th][k] ELSE cache[sv][k]]
    <3>1. cache' = [cache EXCEPT ![sv] = r]
      BY <2>2 DEF SyncAssign
    <3>2. IsTable(r)
      <4>1. IsTable(read[th]) /\ IsTable(cache[sv])
        BY <1>1 DEF TypeOK
      <4> HIDE DEF TypeInv
      <4> QED
        BY <4>1 DEF IsTable, Key
    <3> HIDE DEF r, sv
    <3>3. cache'[sv] = r
      BY <1>1, <3>1 DEF TypeOK
    <3>4. Only(cache, cache', sv)
      BY <3>1 DEF Only
    <3> QED
      BY <3>2, <3>3, <3>4
  <2> QED
    BY <2>1, <2>2 DEF DatabaseSync, SyncRead
<1>3. Reloads'
  <2>1. CASE DatabaseSync(th)
    BY <2>1 DEF DatabaseSync, TypeOK, Reloads, Maps
  <2>2. CASE SyncRead(th)
    <3>1. /\ at' = at /\ at[th] # "idle" /\ got' = [got EXCEPT ![th] = TRUE]
          /\ \E K : read' = [read EXCEPT ![th] = Rows(db, K)]
      BY <2>2 DEF SyncRead
    <3>2. \A x \in Threads : IsTable(read'[x])
      BY <3>1, RowsTable DEF TypeOK
    <3> QED
      BY <3>1, <3>2 DEF TypeOK, Reloads
  <2>3. CASE SyncAssign(th)
    <3>1. /\ at' = [at EXCEPT ![th] = NextMap(@)] /\ got' = [got EXCEPT ![th] = FALSE]
          /\ read' = [read EXCEPT ![th] = Empty] /\ at[th] \in Maps
      BY <2>3 DEF SyncAssign, TypeOK
    <3>2. at' \in [Threads -> Maps \cup {"idle"}]
      BY <3>1, NextMapType DEF TypeOK
    <3>3. \A x \in Threads : IsTable(read'[x])
      BY <3>1, EmptyTable DEF TypeOK
    <3> QED
      BY <3>1, <3>2, <3>3 DEF TypeOK, Reloads
  <2> QED
    BY <2>1, <2>2, <2>3
<1>4. Here(sv)'
  <2>1. Here(sv)
    BY <1>1 DEF TypeOK, Phase, Here
  <2> QED
    BY <1>1, <1>2, <2>1 DEF Here, Cur
<1>5. Shared'
  BY <1>1 DEF Shared, TypeOK
<1> HIDE DEF sv
<1> QED
  BY <1>1, <1>2, <1>3, <1>4, <1>5, OneServer DEF Only

(* Every variable keeps its type on every server of the cluster, and a     *)
(* command is only at the labels its operation has: the state of           *)
(* PermissionsMysql, whatever queries fail.                                *)
THEOREM ClusterTypeCorrect == Spec => [](TypeOK /\ Phase)
<1>1. Init => TypeInv
  <2> SUFFICES ASSUME Init PROVE TypeInv
    OBVIOUS
  <2>1. /\ IsTable(db) /\ \A sv \in Servers : IsTable(cache[sv])
        /\ \A th \in Threads : IsTable(read[th])
    BY EmptyTable, DefaultsTable DEF Init
  <2>2. TypeOK
    BY <2>1 DEF Init, Idle, TypeOK, Labels
  <2>3. Phase
    BY DEF Init, Idle, Phase
  <2> QED
    BY <2>2, <2>3 DEF TypeInv
<1>2. TypeInv /\ [Next]_vars => TypeInv'
  <2> SUFFICES ASSUME TypeInv, [Next]_vars PROVE TypeInv'
    OBVIOUS
  <2>1. ASSUME NEW sv \in Servers,
               \/ \E g \in Groups : \/ \E p \in Players : PlayerCommand(sv, p, g)
                                    \/ \E t \in Tribes : TribeCommand(sv, t, g)
                                    \/ GroupCommand(sv, g)
               \/ \E p \in Players : HandleNewPlayer(sv, p) \/ ClientNotifyAdmin(sv, p)
        PROVE  TypeInv'
    BY <2>1, CommandType
  <2>2. ASSUME NEW sv \in Servers, NEW p \in Players, Leave(sv, p)
        PROVE  TypeInv'
    <3>1. UNCHANGED <<db, cache, at, read, got, pc, cmd, member, todo, list, now, faults>>
      BY <2>2 DEF Leave, syncVars
    <3>2. online' \in [Players -> Servers \cup {NoEntry}]
      BY <2>2 DEF Leave, TypeInv, TypeOK
    <3> QED
      BY <3>1, <3>2 DEF TypeInv, TypeOK, Phase, Cur
  <2>3. ASSUME NEW sv \in Servers, Game(sv)
        PROVE  TypeInv'
    BY <2>3, InsertType, CheckType, MembersType, WriteType DEF Game
  <2>4. ASSUME NEW sv \in Servers, Crash(sv)
        PROVE  TypeInv'
    BY <2>4, RestartType DEF Crash
  <2>5. ASSUME NEW th \in Threads, DatabaseSync(th) \/ SyncRead(th) \/ SyncAssign(th)
        PROVE  TypeInv'
    BY <2>5, SyncType
  <2>6. CASE Tick
    BY <2>6 DEF Tick, gameVars, syncVars, TypeInv, TypeOK, Phase, Cur
  <2>7. CASE UNCHANGED vars
    BY <2>7 DEF vars, TypeInv, TypeOK, Phase, Cur
  <2> QED
    BY <2>1, <2>2, <2>3, <2>4, <2>5, <2>6, <2>7 DEF Next
<1>3. TypeInv => TypeOK /\ Phase
  BY DEF TypeInv
<1> QED
  BY <1>1, <1>2, <1>3, PTL DEF Spec

-----------------------------------------------------------------------------
(* Revocations stay. *)

(* The list server sv is about to write does not bring s back into g. *)
Clean(sv, s, g) ==
  pc[sv] \in {"update", "apply"} /\ Cur(sv).op \in {"Add", "Remove"} /\ Cur(sv).target = s
    => g \notin list[sv]

(* No server is at the command that puts s into g. *)
Ungranted(s, g) ==
  \A sv \in Servers : cmd[sv] # [op |-> "Add", target |-> s, group |-> g]

(* A step of one server's game thread keeps a membership gone if what it  *)
(* leaves on that server and in the database does not hold it.            *)
LEMMA GoneAlone ==
  ASSUME TypeInv, NEW sv \in Servers, NEW s \in Subjects, NEW g \in Groups, Gone(s, g),
         Only(cache, cache', sv), Only(pc, pc', sv), Only(cmd, cmd', sv),
         Only(member, member', sv), Only(list, list', sv),
         ~Holds(db', s, g), ~Holds(cache'[sv], s, g), Clean(sv, s, g)',
         \A th \in Threads : ~Holds(read'[th], s, g)
  PROVE  Gone(s, g)'
<1>1. ASSUME NEW u \in Servers
      PROVE  ~Holds(cache'[u], s, g) /\ Clean(u, s, g)'
  <2>1. CASE u = sv
    BY <2>1
  <2>2. CASE u # sv
    <3>1. /\ cache'[u] = cache[u] /\ pc'[u] = pc[u] /\ cmd'[u] = cmd[u]
          /\ member'[u] = member[u] /\ list'[u] = list[u]
      BY <2>2 DEF Only, TypeInv, TypeOK
    <3>2. ~Holds(cache[u], s, g) /\ Clean(u, s, g)
      BY DEF Gone, Clean
    <3> QED
      BY <3>1, <3>2 DEF Clean, Cur
  <2> QED
    BY <2>1, <2>2
<1> QED
  BY <1>1 DEF Gone, Clean

(* The row of a new player or tribe holds no group but Default. *)
LEMMA NewRowHolds ==
  ASSUME NEW s, NEW g, g # DefaultGroup
  PROVE  g \notin NewRow(s).groups
BY DEF NewRow

(* A list copied from a cache that does not hold a membership grants it    *)
(* only for the command that does.                                         *)
LEMMA CopiesHold ==
  ASSUME NEW c, IsTable(c), NEW n \in Cmd, NEW s \in Subjects, NEW g \in Groups, NEW t,
         ~Holds(c, s, g), n.op \in {"Add", "Remove"}, n.target = s,
         n.op = "Remove" => c[s] # NoEntry,
         n.op = "Add" => n.group # g, NEW l \in Copies(c, n, t)
  PROVE  g \notin l
BY DEF Copies, Entered, Holds

(* Nor does the statement ... *)
LEMMA WrittenHolds ==
  ASSUME NEW n \in Cmd, n.op # "NewPlayer", NEW l \in Lists(n.op), NEW old,
         IsEntry(Changed(n), old), NEW g \in Groups, Changed(n) \in Subjects,
         n.op \in {"Add", "Remove"} => g \notin l,
         old # NoEntry => g \notin old.groups
  PROVE  LET e == Written(n, l, old) IN e # NoEntry => g \notin e.groups
<1> USE CmdParts, KeyKinds
<1>1. n.op \in {"Add", "Remove", "AddTimed", "RemoveTimed"}
  BY DEF SubjectOps, GroupOps, PermOps
<1>2. CASE old = NoEntry
  BY <1>1, <1>2 DEF Written
<1>3. CASE old # NoEntry
  <2>1. old \in Row
    BY <1>3 DEF IsEntry
  <2>2. /\ [old EXCEPT !.groups = l].groups = l
        /\ \A t : [old EXCEPT !.timed = t].groups = old.groups
    BY <2>1 DEF Row
  <2> QED
    BY <1>1, <1>3, <2>2 DEF Written
<1> QED
  BY <1>2, <1>3

(* ... nor the change in the cache. *)
LEMMA AppliedHolds ==
  ASSUME NEW c, IsTable(c), NEW n \in Cmd, n.op # "NewPlayer", NEW l,
         NEW e \in Applied(c, n, l), NEW s \in Subjects, NEW g \in Groups,
         Changed(n) = s, ~Holds(c, s, g), n.op = "Add" => n.group # g
  PROVE  e # NoEntry => g \notin e.groups
<1> USE CmdParts, KeyKinds
<1>1. n.op \in {"Add", "Remove", "AddTimed", "RemoveTimed"} /\ n.target = s
  BY DEF SubjectOps, GroupOps, PermOps
<1> DEFINE old == Entered(c, s)
<1>2. old \in Row /\ g \notin old.groups
  BY DEF Entered, Holds, IsTable, Row
<1> HIDE DEF old
<1>3. /\ \A t : [old EXCEPT !.timed = t].groups = old.groups
      /\ [old EXCEPT !.groups = @ \cup {n.group}].groups = old.groups \cup {n.group}
      /\ [old EXCEPT !.groups = @ \ {n.group}].groups = old.groups \ {n.group}
  BY <1>2 DEF Row
<1>4. CASE n.op = "Add"
  BY <1>1, <1>2, <1>3, <1>4 DEF Applied, old
<1>5. CASE n.op = "Remove"
  BY <1>1, <1>2, <1>3, <1>5 DEF Applied, old
<1>6. CASE n.op = "AddTimed"
  BY <1>1, <1>2, <1>3, <1>6 DEF Applied, old
<1>7. CASE n.op = "RemoveTimed"
  BY <1>1, <1>2, <1>3, <1>7 DEF Applied, old
<1> QED
  BY <1>1, <1>4, <1>5, <1>6, <1>7

(* The end of a command writes nothing. *)
LEMMA ReturnGone ==
  ASSUME TypeInv, NEW sv \in Servers, NEW s \in Subjects, NEW g \in Groups, Gone(s, g),
         Return(sv), Only(cache, cache', sv), ~Holds(cache'[sv], s, g), ~Holds(db', s, g)
  PROVE  Gone(s, g)'
<1>1. /\ Only(pc, pc', sv) /\ Only(cmd, cmd', sv) /\ Only(member, member', sv)
      /\ Only(list, list', sv) /\ UNCHANGED <<at, read, got>>
  BY DEF Return, Only, syncVars
<1>2. pc'[sv] \in {"idle", "members"}
  BY DEF Return, TypeInv, TypeOK
<1>3. Clean(sv, s, g)'
  BY <1>2 DEF Clean
<1> QED
  BY <1>1, <1>3, GoneAlone DEF Gone

(* A new process loads its caches from the database. *)
LEMMA RestartGone ==
  ASSUME TypeInv, NEW sv \in Servers, NEW s \in Subjects, NEW g \in Groups, Gone(s, g),
         Restart(sv)
  PROVE  Gone(s, g)'
<1>1. IsTable(db) /\ s \in Key
  BY DEF TypeInv, TypeOK, Key
<1>2. db' = WithDefaultGroups(db) /\ db'[s] = db[s]
  BY <1>1, DefaultsSubjects DEF Restart
<1>3. ~Holds(db', s, g)
  BY <1>2 DEF Gone, Holds
<1>4. Only(cache, cache', sv) /\ ~Holds(cache'[sv], s, g)
  <2>1. CASE cache' = [cache EXCEPT ![sv] = db']
    <3>1. cache'[sv] = db'
      BY <2>1 DEF TypeInv, TypeOK
    <3> QED
      BY <1>3, <2>1, <3>1 DEF Only
  <2>2. ASSUME NEW K, cache' = [cache EXCEPT ![sv] = Rows(db', K)]
        PROVE  Only(cache, cache', sv) /\ ~Holds(cache'[sv], s, g)
    <3>1. cache'[sv] = Rows(db', K)
      BY <2>2 DEF TypeInv, TypeOK
    <3>2. Rows(db', K)[s] \in {db'[s], NoEntry}
      BY <1>1 DEF Rows
    <3> QED
      BY <1>3, <2>2, <3>1, <3>2 DEF Only, Holds
  <2> QED
    BY <2>1, <2>2 DEF Restart
<1>5. /\ Only(pc, pc', sv) /\ Only(cmd, cmd', sv) /\ Only(member, member', sv)
      /\ Only(list, list', sv)
  BY DEF Restart, Only
<1>6. pc'[sv] = "idle"
  BY DEF Restart, TypeInv, TypeOK
<1>7. Clean(sv, s, g)'
  BY <1>6 DEF Clean
<1>8. \A th \in Threads : ~Holds(read'[th], s, g)
  BY <1>1 DEF Restart, Gone, Holds, Empty
<1> QED
  BY <1>3, <1>4, <1>5, <1>7, <1>8, GoneAlone

(* A command that begins has copied no list yet. *)
LEMMA CallGone ==
  ASSUME TypeInv, NEW sv \in Servers, NEW s \in Subjects, NEW g \in Groups, Gone(s, g),
         NEW op, NEW target, NEW group, Call(sv, op, target, group)
  PROVE  Gone(s, g)'
<1>1. /\ Only(pc, pc', sv) /\ Only(cmd, cmd', sv)
      /\ UNCHANGED <<db, cache, member, list, at, read, got>>
  BY DEF Call, Only, syncVars
<1>2. pc'[sv] \in {"insert", "check"}
  BY DEF Call, TypeInv, TypeOK
<1>3. Clean(sv, s, g)'
  BY <1>2 DEF Clean
<1>4. Only(cache, cache', sv) /\ Only(member, member', sv) /\ Only(list, list', sv)
  BY <1>1 DEF Only
<1> QED
  BY <1>1, <1>3, <1>4, GoneAlone DEF Gone

(* The commands of players, tribes and groups all begin that way. *)
LEMMA CommandGone ==
  ASSUME TypeInv, NEW sv \in Servers, NEW s \in Subjects, NEW g \in Groups, Gone(s, g),
         \/ \E h \in Groups : \/ \E p \in Players : PlayerCommand(sv, p, h)
                              \/ \E t \in Tribes : TribeCommand(sv, t, h)
                              \/ GroupCommand(sv, h)
         \/ \E p \in Players : HandleNewPlayer(sv, p) \/ ClientNotifyAdmin(sv, p)
  PROVE  Gone(s, g)'
<1>1. ASSUME NEW h \in Groups, NEW p \in Players, PlayerCommand(sv, p, h)
      PROVE  Gone(s, g)'
  BY <1>1, CallGone DEF PlayerCommand, AddPlayerToGroup, RemovePlayerFromGroup,
     AddPlayerToTimedGroup, RemovePlayerFromTimedGroup
<1>2. ASSUME NEW h \in Groups, NEW t \in Tribes, TribeCommand(sv, t, h)
      PROVE  Gone(s, g)'
  BY <1>2, CallGone DEF TribeCommand, AddTribeToGroup, RemoveTribeFromGroup,
     AddTribeToTimedGroup, RemoveTribeFromTimedGroup
<1>3. ASSUME NEW h \in Groups, GroupCommand(sv, h)
      PROVE  Gone(s, g)'
  BY <1>3, CallGone DEF GroupCommand, AddGroup, RemoveGroup, GroupGrantPermission,
     GroupRevokePermission
<1>4. ASSUME NEW p \in Players, HandleNewPlayer(sv, p) \/ ClientNotifyAdmin(sv, p)
      PROVE  Gone(s, g)'
  BY <1>4, CallGone DEF HandleNewPlayer, ClientNotifyAdmin, AddPlayerToGroup
<1> QED
  BY <1>1, <1>2, <1>3, <1>4

(* A new row holds no group a player would have to be added to. *)
LEMMA InsertGone ==
  ASSUME TypeInv, NEW sv \in Servers, NEW s \in Subjects, NEW g \in Groups, Gone(s, g),
         g # DefaultGroup, Insert(sv) \/ CacheRow(sv)
  PROVE  Gone(s, g)'
<1> DEFINE t == cmd[sv].target
<1>1. IsTable(db) /\ IsTable(cache[sv]) /\ s \in Key /\ DOMAIN cache = Servers
      /\ DOMAIN pc = Servers
  BY DEF TypeInv, TypeOK, Key
<1>2. /\ Only(pc, pc', sv) /\ pc'[sv] \in {"cacheRow", "check"}
      /\ UNCHANGED <<cmd, member, list, at, read, got>>
  <2>1. CASE Insert(sv)
    BY <1>1, <2>1 DEF Insert, Goto, Only, syncVars
  <2>2. CASE CacheRow(sv)
    BY <1>1, <2>2 DEF CacheRow, Goto, Only, syncVars
  <2> QED
    BY <2>1, <2>2
<1>3. Clean(sv, s, g)'
  BY <1>2 DEF Clean
<1>4. ~Holds(db', s, g)
  <2>1. UNCHANGED db \/ db' = [db EXCEPT ![t] = NewRow(t)]
    BY DEF Insert, CacheRow
  <2> HIDE DEF t
  <2>2. db'[s] = db[s] \/ db'[s] = NewRow(s)
    BY <1>1, <2>1 DEF IsTable
  <2> QED
    BY <2>2, NewRowHolds DEF Gone, Holds
<1>5. Only(cache, cache', sv) /\ ~Holds(cache'[sv], s, g)
  <2>1. CASE UNCHANGED cache
    BY <2>1 DEF Only, Gone
  <2>2. CASE cache' = [cache EXCEPT ![sv][t] = NewRow(t)]
    <3> HIDE DEF t
    <3>1. cache' = [cache EXCEPT ![sv] = [cache[sv] EXCEPT ![t] = NewRow(t)]]
      BY <2>2
    <3>2. cache'[sv] = [cache[sv] EXCEPT ![t] = NewRow(t)]
      BY <1>1, <3>1
    <3>3. cache'[sv][s] = cache[sv][s] \/ cache'[sv][s] = NewRow(s)
      BY <1>1, <3>2 DEF IsTable
    <3> QED
      BY <3>1, <3>3, NewRowHolds DEF Only, Gone, Holds
  <2> QED
    BY <2>1, <2>2 DEF Insert, CacheRow
<1> HIDE DEF t
<1>6. Only(cmd, cmd', sv) /\ Only(member, member', sv) /\ Only(list, list', sv)
  BY <1>2 DEF Only
<1>7. \A th \in Threads : ~Holds(read'[th], s, g)
  BY <1>2 DEF Gone
<1> QED
  BY <1>2, <1>3, <1>4, <1>5, <1>6, <1>7, GoneAlone

(* The list a command copies holds s only if the command grants it g. *)
LEMMA CheckGone ==
  ASSUME TypeInv, NEW sv \in Servers, NEW s \in Subjects, NEW g \in Groups, Gone(s, g),
         Ungranted(s, g), Check(sv)
  PROVE  Gone(s, g)'
<1> DEFINE c == Cur(sv)
<1>1. pc[sv] = "check" /\ UNCHANGED <<db, cache>>
  BY DEF Check
<1>2. /\ Here(sv) /\ c \in Cmd /\ IsTable(cache[sv]) /\ DOMAIN list = Servers
      /\ DOMAIN pc = Servers
      /\ c.op = "Add" => c = cmd[sv]
  BY <1>1, CurCmd DEF TypeInv, TypeOK
<1>3. ~Holds(cache[sv], s, g) /\ Only(cache, cache', sv) /\ ~Holds(db', s, g)
      /\ ~Holds(cache'[sv], s, g)
  BY <1>1 DEF Gone, Only
<1>4. CASE Return(sv)
  BY <1>1, <1>3, <1>4, ReturnGone
<1>5. ASSUME CanProceed(cache[sv], c, OnlineAt(sv), now),
             NEW copy \in Copies(cache[sv], c, now), list' = [list EXCEPT ![sv] = copy],
             Goto(sv, "update"), UNCHANGED syncVars
      PROVE  Gone(s, g)'
  <2>1. UNCHANGED <<cmd, member, at, read, got>> /\ Only(pc, pc', sv) /\ Only(list, list', sv)
    BY <1>5 DEF Goto, syncVars, Only
  <2>2. list'[sv] = copy
    BY <1>2, <1>5
  <2>3. ASSUME c.op \in {"Add", "Remove"}, c.target = s
        PROVE  g \notin copy
    <3>1. c.op = "Add" => c.group # g
      <4> SUFFICES ASSUME c.op = "Add", c.group = g PROVE FALSE
        OBVIOUS
      <4>1. c = [op |-> "Add", target |-> s, group |-> g]
        BY <1>2, <2>3 DEF Cmd, GroupOps, PermOps
      <4> QED
        BY <1>2, <4>1 DEF Ungranted
    <3>2. c.op = "Remove" => cache[sv][s] # NoEntry
      BY <1>5, <2>3 DEF CanProceed
    <3> HIDE DEF c
    <3> QED
      BY <1>2, <1>3, <1>5, <2>3, <3>1, <3>2, CopiesHold
  <2>4. Cur(sv)' = c
    BY <2>1 DEF Cur
  <2>5. Clean(sv, s, g)'
    BY <2>2, <2>3, <2>4 DEF Clean
  <2>6. Only(cmd, cmd', sv) /\ Only(member, member', sv)
    BY <2>1 DEF Only
  <2>7. \A th \in Threads : ~Holds(read'[th], s, g)
    BY <2>1 DEF Gone
  <2> QED
    BY <1>3, <2>1, <2>5, <2>6, <2>7, GoneAlone
<1>6. CASE pc' = [pc EXCEPT ![sv] = "members"] /\ UNCHANGED <<cmd, member, list, syncVars>>
  <2>1. UNCHANGED <<cmd, member, list, at, read, got>> /\ Only(pc, pc', sv)
        /\ pc'[sv] = "members"
    BY <1>2, <1>6 DEF syncVars, Only
  <2>2. Clean(sv, s, g)'
    BY <2>1 DEF Clean
  <2>3. Only(cmd, cmd', sv) /\ Only(member, member', sv) /\ Only(list, list', sv)
    BY <2>1 DEF Only
  <2>4. \A th \in Threads : ~Holds(read'[th], s, g)
    BY <2>1 DEF Gone
  <2> QED
    BY <1>3, <2>1, <2>2, <2>3, <2>4, GoneAlone
<1> QED
  BY <1>4, <1>5, <1>6 DEF Check

(* RemoveGroup's loop writes no membership. *)
LEMMA MembersGone ==
  ASSUME TypeInv, NEW sv \in Servers, NEW s \in Subjects, NEW g \in Groups, Gone(s, g),
         Members(sv)
  PROVE  Gone(s, g)'
<1>1. /\ pc[sv] = "members" /\ UNCHANGED <<db, cache, cmd, list, at, read, got>>
      /\ Only(pc, pc', sv) /\ Only(member, member', sv)
  BY DEF Members, syncVars, Only
<1>2. /\ Here(sv) /\ cmd[sv].op = "RemoveGroup" /\ member[sv] = NoEntry
      /\ DOMAIN pc = Servers
  BY <1>1, CurCmd DEF Here, TypeInv, TypeOK
<1>3. pc'[sv] = "update" => member'[sv] = NoEntry
  BY <1>2 DEF Members
<1>4. pc'[sv] \in {"update", "check"}
  BY <1>2 DEF Members
<1>5. Clean(sv, s, g)'
  BY <1>1, <1>2, <1>3, <1>4 DEF Clean, Cur
<1>6. Only(cmd, cmd', sv) /\ Only(cache, cache', sv) /\ Only(list, list', sv)
  BY <1>1 DEF Only
<1> QED
  BY <1>1, <1>5, <1>6, GoneAlone DEF Gone

(* The statement and the change in the cache grant a membership only for   *)
(* the command that asks for it.                                           *)
LEMMA WriteGone ==
  ASSUME TypeInv, NEW sv \in Servers, NEW s \in Subjects, NEW g \in Groups, Gone(s, g),
         Ungranted(s, g), Update(sv) \/ Apply(sv)
  PROVE  Gone(s, g)'
<1> DEFINE c == Cur(sv)
           k == Changed(c)
<1>1. /\ pc[sv] \in {"update", "apply"} /\ Here(sv) /\ c \in Cmd /\ c.op # "NewPlayer"
      /\ list[sv] \in Lists(c.op) /\ IsTable(db) /\ IsTable(cache[sv])
      /\ DOMAIN cache = Servers /\ DOMAIN pc = Servers /\ s \in Key
      /\ c.op = "Add" => c = cmd[sv]
  <2>1. pc[sv] \in {"update", "apply"}
    BY DEF Update, Apply
  <2>2. Here(sv) /\ c \in Cmd /\ (c.op = "Add" => c = cmd[sv])
    BY <2>1, CurCmd
  <2>3. c.op # "NewPlayer" /\ list[sv] \in Lists(c.op) /\ IsTable(cache[sv])
    BY <2>1, <2>2 DEF Here, TypeInv, Phase
  <2> QED
    BY <2>1, <2>2, <2>3 DEF TypeInv, TypeOK, Key
<1>2. k \in Key /\ IsEntry(k, db[k])
  BY <1>1, CmdParts, TableEntry
<1>3. k = s => c.op \in SubjectOps /\ c.target = s
  BY <1>1, CmdParts, KeyKinds DEF Changed
<1>4. c.op = "Add" /\ c.target = s => c.group # g
  <2> SUFFICES ASSUME c.op = "Add", c.target = s, c.group = g PROVE FALSE
    OBVIOUS
  <2>1. c = [op |-> "Add", target |-> s, group |-> g]
    BY <1>1 DEF Cmd, GroupOps, PermOps
  <2> QED
    BY <1>1, <2>1 DEF Ungranted
<1>5. ~Holds(db, s, g) /\ ~Holds(cache[sv], s, g)
      /\ (c.op \in {"Add", "Remove"} /\ c.target = s => g \notin list[sv])
  BY <1>1 DEF Gone
<1> DEFINE written == [db EXCEPT ![k] = Written(c, list[sv], @)]
<1>9. ASSUME db' = written
      PROVE  ~Holds(db', s, g)
  <2>1. CASE k # s
    <3>1. db'[s] = db[s]
      BY <1>1, <1>9, <2>1 DEF IsTable
    <3> QED
      BY <1>5, <3>1 DEF Holds
  <2>2. CASE k = s
    <3>1. db'[s] = Written(c, list[sv], db[s])
      BY <1>1, <1>9, <2>2 DEF IsTable
    <3>2. /\ c.op \in {"Add", "Remove"} => g \notin list[sv]
          /\ db[s] # NoEntry => g \notin db[s].groups
          /\ IsEntry(Changed(c), db[s]) /\ Changed(c) \in Subjects
      BY <1>2, <1>3, <1>5, <2>2 DEF Holds
    <3>3. LET e == Written(c, list[sv], db[s]) IN e # NoEntry => g \notin e.groups
      <4> HIDE DEF c, k
      <4> QED
        BY <1>1, <3>2, WrittenHolds
    <3> QED
      BY <3>1, <3>3 DEF Holds
  <2> QED
    BY <2>1, <2>2
<1> HIDE DEF written
<1>6. ASSUME db' = written, Goto(sv, "apply"), UNCHANGED <<cache, list, faults, syncVars>>
      PROVE  Gone(s, g)'
  <2>1. /\ UNCHANGED <<cache, cmd, member, list, at, read, got>> /\ Only(pc, pc', sv)
    BY <1>6 DEF Goto, syncVars, Only
  <2>2. ~Holds(db', s, g)
    BY <1>6, <1>9
  <2>3. Cur(sv)' = c
    BY <2>1 DEF Cur
  <2>4. Clean(sv, s, g)'
    BY <1>5, <2>1, <2>3 DEF Clean
  <2>5. Only(cache, cache', sv) /\ Only(cmd, cmd', sv) /\ Only(member, member', sv)
        /\ Only(list, list', sv)
    BY <2>1 DEF Only
  <2>6. ~Holds(cache'[sv], s, g) /\ \A th \in Threads : ~Holds(read'[th], s, g)
    BY <1>5, <2>1 DEF Gone
  <2> QED
    BY <2>1, <2>2, <2>4, <2>5, <2>6, GoneAlone
<1>7. CASE Update(sv)
  <2>1. CASE db' \in {db, written} /\ Return(sv) /\ UNCHANGED cache
    <3>1. ~Holds(db', s, g)
      BY <1>5, <1>9, <2>1
    <3> QED
      BY <1>5, <2>1, <3>1, ReturnGone DEF Only
  <2> QED
    BY <1>6, <1>7, <2>1 DEF Update, written
<1>8. CASE Apply(sv)
  <2>1. CASE Restart(sv)
    BY <2>1, RestartGone
  <2>2. ASSUME NEW e \in Applied(cache[sv], c, list[sv]), cache' = [cache EXCEPT ![sv][k] = e],
               Return(sv), UNCHANGED <<db, faults>>
        PROVE  Gone(s, g)'
    <3>1. cache' = [cache EXCEPT ![sv] = [cache[sv] EXCEPT ![k] = e]]
      BY <2>2
    <3>2. cache'[sv] = [cache[sv] EXCEPT ![k] = e]
      BY <1>1, <3>1
    <3>3. k = s => (e # NoEntry => g \notin e.groups)
      <4> SUFFICES ASSUME k = s PROVE e # NoEntry => g \notin e.groups
        OBVIOUS
      <4>1. Changed(c) = s /\ (c.op = "Add" => c.group # g)
        BY <1>3, <1>4
      <4> HIDE DEF c, k
      <4> QED
        BY <1>1, <1>5, <2>2, <4>1, AppliedHolds
    <3>4. ~Holds(cache'[sv], s, g)
      BY <1>1, <1>5, <3>2, <3>3 DEF Holds, IsTable
    <3> QED
      BY <1>5, <2>2, <3>1, <3>4, ReturnGone DEF Only
  <2> QED
    BY <1>8, <2>1, <2>2 DEF Apply
<1> QED
  BY <1>7, <1>8

(* A reload reads the database and assigns what it read. *)
LEMMA SyncGone ==
  ASSUME TypeInv, NEW th \in Threads, NEW s \in Subjects, NEW g \in Groups, Gone(s, g),
         DatabaseSync(th) \/ SyncRead(th) \/ SyncAssign(th)
  PROVE  Gone(s, g)'
<1>1. /\ UNCHANGED <<db, pc, cmd, member, list>> /\ s \in Key /\ DOMAIN cache = Servers
      /\ DOMAIN read = Threads
  BY DEF DatabaseSync, SyncRead, SyncAssign, gameVars, TypeInv, TypeOK, Key
<1>2. \A x \in Threads : ~Holds(read'[x], s, g)
  <2>1. CASE UNCHANGED read
    BY <2>1 DEF Gone
  <2>2. ASSUME NEW r, read' = [read EXCEPT ![th] = r], ~Holds(r, s, g)
        PROVE  \A x \in Threads : ~Holds(read'[x], s, g)
    BY <1>1, <2>2 DEF Gone
  <2>3. CASE SyncRead(th)
    <3>1. PICK K : read' = [read EXCEPT ![th] = Rows(db, K)]
      BY <2>3 DEF SyncRead
    <3>2. ~Holds(Rows(db, K), s, g)
      BY <1>1 DEF Rows, Holds, Gone
    <3> QED
      BY <2>2, <3>1, <3>2
  <2>4. CASE SyncAssign(th)
    <3>1. ~Holds(Empty, s, g)
      BY <1>1 DEF Empty, Holds
    <3> QED
      BY <2>2, <2>4, <3>1 DEF SyncAssign
  <2> QED
    BY <2>1, <2>3, <2>4 DEF DatabaseSync
<1>3. \A sv \in Servers : ~Holds(cache'[sv], s, g)
  <2>1. CASE UNCHANGED cache
    BY <2>1 DEF Gone
  <2>2. CASE SyncAssign(th)
    <3> DEFINE r == [k \in Key |-> IF k \in KeysOf(at[th]) THEN read[th][k] ELSE cache[th[1]][k]]
    <3>1. cache' = [cache EXCEPT ![th[1]] = r]
      BY <2>2 DEF SyncAssign
    <3>2. ~Holds(read[th], s, g) /\ (th[1] \in Servers => ~Holds(cache[th[1]], s, g))
      BY DEF Gone
    <3>3. th[1] \in Servers => ~Holds(r, s, g)
      BY <1>1, <3>2 DEF Holds
    <3> HIDE DEF r
    <3> QED
      BY <1>1, <3>1, <3>3 DEF Gone
  <2> QED
    BY <2>1, <2>2 DEF DatabaseSync, SyncRead
<1> QED
  BY <1>1, <1>2, <1>3 DEF Gone, Cur

(* Once no table, cache, reload under way or list about to be written      *)
(* holds a permanent membership of a player or tribe, only the command     *)
(* that grants it brings it back.                                          *)
THEOREM RevocationStays == Spec => RevocationFinal
<1>1. TypeInv /\ [Next]_vars =>
        [\A s \in Subjects, g \in Groups \ {DefaultGroup} :
           Gone(s, g) /\ ~Gone(s, g)' =>
             \E sv \in Servers : cmd[sv] = [op |-> "Add", target |-> s, group |-> g]]_vars
  <2> SUFFICES ASSUME TypeInv, Next, NEW s \in Subjects, NEW g \in Groups \ {DefaultGroup},
                      Gone(s, g), Ungranted(s, g)
               PROVE  Gone(s, g)'
    BY DEF Ungranted
  <2>1. ASSUME NEW sv \in Servers,
               \/ \E h \in Groups : \/ \E p \in Players : PlayerCommand(sv, p, h)
                                    \/ \E t \in Tribes : TribeCommand(sv, t, h)
                                    \/ GroupCommand(sv, h)
               \/ \E p \in Players : HandleNewPlayer(sv, p) \/ ClientNotifyAdmin(sv, p)
        PROVE  Gone(s, g)'
    BY <2>1, CommandGone
  <2>2. ASSUME NEW sv \in Servers, Game(sv)
        PROVE  Gone(s, g)'
    BY <2>2, InsertGone, CheckGone, MembersGone, WriteGone DEF Game
  <2>3. ASSUME NEW sv \in Servers, Crash(sv)
        PROVE  Gone(s, g)'
    BY <2>3, RestartGone DEF Crash
  <2>4. ASSUME NEW th \in Threads, DatabaseSync(th) \/ SyncRead(th) \/ SyncAssign(th)
        PROVE  Gone(s, g)'
    BY <2>4, SyncGone
  <2>5. CASE Tick
    BY <2>5 DEF Tick, gameVars, syncVars, Gone, Cur
  <2>6. ASSUME NEW sv \in Servers, NEW p \in Players, Leave(sv, p)
        PROVE  Gone(s, g)'
    BY <2>6 DEF Leave, syncVars, Gone, Cur
  <2> QED
    BY <2>1, <2>2, <2>3, <2>4, <2>5, <2>6 DEF Next
<1>2. Spec => []TypeInv
  BY ClusterTypeCorrect, PTL DEF TypeInv
<1> QED
  BY <1>1, <1>2, PTL DEF Spec, RevocationFinal
=============================================================================
