------------------------ MODULE PermissionCommands ------------------------
(***************************************************************************)
(* The commands of the Permissions plugin, as both database back ends      *)
(* carry them out: guards on the caches, a list copied from a cache, one   *)
(* statement that writes the whole list, and the change repeated in the    *)
(* cache.  The steps are functions of the caches c, the command and the    *)
(* list; the modules of the back ends say when each is taken.              *)
(***************************************************************************)
EXTENDS CachedPermission

SubjectOps == {"NewPlayer", "Add", "Remove", "AddTimed", "RemoveTimed"}
GroupOps == {"AddGroup", "RemoveGroup"}
PermOps == {"Grant", "Revoke"}
Cmd == [op : SubjectOps, target : Subjects, group : Groups]
         \cup [op : GroupOps, target : {NoEntry}, group : Groups]
         \cup [op : PermOps, target : Perms, group : Groups]
NoCmd == [op |-> "none", target |-> NoEntry, group |-> DefaultGroup]

(***************************************************************************)
(* The record of the database a command changes, and the map that caches   *)
(* it.                                                                     *)
(***************************************************************************)
Changed(cmd) == IF cmd.op \in SubjectOps THEN cmd.target ELSE cmd.group

Maps == {"groups", "players", "tribes"}
KeysOf(m) == CASE m = "groups" -> Groups [] m = "players" -> Players [] m = "tribes" -> Tribes
MapOf(k) == CASE k \in Groups -> "groups" [] k \in Players -> "players" [] k \in Tribes -> "tribes"
NextMapSkipping(m) ==  \* mutation: a reload that leaves the players out
  CASE m = "groups" -> "tribes" [] m = "players" -> "tribes" [] m = "tribes" -> "idle"
NextMap(m) == CASE m = "groups" -> "players" [] m = "players" -> "tribes" [] m = "tribes" -> "idle"

NoPerms == [perms |-> {}]
Empty == [k \in Key |-> NoEntry]

(* The constructor adds the two groups that must exist, if they are missing. *)
WithDefaultGroups(table) ==
  [k \in Key |-> CASE k = AdminsGroup /\ table[k] = NoEntry -> [perms |-> {Star}]
                    [] k = DefaultGroup /\ table[k] = NoEntry -> NoPerms
                    [] OTHER -> table[k]]

(* A SELECT that throws half way returns the rows read so far. *)
Rows(table, K) == [k \in Key |-> IF k \in K THEN table[k] ELSE NoEntry]

(***************************************************************************)
(* The operations that create their subject call AddPlayer or AddTribe.    *)
(***************************************************************************)
Creates(c, cmd) == cmd.op \in {"NewPlayer", "Add", "AddTimed"} /\ c[cmd.target] = NoEntry

(***************************************************************************)
(* The guards of each operation.  What the callbacks of other plugins      *)
(* report may differ from one evaluation to the next, so a command may be  *)
(* able both to proceed and to refuse.                                     *)
(***************************************************************************)
Member(c, cmd, online, now) ==
  \E reported \in SUBSET CallbackGroups :
    InGroup(c, cmd.target, cmd.group, online, reported, now)
NotMember(c, cmd, online, now) ==
  \E reported \in SUBSET CallbackGroups :
    ~InGroup(c, cmd.target, cmd.group, online, reported, now)

CanProceed(c, cmd, online, now) ==
  CASE cmd.op \in {"Add", "AddTimed"} ->
         c[cmd.group] # NoEntry /\ NotMember(c, cmd, online, now)
    [] cmd.op = "Remove" ->
         c[cmd.target] # NoEntry /\ c[cmd.group] # NoEntry /\ Member(c, cmd, online, now)
    [] cmd.op = "RemoveTimed" ->
         /\ c[cmd.target] # NoEntry /\ c[cmd.group] # NoEntry
         /\ \E tg \in c[cmd.target].timed : tg.name = cmd.group
    [] cmd.op = "AddGroup" -> c[cmd.group] = NoEntry
    [] cmd.op = "RemoveGroup" -> c[cmd.group] # NoEntry
    [] cmd.op = "Grant" -> c[cmd.group] # NoEntry /\ cmd.target \notin c[cmd.group].perms
    [] cmd.op = "Revoke" -> c[cmd.group] # NoEntry /\ cmd.target \in c[cmd.group].perms
    [] OTHER -> FALSE

CanRefuse(c, cmd, online, now) ==
  CASE cmd.op \in {"Add", "AddTimed"} ->
         c[cmd.group] = NoEntry \/ Member(c, cmd, online, now)
    [] cmd.op = "Remove" ->
         c[cmd.target] = NoEntry \/ c[cmd.group] = NoEntry \/ NotMember(c, cmd, online, now)
    [] OTHER -> ~CanProceed(c, cmd, online, now)

(***************************************************************************)
(* The lists an operation may copy from the cache before its statement.    *)
(***************************************************************************)
Copies(c, cmd, now) ==
  CASE cmd.op = "Add" -> {Entered(c, cmd.target).groups \cup {cmd.group}}
    [] cmd.op = "Remove" -> {c[cmd.target].groups \ {cmd.group}}
    [] cmd.op = "AddTimed" ->
         {OtherTimed(Entered(c, cmd.target).timed, cmd.group)
            \cup {NewTimedGroup(cmd.group, now, s + d, d)} : s \in Secs, d \in DelaySecs}
    [] cmd.op = "RemoveTimed" -> {c[cmd.target].timed}
    [] cmd.op = "Revoke" -> {c[cmd.group].perms \ {cmd.target}}
    [] OTHER -> {{}}

(* What the list copied by an operation is a list of. *)
Lists(op) ==
  CASE op \in {"Add", "Remove"} -> SUBSET Groups
    [] op \in {"AddTimed", "RemoveTimed"} -> SUBSET TimedGroup
    [] op = "Revoke" -> SUBSET Perms
    [] OTHER -> {{}}

(***************************************************************************)
(* The statement: an UPDATE of one whole list, or the DBMS's own append    *)
(* for a grant.  An UPDATE of a row that is not there changes nothing and  *)
(* succeeds.                                                               *)
(***************************************************************************)
WrittenToGroups(cmd, list, old) ==  \* mutation: the timed UPDATE names the column Groups
  IF cmd.op = "AddGroup" THEN NoPerms
  ELSE IF cmd.op = "RemoveGroup" \/ old = NoEntry THEN NoEntry
  ELSE CASE cmd.op \in {"Add", "Remove"} -> [old EXCEPT !.groups = list]
         [] cmd.op \in {"AddTimed", "RemoveTimed"} ->
              [old EXCEPT !.groups = {tg.name : tg \in list}]
         [] cmd.op = "Grant" -> [perms |-> old.perms \cup {cmd.target}]
         [] cmd.op = "Revoke" -> [perms |-> list]
Written(cmd, list, old) ==
  IF cmd.op = "AddGroup" THEN NoPerms
  ELSE IF cmd.op = "RemoveGroup" \/ old = NoEntry THEN NoEntry
  ELSE CASE cmd.op \in {"Add", "Remove"} -> [old EXCEPT !.groups = list]
         [] cmd.op = "AddTimed" -> [old EXCEPT !.timed = list]
         [] cmd.op = "RemoveTimed" -> [old EXCEPT !.timed = OtherTimed(list, cmd.group)]
         [] cmd.op = "Grant" -> [perms |-> old.perms \cup {cmd.target}]
         [] cmd.op = "Revoke" -> [perms |-> list]

(***************************************************************************)
(* The change repeated in the cache, where the entry may have been         *)
(* reloaded since it was copied.                                           *)
(***************************************************************************)
AppliedToGroups(c, cmd, list) ==  \* mutation: the end of a timed membership ends the permanent one
  LET old == Entered(c, cmd.target)
      perms == IF c[cmd.group] # NoEntry THEN c[cmd.group].perms ELSE {}
  IN CASE cmd.op = "Add" -> {[old EXCEPT !.groups = @ \cup {cmd.group}]}
       [] cmd.op \in {"Remove", "RemoveTimed"} -> {[old EXCEPT !.groups = @ \ {cmd.group}]}
       [] cmd.op = "AddTimed" -> {[old EXCEPT !.timed = list]}
       [] cmd.op = "AddGroup" -> {NoPerms}
       [] cmd.op = "RemoveGroup" -> {NoEntry}
       [] cmd.op = "Grant" -> {[perms |-> perms \cup {cmd.target}]}
       [] cmd.op = "Revoke" -> {[perms |-> list]}
Applied(c, cmd, list) ==
  LET old == Entered(c, cmd.target)
      perms == IF c[cmd.group] # NoEntry THEN c[cmd.group].perms ELSE {}
  IN CASE cmd.op = "Add" -> {[old EXCEPT !.groups = @ \cup {cmd.group}]}
       [] cmd.op = "Remove" -> {[old EXCEPT !.groups = @ \ {cmd.group}]}
       [] cmd.op = "AddTimed" -> {[old EXCEPT !.timed = list]}
       [] cmd.op = "RemoveTimed" ->
            {[old EXCEPT !.timed = t] : t \in RemovedAt(old.timed, list, cmd.group)}
       [] cmd.op = "AddGroup" -> {NoPerms}
       [] cmd.op = "RemoveGroup" -> {NoEntry}
       [] cmd.op = "Grant" -> {[perms |-> perms \cup {cmd.target}]}
       [] cmd.op = "Revoke" -> {[perms |-> list]}

(* The timed list was reloaded since it was copied: RemoveAt is undefined. *)
Stale(c, cmd, list) == cmd.op = "RemoveTimed" /\ Entered(c, cmd.target).timed # list
=============================================================================
