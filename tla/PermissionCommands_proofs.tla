---------------------- MODULE PermissionCommands_proofs ----------------------
(***************************************************************************)
(* What the operators of PermissionCommands return and preserve: the facts *)
(* the proofs about the two back ends rest on.                             *)
(***************************************************************************)
EXTENDS PermissionCommands, TLAPS

(* e may be the entry of key k in a table. *)
IsEntry(k, e) ==
  /\ k \in Subjects => e = NoEntry \/ e \in Row
  /\ k \in Groups => e = NoEntry \/ e \in GroupRow

-----------------------------------------------------------------------------
(* Tables. *)

(* An entry of a table is an entry. *)
LEMMA TableEntry ==
  ASSUME NEW f, IsTable(f), NEW k \in Key
  PROVE  IsEntry(k, f[k])
BY DEF IsTable, IsEntry, Key

(* Overwriting one entry, as every statement does, leaves a table. *)
LEMMA TableExcept ==
  ASSUME NEW f, IsTable(f), NEW k \in Key, NEW e, IsEntry(k, e)
  PROVE  IsTable([f EXCEPT ![k] = e])
BY DEF IsTable, IsEntry, Key

(* The result of a SELECT is a table. *)
LEMMA RowsTable ==
  ASSUME NEW f, IsTable(f), NEW K
  PROVE  IsTable(Rows(f, K))
BY DEF IsTable, Rows, Key

(* Assigning a part of a table to a cache leaves a table. *)
LEMMA MergedTable ==
  ASSUME NEW f, IsTable(f), NEW g, IsTable(g), NEW K
  PROVE  IsTable([k \in Key |-> IF k \in K THEN f[k] ELSE g[k]])
BY DEF IsTable, Key

(* A cache that was never filled is a table. *)
LEMMA EmptyTable == IsTable(Empty)
BY DEF IsTable, Empty, Key

(* The default groups the constructor adds are group rows. *)
LEMMA DefaultsTable ==
  ASSUME NEW f, IsTable(f)
  PROVE  IsTable(WithDefaultGroups(f))
<1>1. /\ [perms |-> {Star}] \in GroupRow /\ NoPerms \in GroupRow
  BY KeysAssumption DEF GroupRow, NoPerms
<1>2. /\ AdminsGroup \in Groups /\ AdminsGroup \notin Subjects
      /\ DefaultGroup \in Groups /\ DefaultGroup \notin Subjects
  BY KeysAssumption
<1> DEFINE e(k) == CASE k = AdminsGroup /\ f[k] = NoEntry -> [perms |-> {Star}]
                     [] k = DefaultGroup /\ f[k] = NoEntry -> NoPerms
                     [] OTHER -> f[k]
<1>3. \A k \in Key : IsEntry(k, e(k))
  BY <1>1, <1>2, TableEntry DEF IsEntry
<1>4. WithDefaultGroups(f) = [k \in Key |-> e(k)]
  BY DEF WithDefaultGroups
<1> HIDE DEF e
<1> QED
  BY <1>3, <1>4 DEF IsTable, IsEntry, Key

(* The default groups change no subject. *)
LEMMA DefaultsSubjects ==
  ASSUME NEW f, IsTable(f), NEW s \in Subjects
  PROVE  WithDefaultGroups(f)[s] = f[s]
<1>1. s \in Key /\ s # AdminsGroup /\ s # DefaultGroup
  BY KeysAssumption DEF Key
<1> QED
  BY <1>1 DEF WithDefaultGroups

(* The new row of a player or a tribe is a row. *)
LEMMA NewRowType ==
  ASSUME NEW s \in Subjects
  PROVE  NewRow(s) \in Row
BY KeysAssumption DEF NewRow, Row

(* A key belongs to one map, the one that lists it. *)
LEMMA KeysOfMapOf ==
  ASSUME NEW k \in Key
  PROVE  /\ MapOf(k) \in Maps
         /\ k \in KeysOf(MapOf(k))
         /\ \A m \in Maps : k \in KeysOf(m) => m = MapOf(k)
BY KeysAssumption DEF Key, Subjects, Maps, MapOf, KeysOf

(* The keys of a map are keys. *)
LEMMA KeysOfKey ==
  ASSUME NEW m \in Maps
  PROVE  KeysOf(m) \subseteq Key
BY DEF Key, Subjects, Maps, KeysOf

(* A reload goes from map to map and ends. *)
LEMMA NextMapType ==
  ASSUME NEW m \in Maps
  PROVE  NextMap(m) \in Maps \cup {"idle"}
BY DEF Maps, NextMap
-----------------------------------------------------------------------------
(* Commands. *)

(* What the parts of a command are. *)
LEMMA CmdParts ==
  ASSUME NEW c \in Cmd
  PROVE  /\ c.op \in SubjectOps \cup GroupOps \cup PermOps
         /\ c.group \in Groups
         /\ c.op \in SubjectOps => c.target \in Subjects
         /\ c.op \in PermOps => c.target \in Perms
         /\ Changed(c) \in Key
         /\ c.op \in SubjectOps => Changed(c) = c.target
         /\ c.op \notin SubjectOps => Changed(c) = c.group
<1>1. CASE c \in [op : SubjectOps, target : Subjects, group : Groups]
  BY <1>1 DEF Changed, Key, SubjectOps, GroupOps, PermOps
<1>2. CASE c \in [op : GroupOps, target : {NoEntry}, group : Groups]
  BY <1>2 DEF Changed, Key, SubjectOps, GroupOps, PermOps
<1>3. CASE c \in [op : PermOps, target : Perms, group : Groups]
  BY <1>3 DEF Changed, Key, SubjectOps, GroupOps, PermOps
<1> QED
  BY <1>1, <1>2, <1>3 DEF Cmd

(* A subject and a group are different keys, and neither is NoEntry. *)
LEMMA KeyKinds ==
  /\ \A s \in Subjects : s \in Key /\ s \notin Groups
  /\ \A g \in Groups : g \in Key /\ g \notin Subjects
  /\ NoEntry \notin Key /\ NoEntry \notin Row /\ NoEntry \notin GroupRow
BY KeysAssumption DEF Key

(* The lists an operation that goes on copies are lists of its kind. *)
LEMMA CopiesType ==
  ASSUME NEW c, IsTable(c), NEW cmd \in Cmd, NEW online, NEW now \in Nat,
         CanProceed(c, cmd, online, now),
         NEW list \in Copies(c, cmd, now)
  PROVE  list \in Lists(cmd.op)
<1> USE CmdParts, KeyKinds
<1>1. CASE cmd.op = "Add"
  <2>1. Entered(c, cmd.target).groups \subseteq Groups
    BY <1>1 DEF IsTable, Entered, Row, SubjectOps
  <2> QED
    BY <1>1, <2>1 DEF Copies, Lists
<1>2. CASE cmd.op = "Remove"
  <2>1. c[cmd.target] \in Row
    BY <1>2 DEF IsTable, CanProceed, SubjectOps
  <2> QED
    BY <1>2, <2>1 DEF Copies, Lists, Row
<1>3. CASE cmd.op = "AddTimed"
  <2>1. Entered(c, cmd.target).timed \subseteq TimedGroup
    BY <1>3 DEF IsTable, Entered, Row, SubjectOps
  <2>2. \A s \in Secs, d \in DelaySecs : NewTimedGroup(cmd.group, now, s + d, d) \in TimedGroup
    BY KeysAssumption DEF NewTimedGroup, TimedGroup
  <2> QED
    BY <1>3, <2>1, <2>2 DEF Copies, Lists, OtherTimed
<1>4. CASE cmd.op = "RemoveTimed"
  <2>1. c[cmd.target] \in Row
    BY <1>4 DEF IsTable, CanProceed, SubjectOps
  <2> QED
    BY <1>4, <2>1 DEF Copies, Lists, Row
<1>5. CASE cmd.op = "Revoke"
  <2>1. c[cmd.group] \in GroupRow
    BY <1>5 DEF IsTable, CanProceed
  <2> QED
    BY <1>5, <2>1 DEF Copies, Lists, GroupRow
<1>6. CASE cmd.op \notin {"Add", "Remove", "AddTimed", "RemoveTimed", "Revoke"}
  BY <1>6 DEF Copies, Lists
<1> QED
  BY <1>1, <1>2, <1>3, <1>4, <1>5, <1>6

(* The statement of an operation stores an entry of its record's kind. *)
LEMMA WrittenType ==
  ASSUME NEW cmd \in Cmd, cmd.op # "NewPlayer", NEW list \in Lists(cmd.op),
         NEW old, IsEntry(Changed(cmd), old)
  PROVE  IsEntry(Changed(cmd), Written(cmd, list, old))
<1> USE CmdParts, KeyKinds
<1>1. CASE cmd.op \in {"AddGroup", "RemoveGroup"} \/ old = NoEntry
  <2>1. NoPerms \in GroupRow
    BY DEF NoPerms, GroupRow
  <2> QED
    BY <1>1, <2>1 DEF IsEntry, Written, SubjectOps
<1>2. CASE cmd.op \in {"Add", "Remove"} /\ old # NoEntry
  <2>1. old \in Row /\ list \subseteq Groups
    BY <1>2 DEF IsEntry, Lists, SubjectOps
  <2>2. Written(cmd, list, old) = [old EXCEPT !.groups = list]
    BY <1>2 DEF Written
  <2>3. [old EXCEPT !.groups = list] \in Row
    BY <2>1 DEF Row
  <2> QED
    BY <1>2, <2>2, <2>3 DEF IsEntry, SubjectOps
<1>3. CASE cmd.op \in {"AddTimed", "RemoveTimed"} /\ old # NoEntry
  <2>1. old \in Row /\ list \subseteq TimedGroup
    BY <1>3 DEF IsEntry, Lists, SubjectOps
  <2>2. \/ Written(cmd, list, old) = [old EXCEPT !.timed = list]
        \/ Written(cmd, list, old) = [old EXCEPT !.timed = OtherTimed(list, cmd.group)]
    BY <1>3 DEF Written
  <2>3. /\ [old EXCEPT !.timed = list] \in Row
        /\ [old EXCEPT !.timed = OtherTimed(list, cmd.group)] \in Row
    BY <2>1 DEF Row, OtherTimed
  <2> QED
    BY <1>3, <2>2, <2>3 DEF IsEntry, SubjectOps
<1>4. CASE cmd.op \in PermOps /\ old # NoEntry
  <2>1. old \in GroupRow /\ cmd.target \in Perms /\ Changed(cmd) \in Groups
    BY <1>4 DEF IsEntry, PermOps, SubjectOps
  <2>2. \/ Written(cmd, list, old) = [perms |-> old.perms \cup {cmd.target}]
        \/ cmd.op = "Revoke" /\ Written(cmd, list, old) = [perms |-> list]
    BY <1>4 DEF Written, PermOps
  <2> QED
    BY <2>1, <2>2 DEF IsEntry, GroupRow, Lists
<1> QED
  BY <1>1, <1>2, <1>3, <1>4 DEF SubjectOps, GroupOps, PermOps

(* The change repeated in the cache leaves an entry of its record's kind. *)
LEMMA AppliedType ==
  ASSUME NEW c, IsTable(c), NEW cmd \in Cmd, cmd.op # "NewPlayer",
         NEW list \in Lists(cmd.op), NEW e \in Applied(c, cmd, list)
  PROVE  IsEntry(Changed(cmd), e)
<1> USE CmdParts, KeyKinds
<1> DEFINE old == Entered(c, cmd.target)
<1>1. CASE cmd.op \in {"Add", "Remove", "AddTimed", "RemoveTimed"}
  <2>1. old \in Row /\ Changed(cmd) \in Subjects
    BY <1>1 DEF IsTable, Entered, Row, SubjectOps
  <2>2. \A g \in SUBSET Groups : [old EXCEPT !.groups = g] \in Row
    BY <2>1 DEF Row
  <2>3. \A t \in SUBSET TimedGroup : [old EXCEPT !.timed = t] \in Row
    BY <2>1 DEF Row
  <2>4. /\ old.groups \subseteq Groups /\ old.timed \subseteq TimedGroup
        /\ \A t \in RemovedAt(old.timed, list, cmd.group) : t \subseteq old.timed
    BY <2>1 DEF Row, RemovedAt, OtherTimed
  <2>5. e \in Row
    <3> HIDE DEF old
    <3>1. CASE cmd.op = "Add"
      BY <3>1, <2>2, <2>4 DEF Applied, old
    <3>2. CASE cmd.op = "Remove"
      BY <3>2, <2>2, <2>4 DEF Applied, old
    <3>3. CASE cmd.op = "AddTimed"
      BY <3>3, <2>3 DEF Applied, Lists, old
    <3>4. CASE cmd.op = "RemoveTimed"
      <4>1. PICK t \in RemovedAt(old.timed, list, cmd.group) : e = [old EXCEPT !.timed = t]
        BY <3>4 DEF Applied, old
      <4> QED
        BY <4>1, <2>3, <2>4
    <3> QED
      BY <1>1, <3>1, <3>2, <3>3, <3>4
  <2> QED
    BY <2>1, <2>5 DEF IsEntry
<1>2. CASE cmd.op \in GroupOps
  <2>1. e \in {NoPerms, NoEntry}
    BY <1>2 DEF Applied, GroupOps
  <2> QED
    BY <1>2, <2>1 DEF IsEntry, NoPerms, GroupRow, GroupOps, SubjectOps
<1>3. CASE cmd.op \in PermOps
  <2>1. c[cmd.group] = NoEntry \/ c[cmd.group].perms \subseteq Perms
    BY <1>3 DEF IsTable, GroupRow
  <2>2. cmd.target \in Perms /\ Changed(cmd) \in Groups
    BY <1>3 DEF PermOps, SubjectOps
  <2>3. e.perms \subseteq Perms /\ e = [perms |-> e.perms]
    BY <1>3, <2>1, <2>2 DEF Applied, Lists, PermOps
  <2> QED
    BY <2>2, <2>3 DEF IsEntry, GroupRow
<1> QED
  BY <1>1, <1>2, <1>3 DEF SubjectOps, GroupOps, PermOps
=============================================================================
