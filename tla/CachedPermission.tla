-------------------------- MODULE CachedPermission --------------------------
(***************************************************************************)
(* The data of the Permissions plugin: what one database row and one entry *)
(* of the in-memory caches hold, and the pure functions the commands of    *)
(* both database back ends compute from them.                              *)
(*                                                                         *)
(* The three tables (Players, Tribes, Groups) and their three caches are   *)
(* functions on one set of keys, Key: a player or a tribe maps to a Row, a *)
(* group name to its permissions, and a key that is not in the table or    *)
(* not in the cache to NoEntry.  The order of a comma-separated list is    *)
(* abstracted to a set.                                                    *)
(***************************************************************************)
EXTENDS Naturals, FiniteSets

CONSTANTS
  Players,         \* Steam ids
  Tribes,          \* tribe ids
  Groups,          \* names of permission groups
  Perms,           \* permission strings
  Star,            \* the permission "*", which stands for all of them
  DefaultGroup,    \* "Default"
  AdminsGroup,     \* "Admins"
  CallbackGroups,  \* groups another plugin's permission callback may report
  TribeOf,         \* the tribe of each player, NoEntry for none
  Secs,            \* durations given to the timed commands
  DelaySecs,       \* delays given to the timed commands
  Ops,             \* bound: the operations the instance issues
  NoEntry

Subjects == Players \cup Tribes
Key == Subjects \cup Groups

(***************************************************************************)
(* A TimedGroup's times are absolute seconds; delay = 0 means "at once".   *)
(***************************************************************************)
TimedGroup == [name : Groups, delay : Nat, expire : Nat]
Row == [groups : SUBSET Groups, timed : SUBSET TimedGroup]
GroupRow == [perms : SUBSET Perms]
IsTable(f) ==
  /\ f \in [Key -> Row \cup GroupRow \cup {NoEntry}]
  /\ \A s \in Subjects : f[s] = NoEntry \/ f[s] \in Row
  /\ \A g \in Groups : f[g] = NoEntry \/ f[g] \in GroupRow

ASSUME KeysAssumption ==
  /\ Players \cap Tribes = {} /\ Subjects \cap Groups = {}
  /\ DefaultGroup \in Groups /\ AdminsGroup \in Groups
  /\ CallbackGroups \subseteq Groups /\ Star \in Perms
  /\ TribeOf \in [Players -> Tribes \cup {NoEntry}]
  /\ Secs \subseteq Nat /\ DelaySecs \subseteq Nat
  /\ NoEntry \notin Key \cup Row \cup GroupRow
  /\ \A G \in SUBSET Groups : G # NoEntry

(***************************************************************************)
(* The row the INSERT of AddPlayer or AddTribe stores and caches.          *)
(***************************************************************************)
NewRow(s) == [groups |-> IF s \in Players THEN {DefaultGroup} ELSE {}, timed |-> {}]

(***************************************************************************)
(* The entry operator[] of the cache returns: an empty one if s is absent. *)
(***************************************************************************)
Entered(c, s) == IF c[s] = NoEntry THEN [groups |-> {}, timed |-> {}] ELSE c[s]

InForce(tg, now) ==
  /\ ~(tg.delay > 0 /\ now < tg.delay)
  /\ tg.expire > 0
  /\ now < tg.expire

getGroups(entry, now) ==
  {DefaultGroup} \cup entry.groups
                 \cup {tg.name : tg \in {x \in entry.timed : InForce(x, now)}}

(***************************************************************************)
(* The groups a command sees a subject in: its own, for an online player   *)
(* those of its tribe, and for any player those the callbacks report.  (The *)
(* pseudo-groups "TribeSize:n" and "TribeOnline:n" are in no table.)       *)
(***************************************************************************)
StoredGroups(c, s, now) == IF c[s] = NoEntry THEN {} ELSE getGroups(c[s], now)

GetPlayerGroups(c, p, online, reported, now) ==
  StoredGroups(c, p, now)
    \cup (IF p \in online /\ TribeOf[p] # NoEntry
            THEN StoredGroups(c, TribeOf[p], now) ELSE {})
    \cup reported

InGroup(c, s, g, online, reported, now) ==
  IF s \in Players THEN g \in GetPlayerGroups(c, s, online, reported, now)
                   ELSE g \in StoredGroups(c, s, now)

OtherTimed(timed, g) == {tg \in timed : tg.name # g}

NewTimedGroupEarly(g, now, secs, delaySecs) ==  \* mutation: counts back from now
  [name |-> g, delay |-> IF delaySecs > 0 THEN now + delaySecs ELSE 0,
   expire |-> now - secs]

NewTimedGroup(g, now, secs, delaySecs) ==
  [name |-> g, delay |-> IF delaySecs > 0 THEN now + delaySecs ELSE 0,
   expire |-> now + secs]

(***************************************************************************)
(* TimedGroups.RemoveAt(groupIndex) on the cached list `live`, where the   *)
(* index is the place of group g in the earlier copy `copied`.  While the  *)
(* list is still the copied one this removes g.  If it was reloaded in     *)
(* between the index points at another entry or past the end; past the end *)
(* the call is undefined (it moves memory by a negative count), and the    *)
(* process dies: see Crash of the modules that use this.                   *)
(***************************************************************************)
RemovedAt(live, copied, g) ==
  IF live = copied THEN {OtherTimed(live, g)} ELSE {live \ {tg} : tg \in live}
=============================================================================
