----------------------------- MODULE SafeZones -----------------------------
(***************************************************************************)
(* The zones of the plugin SafeZone: those its config.json names and those *)
(* other plugins make by its interface, in one list, and the array of the  *)
(* names that came from the file, by which a reload finds what to replace. *)
(* Everything runs on the game thread, each call to its end.               *)
(***************************************************************************)
EXTENDS Naturals, SequencesExt

CONSTANTS
  Names,       \* the names zones may have
  File,        \* the names in config.json when the server starts
  MaxReloads,  \* bound of the number of reloads between two starts
  MaxChanges   \* bound of the number of other changes

VARIABLES
  file,     \* the names in config.json, in its order, of the entries for this map
  config,   \* those in the config in memory
  zones,    \* all_safezones_: a zone has a "live" or a "dead" trigger sphere
  listed,   \* default_safezones_
  started,  \* the delayed task that loads the zones at the start has run
  reloads,  \* how many reloads there were
  changes,  \* how many other changes there were
  ever,     \* history: the names a load has ever found in the config
  owed      \* history: the names of zones that were made and should stand

vars == <<file, config, zones, listed, started, reloads, changes, ever, owed>>

ZoneNames == {n \in Names : zones[n] # "none"}

Init ==
  /\ file = File /\ config = File
  /\ zones = [n \in Names |-> "none"] /\ listed = <<>>
  /\ started = FALSE /\ reloads = 0 /\ changes = 0
  /\ ever = {} /\ owed = {}

(* The server is started again: nothing but the file is left. *)
Restart ==
  /\ config' = file
  /\ zones' = [n \in Names |-> "none"] /\ listed' = <<>>
  /\ started' = FALSE /\ reloads' = 0
  /\ ever' = {} /\ owed' = {}
  /\ UNCHANGED <<file, changes>>

(* Only a name that has a zone is taken off the array, one entry of it. *)
RemoveSafeZone(s, n) ==
  IF s.zones[n] = "none" THEN s
  ELSE [zones |-> [s.zones EXCEPT ![n] = "none"], listed |-> RemoveFirst(s.listed, n)]

(* A visit of the loop over the array: beyond its end lie the slots that have
   been given up, which hold one of the names it had, or none that a zone has. *)
VisitBug(s, i, stale) ==  \* mutation: the loop begins at the second slot
  IF i < Len(s.listed) THEN RemoveSafeZone(s, s.listed[i + 1])
  ELSE IF i \in DOMAIN stale THEN RemoveSafeZone(s, stale[i]) ELSE s
Visit(s, i, stale) ==
  IF i <= Len(s.listed) THEN RemoveSafeZone(s, s.listed[i])
  ELSE IF i \in DOMAIN stale THEN RemoveSafeZone(s, stale[i]) ELSE s

(* RemoveSafeZone shortens the array under the loop, which makes as many visits
   as it had names: the visit after a removal misses the name that moved into
   the slot. *)
Visited(stale) ==
  LET after[i \in 0..Len(listed)] ==
        IF i = 0 THEN [zones |-> zones, listed |-> listed]
        ELSE Visit(after[i - 1], i, stale)
  IN  after

(* The names in slots that have been given up: the first half of the visits,
   before each of which at most as many names are gone, finds none; and a name
   that is read again has no zone any more. *)
Stale ==
  LET slots == {i \in 1..Len(listed) : 2 * i > Len(listed) + 1} IN
  {f \in UNION {[S -> ToSet(listed)] : S \in SUBSET slots} : IsInjective(f)}

(* ClearAllTriggerSpheres, then ReadSafeZones: every name is added to the
   array, and CreateSafeZone refuses one that has a zone.  It passes over the
   entries whose ForMap is another map: they make no zone here. *)
LoadedBug(s, names) ==  \* mutation: only names the array does not have are made
  [zones |-> [n \in Names |->
     IF s.zones[n] # "none" THEN "dead"
     ELSE IF n \in ToSet(names) \ ToSet(s.listed) THEN "live" ELSE "none"],
   listed |-> s.listed \o names]
Loaded(s, names) ==
  [zones |-> [n \in Names |->
     IF s.zones[n] # "none" THEN "dead" ELSE IF n \in ToSet(names) THEN "live" ELSE "none"],
   listed |-> s.listed \o names]

(* What stands after a load of the names: another plugin's zone is safe from
   reloads as long as its name has never been in the config. *)
Owe(names) ==
  /\ ever' = ever \cup ToSet(names)
  /\ owed' = (owed \ ever') \cup ToSet(names)

(* The task that Init and InitGame put off by a second. *)
Start ==
  /\ ~started /\ started' = TRUE
  /\ LET s == Loaded([zones |-> zones, listed |-> listed], config) IN
     zones' = s.zones /\ listed' = s.listed
  /\ Owe(config)
  /\ UNCHANGED <<file, config, reloads, changes>>

SZReloadConfig ==
  /\ reloads < MaxReloads /\ reloads' = reloads + 1
  /\ config' = file
  /\ \E stale \in Stale :
       LET s == Loaded(Visited(stale)[Len(listed)], file) IN
       zones' = s.zones /\ listed' = s.listed
  /\ Owe(file)
  /\ UNCHANGED <<file, started, changes>>

Change == changes < MaxChanges /\ changes' = changes + 1

(* SZCreateZone writes the config in memory, with the new zone, over the file. *)
SZCreateZone(n) ==
  /\ Change
  /\ config' = Append(config, n) /\ file' = config'
  /\ UNCHANGED <<zones, listed, started, reloads, ever, owed>>

(* The administrator takes a zone out of the file. *)
Edit(n) ==
  /\ Change /\ n \in ToSet(file)
  /\ file' = RemoveFirst(file, n)
  /\ UNCHANGED <<config, zones, listed, started, reloads, ever, owed>>

(* CreateSafeZone and RemoveSafeZone called by another plugin. *)
OtherCreates(n) ==
  /\ Change /\ zones[n] = "none"
  /\ zones' = [zones EXCEPT ![n] = "live"]
  /\ owed' = owed \cup {n}
  /\ UNCHANGED <<file, config, listed, started, reloads, ever>>
OtherRemoves(n) ==
  /\ Change /\ zones[n] # "none"
  /\ LET s == RemoveSafeZone([zones |-> zones, listed |-> listed], n) IN
     zones' = s.zones /\ listed' = s.listed
  /\ owed' = owed \ {n}
  /\ UNCHANGED <<file, config, started, reloads, ever>>

Next ==
  \/ Restart \/ Start \/ SZReloadConfig
  \/ \E n \in Names : SZCreateZone(n) \/ Edit(n) \/ OtherCreates(n) \/ OtherRemoves(n)

Spec == Init /\ [][Next]_vars
---------------------------------------------------------------------------
(* The zones of the file stand after every load, however the reload before
   it went through the array, until another plugin removes them; and the
   zones other plugins made outlive the reloads, unless the file has ever
   claimed the name. *)
ZonesStand == owed \subseteq ZoneNames

Place(n) == CHOOSE i \in 1..Len(listed) : listed[i] = n /\ \A j \in 1..(i - 1) : listed[j] # n

(* A reload may leave a zone of the file as it was, with its old settings and
   a sphere that is gone, or leave it standing though the file has it no more;
   but such a zone comes nearer to the front of the array with every reload,
   so that none is left over for ever. *)
LeftoversFade ==
  [][reloads' > reloads =>
       \A n \in ToSet(listed) :
         zones'[n] = "dead" => n \in ToSet(listed') /\ Place(n)' < Place(n)]_vars
=============================================================================
