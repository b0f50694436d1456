------------------------------ MODULE Plugins ------------------------------
(***************************************************************************)
(* The plugins that keep to themselves, in one module: each behaviour is   *)
(* one of a single plugin, and the others stay as they began.  The plugins *)
(* share no state; "faults" alone is counted by three of them.             *)
(***************************************************************************)
EXTENDS StructuresLimit, Sequences

CONSTANTS
  Players, NoTask, Interval, Messages, NoMessage, Faults, MaxFaults,
  Names, File, MaxReloads, MaxChanges, MaxTasks

(* Rewards come after a positive number of units of time, and no time is NoTask. *)
ASSUME RewardsAssumption == Interval \in Nat \ {0} /\ NoTask \notin Int

(* Players, tribes and messages are things of their own. *)
ASSUME MotdAssumption ==
  /\ Players \cap Tribes = {} /\ NoTribe \notin Tribes \cup Players
  /\ NoMessage \notin Messages

(* What config.json names are zones. *)
ASSUME ZonesAssumption == File \in Seq(Names)

VARIABLES
  plugin,
  table, allowed, added, unsaved,
  connections, known, online, since,
  motd, member, told, missed,
  file, config, zones, listed, started, reloads, changes, ever, owed,
  tasks, capacity, bodies, waiting,
  faults

NC == INSTANCE NoCollision WITH Builders <- Players
TR == INSTANCE TimedRewards
TM == INSTANCE TribeMotd
SZ == INSTANCE SafeZones
DT == INSTANCE DelayedTasks WITH Spawners <- Players

only == <<vars, NC!vars, TR!vars, TM!vars, SZ!vars, DT!vars, plugin>>

PluginsInit ==
  /\ plugin \in {"StructuresLimit", "NoCollision", "TimedRewards", "TribeMotd",
                  "SafeZone", "SafeZone's timer"}
  /\ Init /\ NC!Init /\ TR!Init /\ TM!Init /\ SZ!Init /\ DT!Init
  /\ plugin # "TimedRewards" => known = {}
  /\ plugin # "TribeMotd" => member = [p \in Players |-> NoTribe]

nc == <<table, allowed, added, unsaved>>
tr == <<connections, known, online, since>>
tm == <<motd, member, told, missed>>
sz == <<file, config, zones, listed, started, reloads, changes, ever, owed>>
dt == <<tasks, capacity, bodies, waiting>>

Alone(A, which) == plugin = which /\ A /\ UNCHANGED plugin
OfStructures(A) == Alone(A, "StructuresLimit") /\ UNCHANGED <<nc, tr, tm, sz, dt, faults>>
OfCollision(A) == Alone(A, "NoCollision") /\ UNCHANGED <<vars, tr, tm, sz, dt>>
OfRewards(A) == Alone(A, "TimedRewards") /\ UNCHANGED <<vars, nc, tm, sz, dt>>
OfMotd(A) == Alone(A, "TribeMotd") /\ UNCHANGED <<vars, nc, tr, sz, dt>>
OfZones(A) == Alone(A, "SafeZone") /\ UNCHANGED <<vars, nc, tr, tm, dt, faults>>
OfTasks(A) == Alone(A, "SafeZone's timer") /\ UNCHANGED <<vars, nc, tr, tm, sz, faults>>

PluginsNext ==
  \/ OfStructures(Next) \/ OfCollision(NC!Next) \/ OfRewards(TR!Next) \/ OfMotd(TM!Next)
  \/ OfZones(SZ!Next) \/ OfTasks(DT!Next)

PluginsSpec == PluginsInit /\ [][PluginsNext]_only

(* The timers of StructuresLimit, TimedRewards and SafeZone run again and again. *)
PluginsFairness ==
  /\ WF_only(OfStructures(Update))
  /\ WF_only(OfRewards(TR!Tick)) /\ WF_only(OfRewards(TR!RewardTimer))
  /\ WF_only(OfTasks(DT!Update)) /\ WF_only(OfTasks(DT!Second))

FairPlugins == PluginsSpec /\ PluginsFairness

-----------------------------------------------------------------------------
(* NoCollision: a builder that was told it is added may build after any number
   of restarts (NoCollision.cpp). *)
AddedStays == NC!AddedStays

(* ArkShop: rewards go to players that are connected and have an account; two
   of a player are an interval apart; who stays connected is rewarded again
   and again (TimedRewards.cpp). *)
OnlineOnly == TR!OnlineOnly
Spaced == TR!Spaced
OnlineEarns == TR!OnlineEarns

(* TribeMotd: a confirmed message is the tribe's only row, and a player sees
   what was last set for it or its tribe (TribeMotd.cpp). *)
ChangedIsKept == TM!ChangedIsKept
SeesWhatWasSet == TM!SeesWhatWasSet

(* SafeZone: the zones that should stand do, and none is left over from a
   reload for ever (SafeZoneManager.cpp); a player to be moved is moved in the
   end (SzTools.h). *)
ZonesStand == SZ!ZonesStand
LeftoversFade == SZ!LeftoversFade
MovedInTheEnd == DT!MovedInTheEnd
=============================================================================
