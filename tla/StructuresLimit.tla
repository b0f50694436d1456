-------------------------- MODULE StructuresLimit --------------------------
(***************************************************************************)
(* The plugin StructuresLimit: how many structures a tribe may place, in   *)
(* all and of the types config.json limits.  Placements are counted before *)
(* the game decides on them, destructions are not counted at all (the Die  *)
(* hook is commented out); a timer recounts the world.                     *)
(***************************************************************************)
EXTENDS Integers, FiniteSets

CONSTANTS
  Structures,   \* the structures that may ever stand
  Tribes, NoTribe,
  Types,        \* the blueprints in config["Structures"]
  TypeOf,       \* of each structure; types that are not in Types are not limited
  Limit,        \* "Count" of each type
  MaxAmount     \* the limit in all

ASSUME LimitsAssumption ==
  /\ IsFiniteSet(Structures) /\ DOMAIN TypeOf = Structures
  /\ Limit \in [Types -> Nat] /\ MaxAmount \in Nat
  /\ NoTribe \notin Tribes

VARIABLES
  world,             \* the tribe of each structure that stands
  structures_count,  \* of each tribe, in all
  all_structures     \* of each limited type and tribe

vars == <<world, structures_count, all_structures>>

Of(t) == {s \in Structures : world[s] = t}
OfType(ty, t) == {s \in Of(t) : TypeOf[s] = ty}

(* InitGame on an empty map, or on one whose structures were counted. *)
Init ==
  /\ world = [s \in Structures |-> NoTribe]
  /\ structures_count = [t \in Tribes |-> 0]
  /\ all_structures = [ty \in Types |-> [t \in Tribes |-> 0]]

(* The limits leave room for one more. *)
RoomBug(s, t) == structures_count[t] < MaxAmount  \* mutation: the type's limit is not looked at
Room(s, t) ==
  /\ structures_count[t] < MaxAmount
  /\ TypeOf[s] \in Types => all_structures[TypeOf[s]][t] < Limit[TypeOf[s]]

CountBug(s, t) ==  \* mutation: a type that is not limited is not counted at all
  IF TypeOf[s] \in Types
  THEN /\ structures_count' = [structures_count EXCEPT ![t] = @ + 1]
       /\ all_structures' = [all_structures EXCEPT ![TypeOf[s]][t] = @ + 1]
  ELSE UNCHANGED <<structures_count, all_structures>>
Count(s, t) ==
  /\ structures_count' = [structures_count EXCEPT ![t] = @ + 1]
  /\ all_structures' = IF TypeOf[s] \in Types
                       THEN [all_structures EXCEPT ![TypeOf[s]][t] = @ + 1]
                       ELSE all_structures

(* The IsAllowedToBuild hook of a final placement by a player, within the limits:
   it is counted, and then the game places the structure or refuses it.  A
   placement beyond a limit changes nothing.  Without a controller (PC ==
   nullptr) a placement is neither limited nor counted; there are none here. *)
Place(s, t) ==
  /\ world[s] = NoTribe /\ Room(s, t)
  /\ Count(s, t)
  /\ \/ world' = [world EXCEPT ![s] = t]
     \/ UNCHANGED world

(* A structure is destroyed; nothing is counted. *)
Destroy(s) ==
  /\ world[s] # NoTribe
  /\ world' = [world EXCEPT ![s] = NoTribe]
  /\ UNCHANGED <<structures_count, all_structures>>

(* UpdateStructuresCount, from the timer. *)
UpdateBug ==  \* mutation: the counters are not cleared first
  /\ structures_count' = [t \in Tribes |-> structures_count[t] + Cardinality(Of(t))]
  /\ all_structures' = [ty \in Types |-> [t \in Tribes |-> all_structures[ty][t] + Cardinality(OfType(ty, t))]]
  /\ UNCHANGED world
Update ==
  /\ structures_count' = [t \in Tribes |-> Cardinality(Of(t))]
  /\ all_structures' = [ty \in Types |-> [t \in Tribes |-> Cardinality(OfType(ty, t))]]
  /\ UNCHANGED world

Next ==
  \/ \E s \in Structures, t \in Tribes : Place(s, t)
  \/ \E s \in Structures : Destroy(s)
  \/ Update

Spec == Init /\ [][Next]_vars

(* The timer callback runs again and again. *)
FairSpec == Spec /\ WF_vars(Update)
---------------------------------------------------------------------------
TypeOK ==
  /\ world \in [Structures -> Tribes \cup {NoTribe}]
  /\ structures_count \in [Tribes -> Nat]
  /\ all_structures \in [Types -> [Tribes -> Nat]]

(* The counters never fall short of what stands, although placements are
   counted in a hook and destructions by the timer only. *)
CountsCover ==
  \A t \in Tribes :
    /\ Cardinality(Of(t)) <= structures_count[t]
    /\ \A ty \in Types : Cardinality(OfType(ty, t)) <= all_structures[ty][t]

(* No tribe has more structures than its limits, whatever was placed, refused
   by the game or destroyed between two counts. *)
WithinLimit ==
  \A t \in Tribes :
    /\ Cardinality(Of(t)) <= MaxAmount
    /\ \A ty \in Types : Cardinality(OfType(ty, t)) <= Limit[ty]

(* A structure within the limits is not refused for ever because of
   structures that are gone or were never placed: the next count lets it in,
   unless others have been placed by then. *)
WithinMayBuild(s, t) ==
  /\ Cardinality(Of(t)) < MaxAmount
  /\ TypeOf[s] \in Types => Cardinality(OfType(TypeOf[s], t)) < Limit[TypeOf[s]]
NotRefusedForEver ==
  \A s \in Structures, t \in Tribes : []<>(WithinMayBuild(s, t) => Room(s, t))
=============================================================================
