----------------------- MODULE StructuresLimit_proofs -----------------------
(***************************************************************************)
(* What StructuresLimit promises, for any structures, tribes and limits.   *)
(* WithinLimit alone is not inductive: a placement is let in by counters,  *)
(* and these cover what stands, which is CountsCover.                      *)
(***************************************************************************)
EXTENDS StructuresLimit, FiniteSetTheorems, TLAPS

(* The structures of a tribe are finitely many, of a type no more than in all. *)
LEMMA OfFinite ==
  ASSUME NEW t
  PROVE  /\ IsFiniteSet(Of(t)) /\ Cardinality(Of(t)) \in Nat
         /\ \A ty : IsFiniteSet(OfType(ty, t)) /\ Cardinality(OfType(ty, t)) \in Nat
<1>1. Of(t) \subseteq Structures /\ \A ty : OfType(ty, t) \subseteq Structures
  BY DEF Of, OfType
<1>2. IsFiniteSet(Structures)
  BY LimitsAssumption
<1>3. QED
  BY <1>1, <1>2, FS_Subset, FS_CardinalityType

(* Initial states satisfy the type invariant. *)
LEMMA InitTypeOK == Init => TypeOK
BY DEF Init, TypeOK

(* Every step preserves the type invariant. *)
LEMMA NextTypeOK == TypeOK /\ [Next]_vars => TypeOK'
<1> SUFFICES ASSUME TypeOK, [Next]_vars PROVE TypeOK'
  OBVIOUS
<1> USE DEF TypeOK
<1>1. ASSUME NEW s \in Structures, NEW t \in Tribes, Place(s, t)
      PROVE  TypeOK'
  <2>1. world' \in [Structures -> Tribes \cup {NoTribe}]
    BY <1>1 DEF Place
  <2>2. structures_count' \in [Tribes -> Nat]
    BY <1>1 DEF Place, Count
  <2>3. all_structures' \in [Types -> [Tribes -> Nat]]
    BY <1>1 DEF Place, Count
  <2>4. QED
    BY <2>1, <2>2, <2>3
<1>2. ASSUME NEW s \in Structures, Destroy(s)
      PROVE  TypeOK'
  BY <1>2 DEF Destroy
<1>3. CASE Update
  <2>1. \A t \in Tribes : Cardinality(Of(t)) \in Nat
    BY OfFinite
  <2>2. \A ty \in Types, t \in Tribes : Cardinality(OfType(ty, t)) \in Nat
    BY OfFinite
  <2>3. QED
    BY <1>3, <2>1, <2>2 DEF Update
<1>4. CASE UNCHANGED vars
  BY <1>4 DEF vars
<1>5. QED
  BY <1>1, <1>2, <1>3, <1>4 DEF Next

(* A placement that the game carries out adds one structure to its tribe, and
   to its type there, and nothing to the others. *)
LEMMA Placed ==
  ASSUME TypeOK, NEW s \in Structures, NEW t \in Tribes,
         world[s] = NoTribe, world' = [world EXCEPT ![s] = t]
  PROVE  /\ Cardinality(Of(t)') = Cardinality(Of(t)) + 1
         /\ \A u \in Tribes : u # t => Of(u)' = Of(u)
         /\ \A ty \in Types :
              /\ \A u \in Tribes : u # t => OfType(ty, u)' = OfType(ty, u)
              /\ ty = TypeOf[s] => Cardinality(OfType(ty, t)') = Cardinality(OfType(ty, t)) + 1
              /\ ty # TypeOf[s] => OfType(ty, t)' = OfType(ty, t)
<1>1. t # NoTribe /\ s \notin Of(t)
  BY LimitsAssumption DEF Of
<1>2. Of(t)' = Of(t) \cup {s}
  BY DEF Of, TypeOK
<1>3. Cardinality(Of(t) \cup {s}) = Cardinality(Of(t)) + 1
  BY <1>1, OfFinite, FS_AddElement
<1>4. \A u \in Tribes : u # t => Of(u)' = Of(u)
  BY LimitsAssumption DEF Of, TypeOK
<1>5. ASSUME NEW ty \in Types
      PROVE  /\ \A u \in Tribes : u # t => OfType(ty, u)' = OfType(ty, u)
             /\ ty = TypeOf[s] => Cardinality(OfType(ty, t)') = Cardinality(OfType(ty, t)) + 1
             /\ ty # TypeOf[s] => OfType(ty, t)' = OfType(ty, t)
  <2>1. \A u \in Tribes : u # t => OfType(ty, u)' = OfType(ty, u)
    BY <1>4 DEF OfType
  <2>2. ASSUME ty = TypeOf[s]
        PROVE  Cardinality(OfType(ty, t)') = Cardinality(OfType(ty, t)) + 1
    <3>1. OfType(ty, t)' = OfType(ty, t) \cup {s}
      BY <1>2, <2>2 DEF OfType
    <3>2. s \notin OfType(ty, t)
      BY <1>1 DEF OfType
    <3>3. QED
      BY <3>1, <3>2, OfFinite, FS_AddElement
  <2>3. ASSUME ty # TypeOf[s]
        PROVE  OfType(ty, t)' = OfType(ty, t)
    BY <1>2, <2>3 DEF OfType
  <2>4. QED
    BY <2>1, <2>2, <2>3
<1>6. QED
  BY <1>2, <1>3, <1>4, <1>5

(* A structure that is destroyed adds nothing to any tribe. *)
LEMMA Destroyed ==
  ASSUME TypeOK, NEW s \in Structures, Destroy(s)
  PROVE  \A t \in Tribes :
           /\ Cardinality(Of(t)') \in Nat /\ Cardinality(Of(t)') <= Cardinality(Of(t))
           /\ \A ty \in Types : /\ Cardinality(OfType(ty, t)') \in Nat
                               /\ Cardinality(OfType(ty, t)') <= Cardinality(OfType(ty, t))
<1>1. TAKE t \in Tribes
<1>2. Of(t)' \subseteq Of(t)
  BY LimitsAssumption DEF Of, Destroy, TypeOK
<1>3. \A ty \in Types : OfType(ty, t)' \subseteq OfType(ty, t)
  BY <1>2 DEF OfType
<1>4. QED
  BY <1>2, <1>3, OfFinite, FS_Subset, FS_CardinalityType

(* Initially nothing stands and nothing is counted. *)
LEMMA InitInv == Init => CountsCover /\ WithinLimit
<1> SUFFICES ASSUME Init PROVE CountsCover /\ WithinLimit
  OBVIOUS
<1>1. ASSUME NEW t \in Tribes
      PROVE  Cardinality(Of(t)) = 0 /\ \A ty \in Types : Cardinality(OfType(ty, t)) = 0
  <2>1. Of(t) = {} /\ \A ty \in Types : OfType(ty, t) = {}
    BY LimitsAssumption DEF Init, Of, OfType
  <2>2. QED
    BY <2>1, FS_EmptySet
<1>2. QED
  BY <1>1, LimitsAssumption DEF Init, CountsCover, WithinLimit

(* Every step keeps the counters at or above what stands. *)
LEMMA NextCovers == TypeOK /\ CountsCover /\ [Next]_vars => CountsCover'
<1> DEFINE All(u) == Cardinality(Of(u)) <= structures_count[u]
           Typed(u, ty) == Cardinality(OfType(ty, u)) <= all_structures[ty][u]
<1> SUFFICES ASSUME TypeOK, CountsCover, [Next]_vars, NEW u \in Tribes
             PROVE  All(u)' /\ \A ty \in Types : Typed(u, ty)'
  BY DEF CountsCover
<1>1. ASSUME NEW s \in Structures, NEW t \in Tribes, Place(s, t)
      PROVE  All(u)' /\ \A ty \in Types : Typed(u, ty)'
  <2>1. world' = world \/ (world[s] = NoTribe /\ world' = [world EXCEPT ![s] = t])
    BY <1>1 DEF Place
  <2>2. All(u)'
    <3>1. structures_count'[u] = IF u = t THEN structures_count[u] + 1 ELSE structures_count[u]
      BY <1>1 DEF Place, Count, TypeOK
    <3>2. \/ Cardinality(Of(u)') = Cardinality(Of(u))
          \/ u = t /\ Cardinality(Of(u)') = Cardinality(Of(u)) + 1
      <4>1. CASE world' = world
        BY <4>1 DEF Of
      <4>2. CASE world[s] = NoTribe /\ world' = [world EXCEPT ![s] = t]
        BY <4>2, Placed
      <4>3. QED
        BY <2>1, <4>1, <4>2
    <3>3. Cardinality(Of(u)) \in Nat /\ structures_count[u] \in Nat /\ All(u)
      BY OfFinite DEF TypeOK, CountsCover
    <3>4. QED
      BY <3>1, <3>2, <3>3
  <2>3. ASSUME NEW ty \in Types
        PROVE  Typed(u, ty)'
    <3>1. all_structures'[ty][u] = IF u = t /\ ty = TypeOf[s] THEN all_structures[ty][u] + 1
                                   ELSE all_structures[ty][u]
      BY <1>1 DEF Place, Count, TypeOK
    <3>2. \/ Cardinality(OfType(ty, u)') = Cardinality(OfType(ty, u))
          \/ /\ u = t /\ ty = TypeOf[s]
             /\ Cardinality(OfType(ty, u)') = Cardinality(OfType(ty, u)) + 1
      <4>1. CASE world' = world
        BY <4>1 DEF Of, OfType
      <4>2. CASE world[s] = NoTribe /\ world' = [world EXCEPT ![s] = t]
        BY <4>2, Placed
      <4>3. QED
        BY <2>1, <4>1, <4>2
    <3>3. Cardinality(OfType(ty, u)) \in Nat /\ all_structures[ty][u] \in Nat /\ Typed(u, ty)
      BY OfFinite DEF TypeOK, CountsCover
    <3>4. QED
      BY <3>1, <3>2, <3>3
  <2>4. QED
    BY <2>2, <2>3
<1>2. ASSUME NEW s \in Structures, Destroy(s)
      PROVE  All(u)' /\ \A ty \in Types : Typed(u, ty)'
  <2>1. structures_count' = structures_count /\ all_structures' = all_structures
    BY <1>2 DEF Destroy
  <2>2. All(u)'
    <3>1. Cardinality(Of(u)) \in Nat /\ structures_count[u] \in Nat /\ All(u)
      BY OfFinite DEF TypeOK, CountsCover
    <3>2. Cardinality(Of(u)') \in Nat /\ Cardinality(Of(u)') <= Cardinality(Of(u))
      BY <1>2, Destroyed
    <3>3. QED
      BY <2>1, <3>1, <3>2
  <2>3. ASSUME NEW ty \in Types
        PROVE  Typed(u, ty)'
    <3>1. Cardinality(OfType(ty, u)) \in Nat /\ all_structures[ty][u] \in Nat /\ Typed(u, ty)
      BY OfFinite DEF TypeOK, CountsCover
    <3>2. Cardinality(OfType(ty, u)') \in Nat /\ Cardinality(OfType(ty, u)') <= Cardinality(OfType(ty, u))
      BY <1>2, Destroyed
    <3>3. QED
      BY <2>1, <3>1, <3>2
  <2>4. QED
    BY <2>2, <2>3
<1>3. CASE Update
  <2>1. Of(u)' = Of(u) /\ \A ty \in Types : OfType(ty, u)' = OfType(ty, u)
    BY <1>3 DEF Update, Of, OfType
  <2>2. /\ structures_count'[u] = Cardinality(Of(u))
        /\ \A ty \in Types : all_structures'[ty][u] = Cardinality(OfType(ty, u))
    BY <1>3 DEF Update
  <2>3. Cardinality(Of(u)) \in Nat /\ \A ty \in Types : Cardinality(OfType(ty, u)) \in Nat
    BY OfFinite
  <2>4. QED
    BY <2>1, <2>2, <2>3
<1>4. CASE UNCHANGED vars
  BY <1>4 DEF vars, CountsCover, Of, OfType
<1>5. QED
  BY <1>1, <1>2, <1>3, <1>4 DEF Next

(* Every step stays within the limits: the counters let a structure in only
   where there is room, and they cover what stands. *)
LEMMA NextWithin == TypeOK /\ CountsCover /\ WithinLimit /\ [Next]_vars => WithinLimit'
<1> DEFINE All(u) == Cardinality(Of(u)) <= MaxAmount
           Typed(u, ty) == Cardinality(OfType(ty, u)) <= Limit[ty]
<1> SUFFICES ASSUME TypeOK, CountsCover, WithinLimit, [Next]_vars, NEW u \in Tribes
             PROVE  All(u)' /\ \A ty \in Types : Typed(u, ty)'
  BY DEF WithinLimit
<1>1. ASSUME NEW s \in Structures, NEW t \in Tribes, Place(s, t), world' # world
      PROVE  All(u)' /\ \A ty \in Types : Typed(u, ty)'
  <2>1. Room(s, t) /\ world[s] = NoTribe /\ world' = [world EXCEPT ![s] = t]
    BY <1>1 DEF Place
  <2>2. All(u)'
    <3>1. \/ Cardinality(Of(u)') = Cardinality(Of(u))
          \/ Cardinality(Of(u)') = Cardinality(Of(u)) + 1 /\ structures_count[u] < MaxAmount
      BY <2>1, Placed DEF Room
    <3>2. /\ Cardinality(Of(u)) \in Nat /\ structures_count[u] \in Nat /\ MaxAmount \in Nat
          /\ All(u) /\ Cardinality(Of(u)) <= structures_count[u]
      BY OfFinite, LimitsAssumption DEF TypeOK, CountsCover, WithinLimit
    <3>3. QED
      BY <3>1, <3>2
  <2>3. ASSUME NEW ty \in Types
        PROVE  Typed(u, ty)'
    <3>1. \/ Cardinality(OfType(ty, u)') = Cardinality(OfType(ty, u))
          \/ /\ Cardinality(OfType(ty, u)') = Cardinality(OfType(ty, u)) + 1
             /\ all_structures[ty][u] < Limit[ty]
      BY <2>1, Placed DEF Room
    <3>2. /\ Cardinality(OfType(ty, u)) \in Nat /\ all_structures[ty][u] \in Nat /\ Limit[ty] \in Nat
          /\ Typed(u, ty) /\ Cardinality(OfType(ty, u)) <= all_structures[ty][u]
      BY OfFinite, LimitsAssumption DEF TypeOK, CountsCover, WithinLimit
    <3>3. QED
      BY <3>1, <3>2
  <2>4. QED
    BY <2>2, <2>3
<1>2. ASSUME NEW s \in Structures, Destroy(s)
      PROVE  All(u)' /\ \A ty \in Types : Typed(u, ty)'
  <2>1. All(u)'
    <3>1. Cardinality(Of(u)) \in Nat /\ MaxAmount \in Nat /\ All(u)
      BY OfFinite, LimitsAssumption DEF WithinLimit
    <3>2. Cardinality(Of(u)') \in Nat /\ Cardinality(Of(u)') <= Cardinality(Of(u))
      BY <1>2, Destroyed
    <3>3. QED
      BY <3>1, <3>2
  <2>2. ASSUME NEW ty \in Types
        PROVE  Typed(u, ty)'
    <3>1. Cardinality(OfType(ty, u)) \in Nat /\ Limit[ty] \in Nat /\ Typed(u, ty)
      BY OfFinite, LimitsAssumption DEF WithinLimit
    <3>2. Cardinality(OfType(ty, u)') \in Nat /\ Cardinality(OfType(ty, u)') <= Cardinality(OfType(ty, u))
      BY <1>2, Destroyed
    <3>3. QED
      BY <3>1, <3>2
  <2>3. QED
    BY <2>1, <2>2
<1>3. CASE UNCHANGED world
  BY <1>3 DEF WithinLimit, Of, OfType
<1>4. QED
  BY <1>1, <1>2, <1>3 DEF Next, Update, vars

(* What the placement hook and the recount leave in the counters and the world
   is well-formed, for any structures, tribes and limits. *)
THEOREM TypeCorrect == Spec => []TypeOK
<1>1. Init => TypeOK
  BY InitTypeOK
<1>2. TypeOK /\ [Next]_vars => TypeOK'
  BY NextTypeOK
<1>3. QED
  BY <1>1, <1>2, PTL DEF Spec

(* The counters never fall short of what stands (IsAllowedToBuild counts before
   the game decides, Die counts nothing, UpdateStructuresCount recounts). *)
THEOREM Covered == Spec => []CountsCover
<1>1. Init => TypeOK /\ CountsCover
  BY InitTypeOK, InitInv
<1>2. TypeOK /\ CountsCover /\ [Next]_vars => (TypeOK /\ CountsCover)'
  BY NextTypeOK, NextCovers
<1>3. QED
  BY <1>1, <1>2, PTL DEF Spec

(* No tribe ever has more structures than its limits allow, in all and of each
   limited type. *)
THEOREM Limited == Spec => []WithinLimit
<1>1. Init => TypeOK /\ CountsCover /\ WithinLimit
  BY InitTypeOK, InitInv
<1>2. TypeOK /\ CountsCover /\ WithinLimit /\ [Next]_vars => (TypeOK /\ CountsCover /\ WithinLimit)'
  BY NextTypeOK, NextCovers, NextWithin
<1>3. QED
  BY <1>1, <1>2, PTL DEF Spec
=============================================================================
