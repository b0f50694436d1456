----------------------- MODULE TeleportTimers_proofs -----------------------
(***************************************************************************)
(* What the delayed teleports of ArkHomes promise for any players, dinos   *)
(* and number of requests.  The argument has three parts.  The number in   *)
(* Timer::threads is that of the last timer of its player, which has not   *)
(* run its task yet, races or not.  Until a race one thread at most is at  *)
(* a player, and no list changes between a find and its erase, so that     *)
(* every step concerns one player alone.  What a player is promised is     *)
(* then kept step by step through the command, the hook or the task that   *)
(* is at it.                                                               *)
(***************************************************************************)
EXTENDS TeleportTimers, SequenceTheorems, FiniteSetTheorems, TLAPS

Labels == {"asleep", "awake", "claimed", "found", "off", "arrived", "freed", "paid", "over"}
GameLabels == {"idle", "admitted", "started", "enlisted", "bound", "hit", "off", "struck",
               "freed", "dying", "fallen"}
Indexes == 0..MaxRequests
TimerType == [player : Players, kind : Kinds, at : Indexes, pc : Labels]
GameType == [pc : GameLabels, player : Players \cup {Nobody}, kind : Kinds \cup {"none"}, at : Indexes]

(* The variables other than the list, the timers and what the game thread is at. *)
Others ==
  /\ threads \in [Players -> Indexes]
  /\ frozen \subseteq Players \cup Dinos
  /\ mount \in [Players -> Dinos \cup {NoDino}]
  /\ alive \subseteq Players
  /\ points \in [Players -> Int]
  /\ interrupted \subseteq Indexes
  /\ left \subseteq Dinos /\ spent \subseteq Players

(* The game thread is at a living player, and a request it has admitted can
   still be made. *)
Turns ==
  /\ game.pc = "idle" => game = Idle
  /\ game.pc # "idle" => game.player \in alive
  /\ game.pc = "admitted" => game.kind \in Kinds /\ Len(timers) < MaxRequests

(* The list holds no more players than requests were made, and makes room for
   the one that is to be listed. *)
Bounds ==
  /\ TypeOK /\ Turns
  /\ Len(listed) + (IF game.pc = "started" THEN 1 ELSE 0) <= Len(timers)
  /\ Len(timers) <= MaxRequests
  /\ diedWith \subseteq Uids

Once(p) == \A i, j \in 1..Len(listed) : listed[i] = p /\ listed[j] = p => i = j

---------------------------------------------------------------------------
(* Sequences of timers. *)

(* The number of timers is a number, and each is a timer of a player. *)
LEMMA Numbered ==
  ASSUME NEW s \in Seq(TimerType)
  PROVE  Len(s) \in Nat /\ \A u \in 1..Len(s) : s[u] \in TimerType /\ s[u].player \in Players
<1>1. Len(s) \in Nat /\ \A u \in 1..Len(s) : s[u] \in TimerType
  OBVIOUS
<1>2. \A t \in TimerType : t.player \in Players
  BY DEF TimerType
<1> QED
  BY <1>1, <1>2

(* The timers s after timer u has gone to label l, and, with a place, i. *)
Goes(r, s, u, l) == r = [s EXCEPT ![u].pc = l]
GoesAt(r, s, u, l, i) == r = [s EXCEPT ![u].pc = l, ![u].at = i]
Starts(r, s, p, kind) ==
  r = Append(s, [player |-> p, kind |-> kind, pc |-> "asleep", at |-> 0])

(* What becomes of the timers in a step that only moves one of them on. *)
LEMMA Going ==
  ASSUME NEW s \in Seq(TimerType), NEW u \in 1..Len(s), NEW l \in Labels,
         NEW r, Goes(r, s, u, l)
  PROVE  /\ r \in Seq(TimerType) /\ Len(r) = Len(s)
         /\ r[u].pc = l /\ r[u].player = s[u].player
         /\ r[u].kind = s[u].kind /\ r[u].at = s[u].at
         /\ \A v \in 1..Len(s) : v # u => r[v] = s[v]
<1> DEFINE t == [s[u] EXCEPT !.pc = l]
<1>1. s[u] \in TimerType
  BY Numbered
<1>2. t \in TimerType /\ t.pc = l /\ t.player = s[u].player
      /\ t.kind = s[u].kind /\ t.at = s[u].at
  BY <1>1 DEF TimerType
<1>3. r = [s EXCEPT ![u] = t]
  BY DEF Goes
<1> HIDE DEF t
<1> QED
  BY <1>2, <1>3, ExceptSeq

(* The same of a step that also changes the place it remembers. *)
LEMMA GoingAt ==
  ASSUME NEW s \in Seq(TimerType), NEW u \in 1..Len(s), NEW l \in Labels, NEW i \in Indexes,
         NEW r, GoesAt(r, s, u, l, i)
  PROVE  /\ r \in Seq(TimerType) /\ Len(r) = Len(s)
         /\ r[u].pc = l /\ r[u].player = s[u].player
         /\ r[u].kind = s[u].kind /\ r[u].at = i
         /\ \A v \in 1..Len(s) : v # u => r[v] = s[v]
<1> DEFINE t == [[s[u] EXCEPT !.pc = l] EXCEPT !.at = i]
<1>1. s[u] \in TimerType
  BY Numbered
<1>2. t \in TimerType /\ t.pc = l /\ t.player = s[u].player
      /\ t.kind = s[u].kind /\ t.at = i
  BY <1>1 DEF TimerType
<1>3. r = [s EXCEPT ![u] = t]
  BY DEF GoesAt
<1> HIDE DEF t
<1> QED
  BY <1>2, <1>3, ExceptSeq

(* What becomes of them when one is added. *)
LEMMA Adding ==
  ASSUME NEW s \in Seq(TimerType), NEW p \in Players, NEW kind \in Kinds,
         0 \in Indexes, NEW r, Starts(r, s, p, kind)
  PROVE  /\ r \in Seq(TimerType) /\ Len(r) = Len(s) + 1
         /\ r[Len(s) + 1].player = p /\ r[Len(s) + 1].pc = "asleep"
         /\ r[Len(s) + 1].kind = kind
         /\ \A v \in 1..Len(s) : r[v] = s[v]
<1> DEFINE t == [player |-> p, kind |-> kind, pc |-> "asleep", at |-> 0]
<1>1. r = Append(s, t)
  BY DEF Starts
<1>2. t \in TimerType /\ t.player = p /\ t.pc = "asleep" /\ t.kind = kind
  BY DEF TimerType, Labels
<1> HIDE DEF t
<1>3. /\ r \in Seq(TimerType) /\ Len(r) = Len(s) + 1
      /\ r[Len(s) + 1] = t /\ \A v \in 1..Len(s) : r[v] = s[v]
  BY <1>1, <1>2, AppendProperties
<1> QED
  BY <1>2, <1>3

---------------------------------------------------------------------------
(* The list of teleporting players. *)

(* A set of places has a first one: the shortest interval that ends in it. *)
LEMMA Least ==
  ASSUME NEW S \in SUBSET Nat, S # {}
  PROVE  Min(S) \in S /\ \A j \in S : Min(S) <= j
<1> DEFINE T == {0..i : i \in S}
<1>1. T # {} /\ T \subseteq FiniteSubsetsOf(Nat)
  <2>1. ASSUME NEW i \in S PROVE IsFiniteSet(0..i) /\ 0..i \in SUBSET Nat
    <3>1. i \in Int /\ 0 \in Int
      OBVIOUS
    <3> QED
      BY <3>1, FS_Interval
  <2> QED
    BY <2>1 DEF FiniteSubsetsOf
<1>2. PICK t \in T : \A y \in T : ~ (<<y, t>> \in StrictSubsetOrdering(Nat))
  <2> HIDE DEF T
  <2> QED
    BY <1>1, FS_StrictSubsetOrderingWellFounded, WFMin
<1>3. PICK x \in S : t = 0..x
  OBVIOUS
<1>4. ASSUME NEW y \in S PROVE x <= y
  <2> SUFFICES ASSUME y < x PROVE FALSE
    OBVIOUS
  <2>1. 0..y \in SUBSET (0..x) /\ x \in 0..x /\ x \notin 0..y
    OBVIOUS
  <2>2. 0..x \in SUBSET Nat /\ 0..y \in SUBSET Nat
    OBVIOUS
  <2>3. <<0..y, 0..x>> \in StrictSubsetOrdering(Nat)
    BY <2>1, <2>2 DEF StrictSubsetOrdering
  <2>4. 0..y \in T
    OBVIOUS
  <2> QED
    BY <1>2, <1>3, <2>3, <2>4
<1> QED
  BY <1>4 DEF Min

(* The places of a list. *)
LEMMA Interval ==
  ASSUME NEW n \in Nat
  PROVE  IsFiniteSet(1..n) /\ Cardinality(1..n) = n
<1>1. 1 \in Int /\ n \in Int /\ (IF 1 > n THEN 0 ELSE n - 1 + 1) = n
  OBVIOUS
<1> QED
  BY <1>1, FS_Interval

(* f says where in s each element of r was: at the places K, each once. *)
Enumerates(f, r, s, K) ==
  /\ \A n \in 1..Len(r) : f[n] \in K /\ r[n] = s[f[n]]
  /\ \A n, m \in 1..Len(r) : f[n] = f[m] => n = m
  /\ \A i \in K : \E n \in 1..Len(r) : f[n] = i

(* What is selected is what was at the places, each once and in some order. *)
LEMMA SelectedPlaces ==
  ASSUME NEW X, NEW s \in Seq(X), NEW K \in SUBSET (1..Len(s)), NEW r, r = Selected(s, K)
  PROVE  /\ r \in Seq(X) /\ Len(r) \in Nat /\ Len(r) <= Len(s)
         /\ \E f : Enumerates(f, r, s, K)
<1> DEFINE below(i) == {j \in K : j <= i}
           rank == [i \in K |-> Cardinality(below(i))]
           c == Cardinality(K)
           f == [n \in 1..c |-> CHOOSE i \in K : Cardinality(below(i)) = n]
<1>1. Len(s) \in Nat /\ (\A i \in 1..Len(s) : s[i] \in X) /\ K \subseteq Nat
  OBVIOUS
<1>2. IsFiniteSet(1..Len(s)) /\ Cardinality(1..Len(s)) = Len(s)
  BY <1>1, Interval
<1>3. IsFiniteSet(K) /\ c \in Nat /\ c <= Len(s)
  BY <1>2, FS_Subset, FS_CardinalityType
<1>4. IsFiniteSet(1..c) /\ Cardinality(1..c) = c
  BY <1>3, Interval
<1>5. ASSUME NEW i \in K
      PROVE  IsFiniteSet(below(i)) /\ Cardinality(below(i)) \in 1..c
  <2>1. below(i) \in SUBSET K /\ i \in below(i)
    OBVIOUS
  <2> HIDE DEF below
  <2>2. IsFiniteSet(below(i)) /\ Cardinality(below(i)) <= c /\ Cardinality(below(i)) \in Nat
    BY <1>3, <2>1, FS_Subset, FS_CardinalityType
  <2>3. Cardinality(below(i)) # 0
    BY <2>1, <2>2, FS_EmptySet
  <2> QED
    BY <1>3, <2>2, <2>3
<1>6. ASSUME NEW i \in K, NEW j \in K, i < j
      PROVE  Cardinality(below(i)) # Cardinality(below(j))
  <2>0. i \in Nat /\ j \in Nat
    BY <1>1
  <2>1. \A x \in below(i) : x \in below(j)
    <3>1. \A x \in K : x \in Nat /\ (x <= i => x <= j)
      BY <1>1, <1>6, <2>0
    <3> QED
      BY <3>1
  <2>2. j \in below(j) /\ j \notin below(i)
    BY <1>6, <2>0
  <2> HIDE DEF below
  <2> QED
    BY <1>5, <2>1, <2>2, FS_Subset
<1>7. rank \in [K -> 1..c] /\ \A i, j \in K : rank[i] = rank[j] => i = j
  <2>1. rank \in [K -> 1..c]
    BY <1>5
  <2>2. ASSUME NEW i \in K, NEW j \in K, rank[i] = rank[j] PROVE i = j
    <3>1. ~(i < j) /\ ~(j < i)
      BY <1>6, <2>2
    <3> QED
      BY <3>1
  <2> QED
    BY <2>1, <2>2
<1>10. r = [n \in 1..c |-> s[f[n]]]
  BY DEF Selected
<1>0. \A i \in K : rank[i] = Cardinality(below(i))
  OBVIOUS
<1> HIDE DEF rank, c, below
<1>8. \A n \in 1..c : \E i \in K : rank[i] = n
  <2>1. rank \in Injection(K, 1..c)
    BY <1>7 DEF Injection, IsInjective
  <2>2. rank \in Surjection(K, 1..c)
    BY <1>3, <1>4, <2>1, FS_Injection DEF c
  <2> QED
    BY <2>2 DEF Surjection
<1>9. \A n \in 1..c : f[n] \in K /\ rank[f[n]] = n
  BY <1>0, <1>8
<1> HIDE DEF f
<1>11. r \in Seq(X) /\ Len(r) = c
  <2>1. r \in [1..c -> X]
    BY <1>1, <1>9, <1>10
  <2> QED
    BY <1>3, <2>1
<1>12. \A n, m \in 1..c : f[n] = f[m] => n = m
  BY <1>9
<1>13. \A i \in K : rank[i] \in 1..c /\ f[rank[i]] = i
  BY <1>7, <1>9
<1>14. Enumerates(f, r, s, K)
  BY <1>9, <1>10, <1>11, <1>12, <1>13 DEF Enumerates
<1> QED
  BY <1>3, <1>11, <1>14

(* A listed player has a first place. *)
LEMMA FirstPlace ==
  ASSUME listed \in Seq(Players), NEW p, Listed(p)
  PROVE  /\ First(p) \in 1..Len(listed) /\ listed[First(p)] = p
         /\ \A i \in 1..Len(listed) : listed[i] = p => First(p) <= i
<1> DEFINE S == {i \in 1..Len(listed) : listed[i] = p}
<1>1. S \in SUBSET Nat /\ S # {}
  BY DEF Listed
<1> QED
  BY <1>1, Least DEF First

(* Taking a player off the list keeps the others, no one more often than     *)
(* before, and does take it off if it was listed once.                       *)
LEMMA Unlisted ==
  ASSUME listed \in Seq(Players), NEW p, Listed(p), NEW r, r = Unlist(p)
  PROVE  /\ r \in Seq(Players) /\ Len(r) \in Nat /\ Len(r) <= Len(listed)
         /\ \A q : (\E n \in 1..Len(r) : r[n] = q) => Listed(q)
         /\ \A q : q # p /\ Listed(q) => \E n \in 1..Len(r) : r[n] = q
         /\ \A q : Once(q) => \A n, m \in 1..Len(r) : r[n] = q /\ r[m] = q => n = m
         /\ Once(p) => \A n \in 1..Len(r) : r[n] # p
<1> DEFINE K == Kept(p)
           F == First(p)
           S == Spared(p)
<1>0. r = Selected(listed, K)
  BY DEF Unlist
<1>1. F \in 1..Len(listed) /\ listed[F] = p /\ Len(listed) \in Nat
  BY FirstPlace
<1>2. S \in SUBSET Nat /\ \A i \in S : i \in 1..Len(listed) /\ i > F /\ listed[i] # p
  BY <1>1 DEF Spared
<1>3. K \in SUBSET (1..Len(listed)) /\ F \notin K
  BY <1>1, <1>2 DEF Kept
<1>4. PICK f : Enumerates(f, r, listed, K)
  <2> HIDE DEF K
  <2> QED
    BY <1>3, <1>0, SelectedPlaces
<1>5. r \in Seq(Players) /\ Len(r) \in Nat /\ Len(r) <= Len(listed)
  <2> HIDE DEF K
  <2> QED
    BY <1>3, <1>0, SelectedPlaces
<1>6. ASSUME NEW q, q # p, Listed(q)
      PROVE  \E i \in K : listed[i] = q
  <2>1. PICK i \in 1..Len(listed) : listed[i] = q
    BY <1>6 DEF Listed
  <2>2. CASE i < F
    BY <2>1, <2>2 DEF Kept
  <2>3. CASE i > F
    <3>1. i \in S
      BY <1>6, <2>1, <2>3 DEF Spared
    <3>2. Min(S) \in S /\ Min(S) <= i
      BY <1>2, <3>1, Least
    <3> QED
      BY <1>2, <2>1, <3>2 DEF Kept
  <2> QED
    BY <1>1, <1>6, <2>1, <2>2, <2>3
<1> HIDE DEF K, F, S
<1>11. \A n \in 1..Len(r) : f[n] \in 1..Len(listed) /\ f[n] # F /\ r[n] = listed[f[n]]
  <2>1. \A n \in 1..Len(r) : f[n] \in K /\ r[n] = listed[f[n]]
    BY <1>4 DEF Enumerates
  <2>2. \A i \in K : i \in 1..Len(listed) /\ i # F
    BY <1>3
  <2> QED
    BY <2>1, <2>2
<1>12. \A n, m \in 1..Len(r) : f[n] = f[m] => n = m
  BY <1>4 DEF Enumerates
<1>7. \A q : (\E n \in 1..Len(r) : r[n] = q) => Listed(q)
  BY <1>11 DEF Listed
<1>8. \A q : q # p /\ Listed(q) => \E n \in 1..Len(r) : r[n] = q
  BY <1>4, <1>6 DEF Enumerates
<1>9. \A q : Once(q) => \A n, m \in 1..Len(r) : r[n] = q /\ r[m] = q => n = m
  BY <1>11, <1>12 DEF Once
<1>10. Once(p) => \A n \in 1..Len(r) : r[n] # p
  BY <1>1, <1>11 DEF Once
<1> QED
  BY <1>5, <1>7, <1>8, <1>9, <1>10
---------------------------------------------------------------------------
(* Type correctness. *)

(* TypeOK by parts. *)
LEMMA TypeParts ==
  TypeOK <=> /\ listed \in Seq(Players) /\ timers \in Seq(TimerType) /\ game \in GameType
             /\ Others /\ diedWith \subseteq 1..MaxRequests /\ raced \in BOOLEAN
BY DEF TypeOK, Others, TimerType, GameType, Labels, GameLabels, Indexes

(* What Bounds says of the lengths and of what may be pending. *)
LEMMA Lengths ==
  ASSUME Bounds
  PROVE  /\ listed \in Seq(Players) /\ timers \in Seq(TimerType) /\ game \in GameType /\ Others
         /\ Len(timers) \in Nat /\ Len(listed) \in Nat /\ Uids = 1..Len(timers)
         /\ Len(listed) <= Len(timers) /\ Len(timers) <= MaxRequests /\ MaxRequests \in Nat
         /\ Uids \subseteq Indexes /\ 0 \in Indexes /\ 1..Len(listed) \subseteq Indexes
         /\ 0 \notin Uids /\ \A u \in Uids : timers[u].player \in Players
         /\ diedWith \subseteq Uids
         /\ \A p : Pending(p) \subseteq Uids
         /\ raced \in BOOLEAN
<1>1. /\ listed \in Seq(Players) /\ timers \in Seq(TimerType) /\ game \in GameType /\ Others
      /\ raced \in BOOLEAN
  BY TypeParts DEF Bounds
<1>2. Len(timers) \in Nat /\ Len(listed) \in Nat /\ \A u \in Uids : timers[u].player \in Players
  BY <1>1, Numbered DEF Uids
<1> QED
  BY <1>1, <1>2, TimersAssumption DEF Bounds, Uids, Indexes, Pending

(* The same of the next state. *)
LEMMA NextBounds ==
  ASSUME NEW m \in Nat, m <= MaxRequests, Len(timers') = m, timers' \in Seq(TimerType),
         listed' \in Seq(Players), Len(listed') + (IF game'.pc = "started" THEN 1 ELSE 0) <= m,
         game' \in GameType, Turns', Others',
         diedWith' \subseteq 1..m, raced' \in BOOLEAN
  PROVE  Bounds'
<1>1. Len(listed') \in Nat /\ diedWith' \subseteq 1..MaxRequests
  BY TimersAssumption
<1>2. TypeOK'
  BY <1>1 DEF TypeOK, Others, TimerType, GameType, Labels, GameLabels, Indexes
<1> QED
  BY <1>2 DEF Bounds, Uids

(* What the game thread is at when it is at p. *)
LEMMA TurnIs ==
  ASSUME NEW p \in Players, NEW label \in GameLabels, NEW i \in Indexes, 0 \in Indexes,
         NEW kind \in Kinds \cup {"none"}
  PROVE  /\ Turn(p, label) = [pc |-> label, player |-> p, kind |-> "none", at |-> 0]
         /\ [Turn(p, label) EXCEPT !.kind = kind] = [pc |-> label, player |-> p, kind |-> kind, at |-> 0]
         /\ [Turn(p, label) EXCEPT !.at = i] = [pc |-> label, player |-> p, kind |-> "none", at |-> i]
         /\ Turn(p, label) \in GameType
         /\ [Turn(p, label) EXCEPT !.kind = kind] \in GameType
         /\ [Turn(p, label) EXCEPT !.at = i] \in GameType
<1>1. Turn(p, label) = [pc |-> label, player |-> p, kind |-> "none", at |-> 0]
  <2>1. Idle = [pc |-> "idle", player |-> Nobody, kind |-> "none", at |-> 0]
    BY DEF Idle
  <2>2. Turn(p, label) = [[Idle EXCEPT !.pc = label] EXCEPT !.player = p]
    BY DEF Turn
  <2>3. [Idle EXCEPT !.pc = label] = [pc |-> label, player |-> Nobody, kind |-> "none", at |-> 0]
    BY <2>1
  <2> QED
    BY <2>2, <2>3
<1>2. [Turn(p, label) EXCEPT !.kind = kind] = [pc |-> label, player |-> p, kind |-> kind, at |-> 0]
  BY <1>1
<1>3. [Turn(p, label) EXCEPT !.at = i] = [pc |-> label, player |-> p, kind |-> "none", at |-> i]
  BY <1>1
<1> QED
  BY <1>1, <1>2, <1>3 DEF GameType

(* Erasing by an old place keeps the list a list, and no longer. *)
LEMMA Erased ==
  ASSUME Bounds, NEW at, Erase(at)
  PROVE  listed' \in Seq(Players) /\ Len(listed') \in Nat /\ Len(listed') <= Len(listed)
<1>1. listed \in Seq(Players) /\ Len(listed) \in Nat
  BY Lengths
<1>2. PICK p \in Players : listed' = IF Listed(p) THEN Unlist(p) ELSE listed
  BY DEF Erase
<1>3. CASE Listed(p)
  BY <1>1, <1>2, <1>3, Unlisted
<1>4. CASE ~Listed(p)
  BY <1>1, <1>2, <1>4
<1> QED
  BY <1>3, <1>4

(* A step of timer u moves it on and leaves the other timers alone. *)
Advances(u, l) ==
  /\ Uids' = Uids
  /\ timers'[u].pc = l /\ timers'[u].player = timers[u].player /\ timers'[u].kind = timers[u].kind
  /\ \A v \in Uids : v # u => timers'[v] = timers[v]

(* Timer n is new, and sleeps. *)
Adds(n, p, kind) ==
  /\ Uids' = Uids \cup {n} /\ n \notin Uids /\ \A v \in Uids : v < n
  /\ timers'[n].player = p /\ timers'[n].pc = "asleep" /\ timers'[n].kind = kind
  /\ \A v \in Uids : timers'[v] = timers[v]

(* A timer that goes to another label advances, and is a timer still. *)
LEMMA Advance ==
  ASSUME Bounds, NEW u \in Uids, NEW l \in Labels, Goes(timers', timers, u, l)
  PROVE  Advances(u, l) /\ timers' \in Seq(TimerType) /\ Len(timers') = Len(timers)
<1>1. timers \in Seq(TimerType) /\ u \in 1..Len(timers)
  BY Lengths
<1> QED
  BY <1>1, Going DEF Advances, Uids

(* So does one that remembers a place. *)
LEMMA AdvanceAt ==
  ASSUME Bounds, NEW u \in Uids, NEW l \in Labels, NEW i \in Indexes, GoesAt(timers', timers, u, l, i)
  PROVE  /\ Advances(u, l) /\ timers' \in Seq(TimerType) /\ Len(timers') = Len(timers)
         /\ timers'[u].at = i
<1>1. timers \in Seq(TimerType) /\ u \in 1..Len(timers)
  BY Lengths
<1> QED
  BY <1>1, GoingAt DEF Advances, Uids

(* The seven steps of a timer, by what they do to it. *)
LEMMA TimerSteps ==
  ASSUME Bounds, NEW u, Timer(u)
  PROVE  /\ u \in Uids /\ timers[u].player \in Players
         /\ timers' \in Seq(TimerType) /\ Len(timers') = Len(timers)
         /\ UNCHANGED <<game, mount, alive, interrupted, diedWith, spent>>
         /\ raced' = (raced \/ TimerRace(u))
         /\ \/ Wake(u) /\ timers[u].pc = "asleep" /\ threads[timers[u].player] = u /\ Advances(u, "awake")
            \/ Wake(u) /\ timers[u].pc = "asleep" /\ threads[timers[u].player] # u /\ Advances(u, "over")
            \/ Claim(u) /\ timers[u].pc = "awake" /\ Advances(u, "claimed")
            \/ /\ Look(u) /\ timers[u].pc = "claimed"
               /\ timers[u].player \in alive /\ Listed(timers[u].player)
               /\ Advances(u, "found") /\ timers'[u].at = First(timers[u].player)
            \/ /\ Look(u) /\ timers[u].pc = "claimed"
               /\ ~(timers[u].player \in alive /\ Listed(timers[u].player)) /\ Advances(u, "over")
            \/ EraseFound(u) /\ timers[u].pc = "found" /\ Advances(u, "off")
            \/ Arrive(u) /\ timers[u].pc = "off" /\ Advances(u, "arrived")
            \/ Release(u) /\ timers[u].pc = "arrived" /\ Advances(u, "freed")
            \/ Pay(u) /\ timers[u].pc = "freed" /\ Advances(u, "paid")
<1>1. /\ timers \in Seq(TimerType) /\ listed \in Seq(Players) /\ 0 \in Indexes
      /\ 1..Len(listed) \subseteq Indexes
  BY Lengths
<1>2. /\ u \in Uids /\ raced' = (raced \/ TimerRace(u))
      /\ UNCHANGED <<game, mount, alive, interrupted, diedWith, spent>>
  BY DEF Timer, Wake, Claim, Look, EraseFound, Arrive, Release, Pay, At
<1>3. timers[u].player \in Players
  BY <1>2, Lengths
<1>4. {"awake", "claimed", "over", "found", "off", "arrived", "freed", "paid"} \subseteq Labels
  BY DEF Labels
<1>5. CASE Wake(u) /\ threads[timers[u].player] = u
  <2>1. Goes(timers', timers, u, "awake") /\ timers[u].pc = "asleep"
    BY <1>5 DEF Wake, At, GoTo, Goes
  <2> QED
    BY <1>2, <1>3, <1>4, <1>5, <2>1, Advance
<1>6. CASE Wake(u) /\ threads[timers[u].player] # u
  <2>1. Goes(timers', timers, u, "over") /\ timers[u].pc = "asleep"
    BY <1>6 DEF Wake, At, GoTo, Goes
  <2> QED
    BY <1>2, <1>3, <1>4, <1>6, <2>1, Advance
<1>7. CASE Look(u) /\ timers[u].player \in alive /\ Listed(timers[u].player)
  <2>1. GoesAt(timers', timers, u, "found", First(timers[u].player)) /\ timers[u].pc = "claimed"
    BY <1>7 DEF Look, At, GoesAt
  <2>2. First(timers[u].player) \in Indexes
    BY <1>1, <1>7, FirstPlace
  <2> QED
    BY <1>2, <1>3, <1>4, <1>7, <2>1, <2>2, AdvanceAt
<1>8. CASE Look(u) /\ ~(timers[u].player \in alive /\ Listed(timers[u].player))
  <2>1. Goes(timers', timers, u, "over") /\ timers[u].pc = "claimed"
    BY <1>8 DEF Look, At, GoTo, Goes
  <2> QED
    BY <1>2, <1>3, <1>4, <1>8, <2>1, Advance
<1>9. CASE EraseFound(u)
  <2>1. GoesAt(timers', timers, u, "off", 0) /\ timers[u].pc = "found"
    BY <1>9 DEF EraseFound, At, GoesAt
  <2> QED
    BY <1>1, <1>2, <1>3, <1>4, <1>9, <2>1, AdvanceAt
<1>10. CASE Arrive(u)
  <2>1. Goes(timers', timers, u, "arrived") /\ timers[u].pc = "off"
    BY <1>10 DEF Arrive, At, GoTo, Goes
  <2> QED
    BY <1>2, <1>3, <1>4, <1>10, <2>1, Advance
<1>11. CASE Release(u)
  <2>1. Goes(timers', timers, u, "freed") /\ timers[u].pc = "arrived"
    BY <1>11 DEF Release, At, GoTo, Goes
  <2> QED
    BY <1>2, <1>3, <1>4, <1>11, <2>1, Advance
<1>12. CASE Pay(u)
  <2>1. Goes(timers', timers, u, "paid") /\ timers[u].pc = "freed"
    BY <1>12 DEF Pay, At, GoTo, Goes
  <2> QED
    BY <1>2, <1>3, <1>4, <1>12, <2>1, Advance
<1>13. CASE Claim(u)
  <2>1. Goes(timers', timers, u, "claimed") /\ timers[u].pc = "awake"
    BY <1>13 DEF Claim, At, GoTo, Goes
  <2> QED
    BY <1>2, <1>3, <1>4, <1>13, <2>1, Advance
<1> QED
  BY <1>5, <1>6, <1>7, <1>8, <1>9, <1>10, <1>11, <1>12, <1>13 DEF Timer

(* The game thread adds a timer where it starts one, *)
LEMMA Starting ==
  ASSUME Bounds, NEW p \in Players, StartTimer(p)
  PROVE  /\ Adds(Len(timers) + 1, p, game.kind)
         /\ timers' \in Seq(TimerType) /\ Len(timers') = Len(timers) + 1
<1>1. game.kind \in Kinds
  BY DEF Bounds, Turns, StartTimer, Game
<1>2. Starts(timers', timers, p, game.kind)
  BY DEF StartTimer, Starts
<1>3. timers \in Seq(TimerType) /\ 0 \in Indexes /\ Len(timers) \in Nat /\ Uids = 1..Len(timers)
  BY Lengths
<1>4. /\ timers' \in Seq(TimerType) /\ Len(timers') = Len(timers) + 1
      /\ timers'[Len(timers) + 1].player = p /\ timers'[Len(timers) + 1].pc = "asleep"
      /\ timers'[Len(timers) + 1].kind = game.kind
      /\ \A v \in 1..Len(timers) : timers'[v] = timers[v]
  BY <1>1, <1>2, <1>3, Adding
<1>5. Uids' = Uids \cup {Len(timers) + 1} /\ Len(timers) + 1 \notin Uids
      /\ \A v \in Uids : v < Len(timers) + 1
  BY <1>3, <1>4 DEF Uids
<1> QED
  BY <1>3, <1>4, <1>5 DEF Adds

(* and leaves all of them alone elsewhere. *)
LEMMA GameSteps ==
  ASSUME NEW p \in Players, Begin(p) \/ Proceed(p) \/ Spend(p)
  PROVE  StartTimer(p) \/ UNCHANGED timers
BY DEF Begin, Proceed, Admit, Hit, Fall, Respawn, Ride, Enlist, Bind, BindMount, TakeOff,
       Strike, Free, FreeMount, Die, Spend

(* Freezing and giving back the input keep to characters and dinos, and so
   does what a rider leaves behind. *)
LEMMA InputTypes ==
  ASSUME Others, NEW p \in Players, NEW state,
         DisableCharacter(p, state) \/ DisableMount(p, state) \/ (Leave(p) /\ UNCHANGED frozen)
  PROVE  frozen' \subseteq Players \cup Dinos /\ left' \subseteq Dinos
<1>1. mount[p] \in Dinos \cup {NoDino} /\ (frozen \cap {mount[p]}) \subseteq Dinos
  BY TimersAssumption DEF Others
<1> QED
  BY <1>1 DEF Others, DisableCharacter, DisableMount, Leave

(* Every step of the game thread keeps the types. *)
LEMMA GameTypes ==
  ASSUME Bounds, NEW p \in Players, Begin(p) \/ Proceed(p) \/ Spend(p)
  PROVE  Bounds'
<1> DEFINE m == Len(timers)
           due == IF game'.pc = "started" THEN 1 ELSE 0
<1>1. /\ listed \in Seq(Players) /\ timers \in Seq(TimerType) /\ game \in GameType /\ Others
      /\ m \in Nat /\ Len(listed) \in Nat /\ Len(listed) <= m /\ m <= MaxRequests
      /\ MaxRequests \in Nat /\ Pending(p) \subseteq 1..m /\ diedWith \subseteq 1..m
      /\ 1..m \subseteq Indexes /\ 0 \in Indexes /\ Turns /\ 1..Len(listed) \subseteq Indexes
  BY Lengths DEF Bounds
<1>2. raced' \in BOOLEAN
  BY DEF Begin, Proceed, Spend, Bounds, TypeOK
<1>3. Len(listed) + (IF game.pc = "started" THEN 1 ELSE 0) <= m
  BY DEF Bounds
<1>4. game.pc # "idle" => game.player \in alive
  BY <1>1 DEF Turns
<1>5. ASSUME UNCHANGED timers, Others', diedWith' \subseteq diedWith \cup Pending(p),
             listed' \in Seq(Players), Len(listed') + due <= m, game' \in GameType, Turns'
      PROVE  Bounds'
  <2>1. diedWith' \subseteq 1..m
    BY <1>1, <1>5
  <2> QED
    BY <1>1, <1>2, <1>5, <2>1, NextBounds
<1>6. ASSUME NEW label \in GameLabels \ {"idle", "admitted", "started"}, p \in alive',
             \/ game' = Turn(p, label)
             \/ \E i \in Indexes : game' = [Turn(p, label) EXCEPT !.at = i]
      PROVE  /\ game' \in GameType /\ Turns' /\ due = 0
             /\ game'.pc = label /\ game'.player = p
  <2>1. PICK i \in Indexes : game' = [pc |-> label, player |-> p, kind |-> "none", at |-> i]
    BY <1>1, <1>6, TurnIs
  <2>2. game' \in GameType
    BY <1>1, <2>1 DEF GameType
  <2> QED
    BY <1>6, <2>1, <2>2 DEF Turns
<1>7. game' = Idle => game' \in GameType /\ Turns' /\ due = 0
  BY <1>1 DEF Idle, GameType, GameLabels, Turns
<1>8. game.player = p /\ game.pc # "idle" => p \in alive
  BY <1>1, <1>4
<1>9. GameLabels \ {"idle", "admitted", "started"} =
      {"enlisted", "bound", "hit", "off", "struck", "freed", "dying", "fallen"}
  BY DEF GameLabels
<1> HIDE DEF due
<1>10. ASSUME NEW kind \in Kinds, Admit(p, kind) PROVE Bounds'
  <2>1. game' = [pc |-> "admitted", player |-> p, kind |-> kind, at |-> 0]
    <3>1. "admitted" \in GameLabels
      BY DEF GameLabels
    <3> QED
      BY <1>1, <1>10, <3>1, TurnIs DEF Admit
  <2>2. game' \in GameType /\ Turns' /\ due = 0
    BY <1>1, <1>10, <2>1 DEF Admit, GameType, GameLabels, Turns, due
  <2>3. Others'
    BY <1>1, <1>10 DEF Admit, Others
  <2> QED
    BY <1>1, <1>5, <1>10, <2>2, <2>3 DEF Admit
<1>11. CASE StartTimer(p)
  <2>1. timers' \in Seq(TimerType) /\ Len(timers') = m + 1 /\ m < MaxRequests
    BY <1>1, <1>11, Starting DEF StartTimer, Game, Turns
  <2>2. /\ game' = [pc |-> "started", player |-> p, kind |-> "none", at |-> 0] /\ game' \in GameType
        /\ p \in alive /\ game.pc = "admitted"
    <3>1. "started" \in GameLabels
      BY DEF GameLabels
    <3> QED
      BY <1>1, <1>8, <1>11, <3>1, TurnIs DEF StartTimer, Game
  <2>3. Turns' /\ due = 1
    BY <1>11, <2>2 DEF StartTimer, Turns, due
  <2>4. m + 1 \in Indexes
    BY <1>1, <2>1 DEF Indexes
  <2>5. Others'
    BY <1>1, <1>11, <2>4 DEF StartTimer, Others
  <2>6. m + 1 \in Nat /\ m + 1 <= MaxRequests /\ Len(listed') + due <= m + 1 /\ diedWith' \subseteq 1..(m + 1)
    BY <1>1, <1>3, <1>11, <2>1, <2>2, <2>3 DEF StartTimer
  <2>7. listed' \in Seq(Players)
    BY <1>1, <1>11 DEF StartTimer
  <2> QED
    BY <1>2, <2>1, <2>2, <2>3, <2>5, <2>6, <2>7, NextBounds DEF due
<1>12. CASE Enlist(p)
  <2>1. listed' \in Seq(Players) /\ Len(listed') = Len(listed) + 1
    BY <1>1, <1>12, AppendProperties DEF Enlist
  <2>2. game' \in GameType /\ Turns' /\ due = 0
    BY <1>6, <1>8, <1>9, <1>12 DEF Enlist, Game
  <2>3. Others' /\ Len(listed) + 1 <= m
    BY <1>1, <1>3, <1>12 DEF Enlist, Others, Game
  <2> QED
    BY <1>1, <1>5, <1>12, <2>1, <2>2, <2>3 DEF Enlist
<1>13. CASE TakeOff(p)
  <2>1. listed' \in Seq(Players) /\ Len(listed') \in Nat /\ Len(listed') <= Len(listed)
    BY <1>13, Erased DEF TakeOff
  <2>2. game' \in GameType /\ Turns' /\ due = 0
    BY <1>6, <1>8, <1>9, <1>13 DEF TakeOff, Game
  <2>3. Others'
    BY <1>1, <1>13 DEF TakeOff, Others
  <2> QED
    BY <1>1, <1>5, <1>13, <2>1, <2>2, <2>3 DEF TakeOff
<1>14. ASSUME UNCHANGED <<timers, listed>>, Others', diedWith' \subseteq diedWith \cup Pending(p),
              game' \in GameType, Turns', due = 0
       PROVE  Bounds'
  BY <1>1, <1>5, <1>14
<1>15. CASE Hit(p)
  <2>1. First(p) \in Indexes
    BY <1>1, <1>15, FirstPlace DEF Hit
  <2>2. game' \in GameType /\ Turns' /\ due = 0
    BY <1>6, <1>9, <1>15, <2>1 DEF Hit
  <2>3. Others'
    BY <1>1, <1>15 DEF Hit, Others
  <2> QED
    BY <1>14, <1>15, <2>2, <2>3 DEF Hit
<1>16. CASE Fall(p)
  <2>1. Listed(p) => First(p) \in Indexes
    BY <1>1, FirstPlace
  <2>2. game' \in GameType /\ Turns' /\ due = 0
    BY <1>6, <1>9, <1>16, <2>1 DEF Fall
  <2>3. Others'
    BY <1>1, <1>16 DEF Fall, Others
  <2> QED
    BY <1>14, <1>16, <2>2, <2>3 DEF Fall
<1>17. CASE Bind(p) \/ BindMount(p) \/ Free(p) \/ FreeMount(p)
  <2>1. frozen' \subseteq Players \cup Dinos /\ left' \subseteq Dinos
    BY <1>1, <1>17, InputTypes DEF Bind, BindMount, Free, FreeMount
  <2>2. game' \in GameType /\ Turns' /\ due = 0
    BY <1>6, <1>7, <1>8, <1>9, <1>17 DEF Bind, BindMount, Free, FreeMount, Game
  <2>3. Others'
    BY <1>1, <1>17, <2>1 DEF Bind, BindMount, Free, FreeMount, Others
  <2> QED
    BY <1>14, <1>17, <2>2, <2>3 DEF Bind, BindMount, Free, FreeMount
<1>18. CASE Strike(p)
  <2>1. game' \in GameType /\ Turns' /\ due = 0
    BY <1>6, <1>8, <1>9, <1>18 DEF Strike, Game
  <2>2. Others'
    BY <1>1, <1>18 DEF Strike, Others
  <2> QED
    BY <1>14, <1>18, <2>1, <2>2 DEF Strike
<1>19. CASE Die(p)
  <2>1. left' \subseteq Dinos
    BY <1>1, <1>19, InputTypes DEF Die
  <2>2. Others'
    BY <1>1, <1>19, <2>1 DEF Die, Others
  <2> QED
    BY <1>7, <1>14, <1>19, <2>2 DEF Die
<1>20. CASE Respawn(p)
  BY <1>1, <1>7, <1>14, <1>20 DEF Respawn, Others
<1>21. ASSUME NEW d \in Dinos \cup {NoDino}, Ride(p, d) PROVE Bounds'
  <2>1. left' \subseteq Dinos
    BY <1>1, <1>21, InputTypes DEF Ride
  <2>2. Others'
    BY <1>1, <1>21, <2>1 DEF Ride, Others
  <2> QED
    BY <1>7, <1>14, <1>21, <2>2 DEF Ride
<1>22. CASE Spend(p)
  <2>1. Others'
    BY <1>1, <1>22 DEF Spend, Others
  <2>2. UNCHANGED <<game, listed, timers, diedWith, alive>> /\ Turns'
    BY <1>1, <1>22 DEF Spend, Turns
  <2> QED
    BY <1>1, <1>3, <1>5, <2>1, <2>2 DEF due
<1> QED
  BY <1>10, <1>11, <1>12, <1>13, <1>15, <1>16, <1>17, <1>18, <1>19, <1>20, <1>21, <1>22
     DEF Begin, Proceed

(* So does every step of a timer. *)
LEMMA TimerTypes ==
  ASSUME Bounds, NEW u, Timer(u)
  PROVE  Bounds'
<1> DEFINE m == Len(timers)
           p == timers[u].player
<1>1. /\ listed \in Seq(Players) /\ game \in GameType /\ Others
      /\ m \in Nat /\ Len(listed) \in Nat /\ m <= MaxRequests /\ diedWith \subseteq 1..m /\ 0 \in Indexes
  BY Lengths
<1>2. /\ u \in Uids /\ p \in Players /\ timers' \in Seq(TimerType) /\ Len(timers') = m
      /\ UNCHANGED <<game, mount, alive, interrupted, diedWith, spent>>
      /\ raced' \in BOOLEAN
  BY TimerSteps DEF Bounds, TypeOK
<1>3. Turns' /\ Len(listed) + (IF game.pc = "started" THEN 1 ELSE 0) <= m
  BY <1>2 DEF Bounds, Turns
<1>4. listed' \in Seq(Players) /\ Len(listed') \in Nat /\ Len(listed') <= Len(listed)
  <2>1. CASE EraseFound(u)
    BY <2>1, Erased DEF EraseFound
  <2>2. CASE Wake(u) \/ Claim(u) \/ Look(u) \/ Arrive(u) \/ Release(u) \/ Pay(u)
    <3>1. listed' = listed
      BY <2>2 DEF Wake, Claim, Look, Arrive, Release, Pay
    <3> QED
      BY <1>1, <3>1
  <2> QED
    BY <2>1, <2>2 DEF Timer
<1>5. threads' \in [Players -> Indexes]
  BY <1>1 DEF Others, Timer, Wake, Claim, Look, EraseFound, Arrive, Release, Pay
<1>6. points' \in [Players -> Int]
  <2>1. Price(u) \in Int
    BY TimersAssumption DEF Price
  <2>2. CASE Pay(u)
    BY <1>1, <1>2, <2>1, <2>2 DEF Others, Pay
  <2>3. CASE Wake(u) \/ Claim(u) \/ Look(u) \/ EraseFound(u) \/ Arrive(u) \/ Release(u)
    BY <1>1, <2>3 DEF Others, Wake, Claim, Look, EraseFound, Arrive, Release
  <2> QED
    BY <1>1, <1>2, <2>1, <2>2, <2>3 DEF Timer
<1>7. frozen' \subseteq Players \cup Dinos /\ left' \subseteq Dinos
  <2>1. CASE Arrive(u) \/ Release(u)
    BY <1>1, <1>2, <2>1, InputTypes DEF Arrive, Release
  <2>2. CASE Wake(u) \/ Claim(u) \/ Look(u) \/ EraseFound(u) \/ Pay(u)
    BY <1>1, <2>2 DEF Others, Wake, Claim, Look, EraseFound, Pay
  <2> QED
    BY <2>1, <2>2 DEF Timer
<1>8. Others'
  BY <1>1, <1>2, <1>5, <1>6, <1>7 DEF Others
<1>9. Len(listed') + (IF game'.pc = "started" THEN 1 ELSE 0) <= m
  BY <1>1, <1>2, <1>3, <1>4
<1> QED
  BY <1>1, <1>2, <1>3, <1>4, <1>8, <1>9, NextBounds

(* The types hold in every state, races or not: no timer and no hook remembers
   a place that the list could not have, and the game thread is only ever at a
   living player. *)
THEOREM TimersTyped == Spec => [](TypeOK /\ Bounds)
<1>1. Init => Bounds
  <2> SUFFICES ASSUME Init PROVE Bounds
    OBVIOUS
  <2>1. /\ listed \in Seq(Players) /\ timers \in Seq(TimerType) /\ Len(listed) = 0 /\ Len(timers) = 0
        /\ game = Idle /\ Idle.pc = "idle"
    BY DEF Init, Idle
  <2>2. Others /\ game \in GameType
    BY TimersAssumption DEF Init, Others, Indexes, Idle, GameType, GameLabels
  <2>3. diedWith = {} /\ raced \in BOOLEAN
    BY DEF Init
  <2>4. TypeOK /\ Turns
    BY <2>1, <2>2, <2>3, TypeParts DEF Turns
  <2> QED
    BY <2>1, <2>3, <2>4, TimersAssumption DEF Bounds, Uids
<1>2. Bounds /\ [Next]_vars => Bounds'
  <2>1. CASE UNCHANGED vars
    BY <2>1 DEF vars, Bounds, TypeOK, Turns, Uids
  <2> QED
    BY <2>1, GameTypes, TimerTypes DEF Next
<1>3. Bounds => TypeOK
  BY DEF Bounds
<1> QED
  BY <1>1, <1>2, <1>3, PTL DEF Spec

---------------------------------------------------------------------------
(* The numbers in Timer::threads, and who is at whom. *)

LastOf(u) == \A v \in Uids : timers[v].player = timers[u].player => v <= u

(* The number of a player is that of its last timer, which has not claimed it yet. *)
Numbers ==
  \A p \in Players : threads[p] # 0 =>
    /\ threads[p] \in Uids /\ timers[threads[p]].player = p /\ timers[threads[p]].pc \in {"asleep", "awake"}
    /\ LastOf(threads[p])

(* No player has the number of a request that was struck off, which until a race
   sleeps or is over. *)
Struck ==
  /\ interrupted \subseteq Uids \cup {0}
  /\ \A u \in interrupted \cap Uids :
       /\ ~raced => timers[u].pc \in {"asleep", "over"}
       /\ \A p \in Players : threads[p] # u

(* A task is that of the last timer of its player, *)
Tasks == \A u \in Uids : InTask(u) => LastOf(u)

(* the game thread is not at that player, *)
Apart == \A u \in Uids : InTask(u) => game.player # timers[u].player

(* and whoever found a player in the list knows its place still. *)
Places ==
  /\ \A u \in Uids : timers[u].pc = "found" =>
       timers[u].at \in 1..Len(listed) /\ listed[timers[u].at] = timers[u].player
  /\ game.pc \in {"hit", "dying"} =>
       game.at \in 1..Len(listed) /\ listed[game.at] = game.player

Base == Numbers /\ Struck /\ (~raced => Tasks /\ Apart /\ Places)

(* The numbers and the struck requests after a step that moves no timer. *)
LEMMA QuietNumbers ==
  ASSUME Numbers, Struck, UNCHANGED <<timers, threads, interrupted>>, raced => raced'
  PROVE  Numbers' /\ Struck'
BY DEF Numbers, Struck, LastOf, Uids

(* A timer that starts takes the number of its player. *)
LEMMA StartNumbers ==
  ASSUME Bounds, Numbers, Struck, NEW p \in Players, StartTimer(p), raced => raced'
  PROVE  Numbers' /\ Struck'
<1> DEFINE n == Len(timers) + 1
<1>1. Adds(n, p, game.kind)
  BY Starting
<1>2. threads \in [Players -> Indexes] /\ Uids \subseteq Nat /\ 0 \notin Uids /\ n \in Nat /\ n # 0
  BY Lengths DEF Others, Indexes
<1>3. threads' = [threads EXCEPT ![p] = n] /\ UNCHANGED interrupted
  BY DEF StartTimer
<1> HIDE DEF n
<1>4. Numbers'
  <2> SUFFICES ASSUME NEW q \in Players, threads'[q] # 0
               PROVE  /\ threads'[q] \in Uids' /\ timers'[threads'[q]].player = q
                      /\ timers'[threads'[q]].pc \in {"asleep", "awake"}
                      /\ \A v \in Uids' : timers'[v].player = timers'[threads'[q]].player => v <= threads'[q]
    BY DEF Numbers, LastOf
  <2>1. CASE q = p
    <3>1. threads'[q] = n
      BY <1>2, <1>3, <2>1
    <3> QED
      BY <1>1, <1>2, <2>1, <3>1 DEF Adds
  <2>2. CASE q # p
    <3>1. threads'[q] = threads[q]
      BY <1>2, <1>3, <2>2
    <3>2. /\ threads[q] \in Uids /\ timers[threads[q]].player = q /\ timers[threads[q]].pc \in {"asleep", "awake"}
          /\ \A v \in Uids : timers[v].player = timers[threads[q]].player => v <= threads[q]
      BY <3>1 DEF Numbers, LastOf
    <3> QED
      BY <1>1, <2>2, <3>1, <3>2 DEF Adds
  <2> QED
    BY <2>1, <2>2
<1>5. Struck'
  <2>1. interrupted' \subseteq Uids' \cup {0} /\ interrupted' \cap Uids' \subseteq interrupted \cap Uids
    BY <1>1, <1>2, <1>3 DEF Struck, Adds
  <2>2. ASSUME NEW u \in interrupted' \cap Uids'
        PROVE  (~raced' => timers'[u].pc \in {"asleep", "over"}) /\ \A q \in Players : threads'[q] # u
    <3>1. u \in interrupted \cap Uids /\ timers'[u] = timers[u] /\ u # n
      BY <1>1, <2>1 DEF Adds
    <3> QED
      BY <1>2, <1>3, <3>1 DEF Struck
  <2> QED
    BY <2>1, <2>2 DEF Struck
<1> QED
  BY <1>4, <1>5

(* The TakeDamage hook takes the number of its player away. *)
LEMMA StrikeNumbers ==
  ASSUME Bounds, Numbers, Struck, NEW p \in Players, Strike(p), raced' = (raced \/ GameRace(p))
  PROVE  Numbers' /\ Struck'
<1>1. threads \in [Players -> Indexes] /\ 0 \notin Uids
  BY Lengths DEF Others
<1>2. threads' = [threads EXCEPT ![p] = 0] /\ interrupted' = interrupted \cup {threads[p]} /\ UNCHANGED timers
  BY DEF Strike
<1>3. Uids' = Uids
  BY <1>2 DEF Uids
<1>4. Numbers'
  BY <1>1, <1>2, <1>3 DEF Numbers, LastOf
<1>5. Struck'
  <2>1. threads[p] \in Uids \cup {0}
    BY DEF Numbers
  <2>2. ASSUME NEW u \in interrupted' \cap Uids
        PROVE  (~raced' => timers[u].pc \in {"asleep", "over"}) /\ \A q \in Players : threads'[q] # u
    <3>1. CASE u \in interrupted
      BY <1>1, <1>2, <3>1 DEF Struck
    <3>2. CASE u = threads[p]
      <4>1. /\ timers[u].pc \in {"asleep", "awake"} /\ timers[u].player = p
            /\ \A q \in Players : threads[q] = u => q = p
        BY <1>1, <3>2 DEF Numbers
      <4>2. timers[u].pc = "awake" => raced'
        BY <4>1 DEF GameRace, Visits, InTask
      <4> QED
        BY <1>1, <1>2, <4>1, <4>2
    <3> QED
      BY <1>2, <3>1, <3>2
  <2> QED
    BY <1>2, <1>3, <2>1, <2>2 DEF Struck
<1> QED
  BY <1>4, <1>5

(* A timer that wakes as the last of its player takes its number away; the others
   have none, and the rest of the task touches none. *)
LEMMA TimerNumbers ==
  ASSUME Bounds, Numbers, Struck, NEW u, Timer(u)
  PROVE  Numbers' /\ Struck'
<1> DEFINE p == timers[u].player
<1>1. threads \in [Players -> Indexes] /\ 0 \notin Uids
  BY Lengths DEF Others
<1>2. u \in Uids /\ p \in Players /\ UNCHANGED interrupted /\ (raced => raced')
  BY TimerSteps
<1>3. PICK l : /\ Advances(u, l)
               /\ \/ timers[u].pc = "asleep" /\ threads[p] = u /\ threads' = threads /\ l = "awake"
                  \/ timers[u].pc = "asleep" /\ threads[p] # u /\ threads' = threads /\ l = "over"
                  \/ timers[u].pc = "awake" /\ threads' = [threads EXCEPT ![p] = 0]
                  \/ timers[u].pc \notin {"asleep", "awake", "over"} /\ threads' = threads
  BY TimerSteps DEF Wake, Claim, Look, EraseFound, Arrive, Release, Pay
<1>4. \A q \in Players : threads'[q] # 0 => threads'[q] = threads[q] /\ (threads[q] # u \/ l = "awake")
  BY <1>1, <1>2, <1>3 DEF Numbers
<1>5. Numbers'
  <2> SUFFICES ASSUME NEW q \in Players, threads'[q] # 0
               PROVE  /\ threads'[q] \in Uids' /\ timers'[threads'[q]].player = q
                      /\ timers'[threads'[q]].pc \in {"asleep", "awake"}
                      /\ \A v \in Uids' : timers'[v].player = timers'[threads'[q]].player => v <= threads'[q]
    BY DEF Numbers, LastOf
  <2>1. /\ threads[q] \in Uids /\ timers[threads[q]].player = q /\ timers[threads[q]].pc \in {"asleep", "awake"}
        /\ \A v \in Uids : timers[v].player = q => v <= threads[q]
        /\ threads'[q] = threads[q] /\ (threads[q] # u \/ l = "awake")
    BY <1>4 DEF Numbers, LastOf
  <2>2. \A v \in Uids : timers'[v].player = timers[v].player
    BY <1>3 DEF Advances
  <2> QED
    BY <1>3, <2>1, <2>2 DEF Advances
<1>6. ASSUME NEW v \in interrupted \cap Uids
      PROVE  (~raced' => timers'[v].pc \in {"asleep", "over"}) /\ \A q \in Players : threads'[q] # v
  <2>1. (~raced => timers[v].pc \in {"asleep", "over"}) /\ \A q \in Players : threads[q] # v
    BY DEF Struck
  <2>2. v # 0 /\ \A q \in Players : threads'[q] # v
    BY <1>1, <1>4, <2>1
  <2>3. CASE v = u
    <3>1. threads[p] # u
      BY <1>2, <2>1, <2>3
    <3> QED
      BY <1>2, <1>3, <2>1, <2>2, <2>3, <3>1 DEF Advances
  <2>4. CASE v # u
    BY <1>2, <1>3, <2>1, <2>2, <2>4 DEF Advances
  <2> QED
    BY <2>3, <2>4
<1>7. Struck'
  BY <1>2, <1>3, <1>6 DEF Struck, Advances
<1> QED
  BY <1>5, <1>7

(* The game thread is at p, or at nobody, after a step at p; it began it at p
   or at nobody. *)
LEMMA GameIs ==
  ASSUME Bounds, NEW p \in Players, Begin(p) \/ Proceed(p)
  PROVE  /\ game.player \in {p, Nobody} /\ game'.player \in {p, Nobody}
         /\ raced' = (raced \/ GameRace(p))
         /\ game'.pc \in {"hit", "dying"} =>
              UNCHANGED listed /\ Listed(p) /\ game'.player = p /\ game'.at = First(p)
<1>1. Idle.player = Nobody /\ Idle.pc = "idle" /\ 0 \in Indexes
  BY Lengths DEF Idle
<1>2. raced' = (raced \/ GameRace(p))
  BY DEF Begin, Proceed
<1>3. ASSUME NEW label \in GameLabels
      PROVE  Turn(p, label).player = p /\ Turn(p, label).pc = label
  BY <1>1, TurnIs DEF Turn, Idle
<1>4. {"admitted", "started", "enlisted", "bound", "off", "struck", "freed", "fallen", "hit", "dying"} \subseteq GameLabels
  BY DEF GameLabels
<1>5. CASE \E kind \in Kinds : Admit(p, kind)
  <2>1. PICK kind \in Kinds : game = Idle /\ game' = [Turn(p, "admitted") EXCEPT !.kind = kind]
    BY <1>5 DEF Admit
  <2>2. game' = [pc |-> "admitted", player |-> p, kind |-> kind, at |-> 0]
    BY <1>1, <1>4, <2>1, TurnIs
  <2> QED
    BY <1>1, <1>2, <2>1, <2>2
<1>6. CASE Hit(p) \/ Fall(p)
  <2>1. game = Idle /\ UNCHANGED listed
    BY <1>6 DEF Hit, Fall
  <2>2. PICK label \in {"hit", "dying", "fallen"} :
          \/ Listed(p) /\ game' = [Turn(p, label) EXCEPT !.at = First(p)]
          \/ game' = Turn(p, label) /\ label = "fallen"
    BY <1>6 DEF Hit, Fall
  <2>3. CASE game' = Turn(p, label) /\ label = "fallen"
    BY <1>1, <1>2, <1>3, <1>4, <2>1, <2>3
  <2>4. CASE Listed(p) /\ game' = [Turn(p, label) EXCEPT !.at = First(p)]
    <3>1. First(p) \in Indexes
      BY <2>4, FirstPlace, Lengths
    <3>2. game' = [pc |-> label, player |-> p, kind |-> "none", at |-> First(p)]
      BY <1>1, <1>4, <2>4, <3>1, TurnIs
    <3> QED
      BY <1>1, <1>2, <2>1, <2>4, <3>2
  <2> QED
    BY <2>2, <2>3, <2>4
<1>7. CASE Respawn(p) \/ \E d \in Dinos \cup {NoDino} : Ride(p, d)
  BY <1>1, <1>2, <1>7 DEF Respawn, Ride
<1>8. CASE Proceed(p)
  <2>1. game.player = p
    BY <1>8 DEF Proceed, StartTimer, Enlist, Bind, BindMount, TakeOff, Strike, Free, FreeMount, Die, Game
  <2>2. \/ game' = Idle
        \/ \E label \in {"started", "enlisted", "bound", "off", "fallen", "struck", "freed"} : game' = Turn(p, label)
    BY <1>8 DEF Proceed, StartTimer, Enlist, Bind, BindMount, TakeOff, Strike, Free, FreeMount, Die
  <2> QED
    BY <1>1, <1>2, <1>3, <1>4, <2>1, <2>2
<1> QED
  BY <1>5, <1>6, <1>7, <1>8 DEF Begin

(* A step of the game thread that is no race keeps the threads apart. *)
LEMMA GameApart ==
  ASSUME Bounds, Base, NEW p \in Players, Begin(p) \/ Proceed(p), ~raced'
  PROVE  Tasks' /\ Apart' /\ Places'
<1>1. /\ ~raced /\ Tasks /\ Apart /\ Places
      /\ \A u \in Uids : InTask(u) => timers[u].player # p
      /\ listed' # listed => \A u \in Uids : timers[u].pc # "found"
  BY GameIs DEF Base, GameRace, Visits
<1>2. /\ \A u \in Uids' : InTask(u)' => u \in Uids /\ timers'[u] = timers[u] /\ InTask(u)
      /\ \A v \in Uids' \ Uids : timers'[v].player = p
      /\ Uids \subseteq Uids' /\ \A v \in Uids : timers'[v] = timers[v]
  <2>1. CASE StartTimer(p)
    BY <2>1, Starting DEF Adds, InTask
  <2>2. CASE UNCHANGED timers
    BY <2>2 DEF InTask, Uids
  <2> QED
    BY <2>1, <2>2, GameSteps
<1>3. Tasks'
  <2> SUFFICES ASSUME NEW u \in Uids', InTask(u)', NEW v \in Uids', timers'[v].player = timers'[u].player
               PROVE  v <= u
    BY DEF Tasks, LastOf
  <2>1. u \in Uids /\ InTask(u) /\ timers'[u] = timers[u] /\ timers[u].player # p
    BY <1>1, <1>2
  <2>2. v \in Uids /\ timers[v].player = timers[u].player
    BY <1>2, <2>1
  <2> QED
    BY <1>1, <2>1, <2>2 DEF Tasks, LastOf
<1>4. Apart'
  <2>1. game'.player \in {p, Nobody}
    BY GameIs
  <2>2. \A u \in Uids : timers[u].player # Nobody
    BY Lengths, TimersAssumption
  <2> QED
    BY <1>1, <1>2, <2>1, <2>2 DEF Apart
<1>5. Places'
  <2>1. ASSUME NEW u \in Uids', timers'[u].pc = "found"
        PROVE  timers'[u].at \in 1..Len(listed') /\ listed'[timers'[u].at] = timers'[u].player
    <3>1. u \in Uids /\ timers'[u] = timers[u]
      BY <1>2, <2>1 DEF InTask
    <3>2. listed' = listed
      BY <1>1, <2>1, <3>1
    <3> QED
      BY <1>1, <2>1, <3>1, <3>2 DEF Places
  <2>2. ASSUME game'.pc \in {"hit", "dying"}
        PROVE  game'.at \in 1..Len(listed') /\ listed'[game'.at] = game'.player
    BY <2>2, GameIs, FirstPlace, Lengths
  <2> QED
    BY <2>1, <2>2 DEF Places
<1> QED
  BY <1>3, <1>4, <1>5

(* So does a step of a timer. *)
LEMMA TimerApart ==
  ASSUME Bounds, Base, NEW u, Timer(u), ~raced'
  PROVE  Tasks' /\ Apart' /\ Places'
<1> DEFINE p == timers[u].player
<1>1. u \in Uids /\ p \in Players /\ UNCHANGED game /\ ~raced /\ ~TimerRace(u)
  BY TimerSteps
<1>2. Tasks /\ Apart /\ Places /\ Numbers
  BY <1>1 DEF Base
<1>3. PICK l : /\ Advances(u, l)
               /\ l \in {"awake", "claimed", "found", "off", "arrived", "freed", "paid", "over"}
               /\ l = "awake" => threads[p] = u
               /\ l \in {"claimed", "found", "off", "arrived", "freed", "paid"} => InTask(u)
               /\ l = "found" => /\ timers[u].pc = "claimed" /\ UNCHANGED listed
                                 /\ Listed(p) /\ timers'[u].at = First(p)
               /\ l # "off" => UNCHANGED listed
  BY TimerSteps DEF Wake, Claim, Look, EraseFound, Arrive, Release, Pay, InTask
<1>4. /\ Uids' = Uids /\ \A v \in Uids : timers'[v].player = timers[v].player
      /\ \A v \in Uids : v # u => timers'[v] = timers[v]
      /\ timers'[u].pc = l
  BY <1>3 DEF Advances
<1>5. ASSUME NEW v \in Uids, InTask(v)'
      PROVE  LastOf(v) /\ game.player # timers[v].player
  <2>1. CASE v # u
    BY <1>2, <1>4, <1>5, <2>1 DEF InTask, Tasks, Apart
  <2>2. CASE v = u
    <3>1. InTask(u) \/ l = "awake"
      BY <1>3, <1>4, <1>5, <2>2 DEF InTask
    <3>2. LastOf(u)
      <4>1. CASE InTask(u)
        BY <1>1, <1>2, <4>1 DEF Tasks
      <4>2. CASE l = "awake"
        <5>1. u # 0
          BY <1>1, Lengths
        <5> QED
          BY <1>1, <1>2, <1>3, <4>2, <5>1 DEF Numbers
      <4> QED
        BY <3>1, <4>1, <4>2
    <3>3. game.player # p
      BY <1>1, <1>5, <2>2 DEF TimerRace
    <3> QED
      BY <2>2, <3>2, <3>3
  <2> QED
    BY <2>1, <2>2
<1>6. Tasks' /\ Apart'
  BY <1>1, <1>4, <1>5 DEF Tasks, Apart, LastOf
<1>7. Places'
  <2>1. ASSUME UNCHANGED listed PROVE Places'
    <3>1. ASSUME NEW v \in Uids, timers'[v].pc = "found"
          PROVE  timers'[v].at \in 1..Len(listed) /\ listed[timers'[v].at] = timers'[v].player
      <4>1. CASE v = u
        <5>1. l = "found" /\ Listed(p) /\ timers'[u].at = First(p) /\ timers'[u].player = p
          BY <1>1, <1>3, <1>4, <3>1, <4>1
        <5>2. listed \in Seq(Players)
          BY Lengths
        <5> QED
          BY <4>1, <5>1, <5>2, FirstPlace
      <4>2. CASE v # u
        BY <1>2, <1>4, <3>1, <4>2 DEF Places
      <4> QED
        BY <4>1, <4>2
    <3> QED
      BY <1>1, <1>2, <1>4, <2>1, <3>1 DEF Places
  <2>2. ASSUME listed' # listed PROVE Places'
    <3>1. l = "off" /\ InTask(u)
      BY <1>3, <2>2
    <3>2. game.pc \notin {"hit", "dying"} /\ \A v \in Uids \ {u} : timers[v].pc # "found"
      BY <1>1, <2>2, <3>1 DEF TimerRace
    <3>3. \A v \in Uids : timers'[v].pc # "found"
      BY <1>4, <3>1, <3>2
    <3> QED
      BY <1>1, <1>4, <3>2, <3>3 DEF Places
  <2> QED
    BY <2>1, <2>2
<1> QED
  BY <1>6, <1>7

(* Every step keeps all of it. *)
LEMMA NextBase == Bounds /\ Base /\ [Next]_vars => Base'
<1> SUFFICES ASSUME Bounds, Base, [Next]_vars PROVE Base'
  OBVIOUS
<1>0. Numbers /\ Struck
  BY DEF Base
<1>1. ASSUME NEW p \in Players, Begin(p) \/ Proceed(p) PROVE Base'
  <2>0. raced' = (raced \/ GameRace(p))
    BY <1>1 DEF Begin, Proceed
  <2>1. Numbers' /\ Struck'
    <3>1. CASE StartTimer(p)
      BY <1>0, <2>0, <3>1, StartNumbers
    <3>2. CASE Strike(p)
      BY <1>0, <2>0, <3>2, StrikeNumbers
    <3>3. CASE ~StartTimer(p) /\ ~Strike(p)
      <4>1. UNCHANGED <<timers, threads, interrupted>>
        BY <1>1, <3>3 DEF Begin, Proceed, Admit, Hit, Fall, Respawn, Ride, Enlist, Bind, BindMount,
                          TakeOff, Free, FreeMount, Die
      <4> QED
        BY <1>0, <2>0, <4>1, QuietNumbers
    <3> QED
      BY <3>1, <3>2, <3>3
  <2> QED
    BY <1>1, <2>1, GameApart DEF Base
<1>2. ASSUME NEW p \in Players, Spend(p) PROVE Base'
  <2>1. UNCHANGED <<timers, threads, interrupted, game, listed, raced>>
    BY <1>2 DEF Spend
  <2>2. Numbers' /\ Struck'
    BY <1>0, <2>1, QuietNumbers
  <2>3. (~raced => Tasks /\ Apart /\ Places) => (~raced' => Tasks' /\ Apart' /\ Places')
    BY <2>1 DEF Tasks, Apart, Places, LastOf, InTask, Uids
  <2> QED
    BY <2>2, <2>3 DEF Base
<1>3. ASSUME NEW u, Timer(u) PROVE Base'
  BY <1>0, <1>3, TimerNumbers, TimerApart DEF Base
<1>4. CASE UNCHANGED vars
  BY <1>4 DEF vars, Base, Numbers, Struck, Tasks, Apart, Places, LastOf, InTask, Uids
<1> QED
  BY <1>1, <1>2, <1>3, <1>4 DEF Next

(* It holds in every state, with the types. *)
LEMMA BaseHolds == Spec => [](Bounds /\ Base)
<1>1. Init => Base
  <2> SUFFICES ASSUME Init PROVE Base
    OBVIOUS
  <2>1. /\ Uids = {} /\ interrupted = {} /\ \A p \in Players : threads[p] = 0
        /\ game.pc = "idle"
    BY DEF Init, Uids, Idle
  <2> QED
    BY <2>1 DEF Base, Numbers, Struck, Tasks, Apart, Places
<1>2. Spec => []Bounds
  BY TimersTyped, PTL
<1> QED
  BY <1>1, <1>2, NextBase, PTL DEF Spec

(* A request struck off Timer::threads by the TakeDamage hook never moves its
   player: when its timer wakes there is no number to find. *)
THEOREM Interrupted == Spec => []InterruptedStays
<1>1. Base => InterruptedStays
  BY DEF Base, Struck, InterruptedStays, Moved
<1> QED
  BY <1>1, BaseHolds, PTL

(* Only the last request of a player moves it (threads[steam_id] = uid). *)
THEOREM LastMoves == Spec => OnlyLastMoves
<1> DEFINE A == \A u \in Uids : ~raced' /\ Moved(u)' /\ ~Moved(u) =>
                  \A v \in Uids : timers[v].player = timers[u].player => v <= u
<1>1. Bounds /\ Base /\ [Next]_vars => [A]_vars
  <2> SUFFICES ASSUME Bounds, Base, Next, NEW u \in Uids, ~raced', Moved(u)', ~Moved(u)
               PROVE  LastOf(u)
    BY DEF LastOf
  <2>1. ASSUME NEW p \in Players, Begin(p) \/ Proceed(p) \/ Spend(p) PROVE FALSE
    <3>1. CASE StartTimer(p)
      BY <3>1, Starting DEF Adds, Moved
    <3>2. CASE UNCHANGED timers
      BY <3>2 DEF Moved
    <3> QED
      BY <2>1, <3>1, <3>2, GameSteps
  <2>2. ASSUME NEW w, Timer(w) PROVE LastOf(u)
    <3>1. ~raced /\ w \in Uids
      BY <2>2, TimerSteps
    <3>2. PICK l : Advances(w, l) /\ (l \in {"arrived", "freed", "paid"} => InTask(w))
      BY <2>2, TimerSteps DEF InTask
    <3>3. u = w /\ InTask(u)
      BY <3>2 DEF Advances, Moved
    <3> QED
      BY <3>1, <3>3 DEF Base, Tasks
  <2> QED
    BY <2>1, <2>2 DEF Next
<1>2. Spec => [][A]_vars
  BY <1>1, BaseHolds, PTL DEF Spec
<1> QED
  BY <1>2 DEF OnlyLastMoves

---------------------------------------------------------------------------
(* Taking a player off the list. *)

(* It concerns nobody else. *)
LEMMA Off ==
  ASSUME Bounds, NEW p \in Players, Listed(p), listed' = Unlist(p)
  PROVE  /\ \A q \in Players \ {p} : (Listed(q)' <=> Listed(q)) /\ (Once(q) => Once(q)')
         /\ Once(p) => ~Listed(p)'
<1>1. /\ \A q : (\E n \in 1..Len(listed') : listed'[n] = q) => Listed(q)
      /\ \A q : q # p /\ Listed(q) => \E n \in 1..Len(listed') : listed'[n] = q
      /\ \A q : Once(q) => \A n, m \in 1..Len(listed') : listed'[n] = q /\ listed'[m] = q => n = m
      /\ Once(p) => \A n \in 1..Len(listed') : listed'[n] # p
  <2>1. listed \in Seq(Players)
    BY Lengths
  <2> QED
    BY <2>1, Unlisted
<1>2. ASSUME NEW q \in Players \ {p}
      PROVE  (Listed(q)' <=> Listed(q)) /\ (Once(q) => Once(q)')
  <2>1. Listed(q)' <=> Listed(q)
    BY <1>1 DEF Listed
  <2>2. Once(q) => Once(q)'
    BY <1>1 DEF Once
  <2> QED
    BY <2>1, <2>2
<1>3. Once(p) => ~Listed(p)'
  BY <1>1 DEF Listed
<1> QED
  BY <1>2, <1>3

(* By a place at which p stands, it is p that is taken off. *)
LEMMA OffAt ==
  ASSUME Bounds, NEW p, NEW at, at \in 1..Len(listed), listed[at] = p, Erase(at)
  PROVE  Listed(p) /\ listed' = Unlist(p)
<1>1. at <= Len(listed) /\ Listed(p)
  BY Lengths DEF Listed
<1> QED
  BY <1>1 DEF Erase

(* So it is in the hooks, until a race, *)
LEMMA OffPlace ==
  ASSUME Bounds, Base, ~raced, NEW p \in Players, TakeOff(p)
  PROVE  Listed(p) /\ listed' = Unlist(p)
<1>1. game.player = p /\ game.pc \in {"hit", "dying"} /\ Erase(game.at)
  BY DEF TakeOff, Game
<1>2. game.at \in 1..Len(listed) /\ listed[game.at] = p
  BY <1>1 DEF Base, Places
<1> QED
  BY <1>1, <1>2, OffAt

(* and in a task. *)
LEMMA FoundPlace ==
  ASSUME Bounds, Base, ~raced, NEW u, EraseFound(u)
  PROVE  Listed(timers[u].player) /\ listed' = Unlist(timers[u].player)
<1>1. u \in Uids /\ timers[u].pc = "found" /\ Erase(timers[u].at)
  BY DEF EraseFound, At
<1>2. timers[u].at \in 1..Len(listed) /\ listed[timers[u].at] = timers[u].player
  BY <1>1 DEF Base, Places
<1> QED
  BY <1>1, <1>2, OffAt

---------------------------------------------------------------------------
(* What a player is promised until a race. *)

(* A timer of p is under way that has not taken p off the list yet. *)
Way(p) == threads[p] # 0 \/ \E u \in Uids : timers[u].player = p /\ timers[u].pc \in {"awake", "claimed", "found"}

(* A frozen player has one, and is listed, or is about to be moved. *)
Served(p) ==
  p \in alive \cap frozen /\ game.player # p =>
    \/ Way(p) /\ Listed(p)
    \/ \E u \in Uids : timers[u].player = p /\ timers[u].pc = "off"

(* A listed player has one, is listed once and lives. *)
Alone(p) == HomeOnly(p) /\ Listed(p) => Way(p) /\ Once(p) /\ p \in alive

(* The requests p died after do not get to the list while p is on it. *)
Outlived(p) ==
  HomeOnly(p) => \A u \in diedWith : timers[u].player = p =>
    /\ timers[u].pc \in {"asleep", "awake", "claimed", "over"}
    /\ Listed(p) => timers[u].pc \notin {"awake", "claimed"} /\ threads[p] # u

(* The balance covers the fare of the request that is under way. *)
Covered(p) ==
  p \notin spent =>
    /\ points[p] >= 0
    /\ Game(p, "admitted") /\ game.kind = "home" => points[p] >= Fare
    /\ \A u \in Uids : timers[u].player = p /\ timers[u].kind = "home" /\ (threads[p] = u \/ InTask(u)) =>
         points[p] >= Fare

(* What the command or hook of p has done so far. *)
Stage(p) ==
  /\ Game(p, "admitted") /\ game.kind = "home" => ~Listed(p)
  /\ Game(p, "started") => threads[p] # 0 /\ threads[p] \notin diedWith
  /\ Game(p, "enlisted") \/ Game(p, "bound") => threads[p] # 0 /\ Listed(p)
  /\ Game(p, "bound") => p \in frozen
  /\ Game(p, "freed") => p \notin frozen
  /\ Game(p, "started") \/ Game(p, "off") \/ Game(p, "fallen") => (HomeOnly(p) => ~Listed(p))

Promised(p) == Served(p) /\ Alone(p) /\ Outlived(p) /\ Covered(p) /\ Stage(p)

(* A step that is not at q leaves all that is q's alone. *)
Same(q) ==
  /\ threads'[q] = threads[q] /\ points'[q] = points[q]
  /\ Listed(q)' <=> Listed(q)
  /\ Once(q) => Once(q)'
  /\ q \in alive' <=> q \in alive
  /\ q \in frozen' <=> q \in frozen
  /\ q \in spent' <=> q \in spent
  /\ \A u \in Uids : timers[u].player = q => u \in Uids' /\ timers'[u] = timers[u]
  /\ \A u \in Uids' : timers'[u].player = q => u \in Uids /\ timers'[u] = timers[u]
  /\ \A u \in diedWith' : timers'[u].player = q => u \in diedWith
  /\ \A u \in diedWith : timers[u].player = q => u \in diedWith'
  /\ game'.player = q \/ game.player = q => game' = game

(* What q was promised it still is. *)
LEMMA Undisturbed ==
  ASSUME Bounds, Bounds', Base, NEW q \in Players, Same(q), Promised(q)
  PROVE  Promised(q)'
<1>1. /\ \A label : Game(q, label)' <=> Game(q, label)
      /\ game'.player = q <=> game.player = q
      /\ game.player = q => game' = game
  BY DEF Same, Game
<1>2. HomeOnly(q)' <=> HomeOnly(q)
  BY DEF Same, HomeOnly
<1>3. Way(q)' <=> Way(q)
  BY DEF Same, Way
<1>4. Served(q)'
  BY <1>1, <1>3 DEF Promised, Served, Same
<1>5. Alone(q)'
  BY <1>2, <1>3 DEF Promised, Alone, Same
<1>6. Outlived(q)'
  <2>1. diedWith' \subseteq Uids' /\ diedWith \subseteq Uids
    BY DEF Bounds
  <2>2. ASSUME NEW u \in diedWith', timers'[u].player = q
        PROVE  u \in diedWith /\ timers'[u] = timers[u] /\ timers[u].player = q
    BY <2>1, <2>2 DEF Same
  <2> QED
    BY <1>2, <2>2 DEF Promised, Outlived, Same
<1>7. Covered(q)'
  <2>1. ASSUME NEW u \in Uids', timers'[u].player = q
        PROVE  u \in Uids /\ timers'[u] = timers[u] /\ (InTask(u)' <=> InTask(u))
    BY <2>1 DEF Same, InTask
  <2> QED
    BY <1>1, <2>1 DEF Promised, Covered, Same, Game
<1>8. Stage(q)'
  <2>1. Game(q, "started") /\ threads[q] # 0 /\ threads[q] \notin diedWith => threads[q] \notin diedWith'
    BY Lengths DEF Same, Base, Numbers
  <2> QED
    BY <1>1, <1>2, <2>1 DEF Promised, Stage, Same, Game
<1> QED
  BY <1>4, <1>5, <1>6, <1>7, <1>8 DEF Promised

(* A timer whose player is q, and one that is not, in a step of the game thread at p. *)
LEMMA GameElsewhere ==
  ASSUME Bounds, Base, NEW p \in Players, Begin(p) \/ Proceed(p), ~raced',
         NEW q \in Players, q # p
  PROVE  Same(q)
<1>1. /\ threads \in [Players -> Indexes] /\ mount \in [Players -> Dinos \cup {NoDino}]
      /\ listed \in Seq(Players) /\ q \notin Dinos \cup {NoDino}
  BY Lengths, TimersAssumption DEF Others
<1>2. /\ game.player \in {p, Nobody} /\ game'.player \in {p, Nobody} /\ q \notin {p, Nobody}
      /\ ~raced
  BY GameIs, TimersAssumption
<1>3. UNCHANGED points /\ threads'[q] = threads[q]
  BY <1>1 DEF Begin, Proceed, Admit, Hit, Fall, Respawn, Ride, StartTimer, Enlist, Bind, BindMount,
              TakeOff, Strike, Free, FreeMount, Die
<1>4. /\ q \in alive' <=> q \in alive
      /\ q \in spent' <=> q \in spent
  BY DEF Begin, Proceed, Admit, Hit, Fall, Respawn, Ride, StartTimer, Enlist, Bind, BindMount,
         TakeOff, Strike, Free, FreeMount, Die
<1>5. q \in frozen' <=> q \in frozen
  BY <1>1 DEF Begin, Proceed, Admit, Hit, Fall, Respawn, Ride, StartTimer, Enlist, Bind, BindMount,
              TakeOff, Strike, Free, FreeMount, Die, DisableCharacter, DisableMount
<1>6. (Listed(q)' <=> Listed(q)) /\ (Once(q) => Once(q)')
  <2>1. CASE Enlist(p)
    <3>1. /\ Len(listed') = Len(listed) + 1 /\ listed'[Len(listed) + 1] = p
          /\ \A i \in 1..Len(listed) : listed'[i] = listed[i]
          /\ Len(listed) \in Nat
      BY <1>1, <2>1, AppendProperties, Lengths DEF Enlist
    <3>2. \A i \in 1..Len(listed') : listed'[i] = q => i \in 1..Len(listed) /\ listed[i] = q
      BY <3>1
    <3>3. 1..Len(listed) \subseteq 1..Len(listed')
      BY <3>1
    <3> QED
      BY <3>1, <3>2, <3>3 DEF Listed, Once
  <2>2. CASE TakeOff(p)
    <3>1. Listed(p) /\ listed' = Unlist(p)
      BY <1>2, <2>2, OffPlace
    <3> QED
      BY <1>2, <3>1, Off
  <2>3. CASE UNCHANGED listed
    BY <2>3 DEF Listed, Once
  <2> QED
    BY <2>1, <2>2, <2>3 DEF Begin, Proceed, Admit, Hit, Fall, Respawn, Ride, StartTimer, Bind, BindMount,
                            Strike, Free, FreeMount, Die
<1>7. /\ \A u \in Uids : u \in Uids' /\ timers'[u] = timers[u]
      /\ \A u \in Uids' : timers'[u].player = q => u \in Uids
  <2>1. CASE StartTimer(p)
    BY <2>1, Starting DEF Adds
  <2>2. CASE UNCHANGED timers
    BY <2>2 DEF Uids
  <2> QED
    BY <2>1, <2>2, GameSteps
<1>8. /\ \A u \in diedWith' : timers'[u].player = q => u \in diedWith
      /\ diedWith \subseteq diedWith'
  <2>1. CASE Die(p)
    BY <2>1 DEF Die, Pending
  <2>2. CASE ~Die(p)
    BY <2>2 DEF Begin, Proceed, Admit, Hit, Fall, Respawn, Ride, StartTimer, Enlist, Bind, BindMount,
                TakeOff, Strike, Free, FreeMount
  <2> QED
    BY <2>1, <2>2
<1> QED
  BY <1>2, <1>3, <1>4, <1>5, <1>6, <1>7, <1>8 DEF Same

(* The same of a step of timer u. *)
LEMMA TimerElsewhere ==
  ASSUME Bounds, Base, NEW u, Timer(u), ~raced', NEW q \in Players, q # timers[u].player
  PROVE  Same(q)
<1> DEFINE p == timers[u].player
<1>1. /\ threads \in [Players -> Indexes] /\ mount \in [Players -> Dinos \cup {NoDino}]
      /\ points \in [Players -> Int] /\ q \notin Dinos \cup {NoDino}
  BY Lengths, TimersAssumption DEF Others
<1>2. /\ u \in Uids /\ p \in Players /\ UNCHANGED <<game, mount, alive, diedWith, spent>> /\ ~raced
  BY TimerSteps
<1>3. PICK l : Advances(u, l)
  BY TimerSteps
<1>4. threads'[q] = threads[q] /\ points'[q] = points[q]
  BY <1>1, <1>2 DEF Timer, Wake, Claim, Look, EraseFound, Arrive, Release, Pay
<1>5. q \in frozen' <=> q \in frozen
  BY <1>1, <1>2 DEF Timer, Wake, Claim, Look, EraseFound, Arrive, Release, Pay, DisableCharacter, DisableMount
<1>6. (Listed(q)' <=> Listed(q)) /\ (Once(q) => Once(q)')
  <2>1. CASE EraseFound(u)
    BY <1>2, <2>1, FoundPlace, Off
  <2>2. CASE UNCHANGED listed
    BY <2>2 DEF Listed, Once
  <2> QED
    BY <2>1, <2>2 DEF Timer, Wake, Claim, Look, Arrive, Release, Pay
<1>7. /\ \A v \in Uids : timers[v].player = q => v \in Uids' /\ timers'[v] = timers[v]
      /\ \A v \in Uids' : timers'[v].player = q => v \in Uids /\ timers'[v] = timers[v]
  BY <1>3 DEF Advances
<1>8. diedWith' = diedWith /\ \A v \in diedWith : v \in Uids'
  BY <1>2, <1>3 DEF Bounds, Advances
<1> QED
  BY <1>2, <1>4, <1>5, <1>6, <1>7, <1>8 DEF Same

(* A player that a task is at has no number, once the task has claimed it, and no
   other task is at it. *)
LEMMA Sole ==
  ASSUME Bounds, Base, ~raced, NEW u \in Uids, InTask(u)
  PROVE  /\ threads[timers[u].player] # 0 => threads[timers[u].player] = u /\ timers[u].pc = "awake"
         /\ \A v \in Uids : timers[v].player = timers[u].player /\ InTask(v) => v = u
<1>1. LastOf(u) /\ timers[u].player \in Players /\ Uids \subseteq Nat
  BY Lengths DEF Base, Tasks, Indexes
<1>2. \A v \in Uids : timers[v].player = timers[u].player /\ LastOf(v) => v = u
  BY <1>1 DEF LastOf
<1>3. \A v \in Uids : timers[v].player = timers[u].player /\ InTask(v) => v = u
  BY <1>2 DEF Base, Tasks
<1>4. threads[timers[u].player] # 0 => threads[timers[u].player] = u /\ timers[u].pc = "awake"
  BY <1>1, <1>2 DEF Base, Numbers, InTask
<1> QED
  BY <1>3, <1>4

(* A step of the timer of a player keeps what the player was promised. *)
LEMMA TimerPromised ==
  ASSUME Bounds, Base, NEW u, Timer(u), ~raced', NEW p, timers[u].player = p, Promised(p)
  PROVE  Promised(p)'
<1>1. /\ threads \in [Players -> Indexes] /\ mount \in [Players -> Dinos \cup {NoDino}]
      /\ points \in [Players -> Int] /\ 0 \notin Uids /\ diedWith \subseteq Uids
  BY Lengths DEF Others
<1>2. /\ u \in Uids /\ p \in Players /\ ~raced /\ ~TimerRace(u)
      /\ UNCHANGED <<game, mount, alive, interrupted, diedWith, spent>>
  BY TimerSteps
<1>3. InTask(u) \/ InTask(u)' => game.player # p
  BY <1>2 DEF TimerRace
<1>4. InTask(u) => /\ threads[p] = 0 \/ timers[u].pc = "awake"
                   /\ \A v \in Uids : timers[v].player = p /\ InTask(v) => v = u
  BY <1>2, Sole
<1>5. PICK l : Advances(u, l)
  BY TimerSteps
<1>6. /\ Uids' = Uids /\ timers'[u].pc = l
      /\ \A v \in Uids : timers'[v].player = timers[v].player /\ timers'[v].kind = timers[v].kind
      /\ \A v \in Uids : v # u => timers'[v] = timers[v] /\ timers'[v].pc = timers[v].pc
                                  /\ (InTask(v)' <=> InTask(v))
  BY <1>5 DEF Advances, InTask
<1>7. HomeOnly(p)' <=> HomeOnly(p)
  BY <1>6 DEF HomeOnly
<1>8. game.player # p => Stage(p)'
  BY <1>2 DEF Stage, Game
<1>9. ASSUME UNCHANGED <<threads, listed, frozen>> PROVE Stage(p)'
  BY <1>2, <1>7, <1>9 DEF Promised, Stage, Game, Listed
<1>10. ASSUME UNCHANGED points, InTask(u)' \/ threads'[p] = u => InTask(u) \/ threads[p] = u,
              threads'[p] \in {threads[p], 0}
       PROVE  Covered(p)'
  BY <1>1, <1>2, <1>6, <1>10 DEF Promised, Covered, Game
<1>11. UNCHANGED listed => (Listed(p)' <=> Listed(p)) /\ (Once(p) => Once(p)')
  BY DEF Listed, Once
<1>12. CASE \/ Wake(u) /\ timers[u].pc = "asleep" /\ threads[p] = u /\ timers'[u].pc = "awake"
            \/ Claim(u) /\ timers[u].pc = "awake" /\ timers'[u].pc = "claimed"
  <2>1. UNCHANGED <<listed, frozen, points>> /\ threads'[p] \in {threads[p], 0}
    BY <1>1, <1>2, <1>12 DEF Wake, Claim
  <2>2. Way(p)' /\ InTask(u)' /\ Way(p) /\ (InTask(u) \/ threads[p] = u)
    BY <1>1, <1>2, <1>6, <1>12 DEF Way, InTask
  <2>3. Served(p)'
    BY <1>2, <1>3, <1>6, <1>11, <2>1, <2>2, <1>12 DEF Promised, Served
  <2>4. Alone(p)'
    BY <1>2, <1>7, <1>11, <2>1, <2>2 DEF Promised, Alone
  <2>5. Outlived(p)'
    BY <1>1, <1>2, <1>6, <1>7, <1>11, <1>12, <2>1 DEF Promised, Outlived
  <2> QED
    BY <1>3, <1>8, <1>10, <1>12, <2>1, <2>2, <2>3, <2>4, <2>5 DEF Promised
<1>13. CASE Wake(u) /\ timers[u].pc = "asleep" /\ threads[p] # u /\ timers'[u].pc = "over"
  <2>1. UNCHANGED <<listed, frozen, points, threads>>
    BY <1>13 DEF Wake
  <2>2. (Way(p)' <=> Way(p)) /\ ~InTask(u)'
    BY <1>2, <1>6, <1>13, <2>1 DEF Way, InTask
  <2>3. Served(p)'
    BY <1>2, <1>6, <1>11, <1>13, <2>1, <2>2 DEF Promised, Served
  <2>4. Alone(p)'
    BY <1>2, <1>7, <1>11, <2>1, <2>2 DEF Promised, Alone
  <2>5. Outlived(p)'
    BY <1>1, <1>2, <1>6, <1>7, <1>11, <1>13, <2>1 DEF Promised, Outlived
  <2> QED
    BY <1>9, <1>10, <1>13, <2>1, <2>2, <2>3, <2>4, <2>5 DEF Promised
<1>14. CASE Look(u) /\ timers[u].pc = "claimed" /\ p \in alive /\ Listed(p) /\ timers'[u].pc = "found"
  <2>1. UNCHANGED <<listed, frozen, points, threads>>
    BY <1>14 DEF Look
  <2>2. Way(p)' /\ Way(p) /\ InTask(u)
    BY <1>2, <1>6, <1>14 DEF Way, InTask
  <2>3. Served(p)'
    BY <1>11, <1>14, <2>1, <2>2 DEF Served
  <2>4. Alone(p)'
    BY <1>2, <1>7, <1>11, <2>1, <2>2 DEF Promised, Alone
  <2>5. Outlived(p)'
    BY <1>1, <1>2, <1>6, <1>7, <1>11, <1>14, <2>1 DEF Promised, Outlived
  <2> QED
    BY <1>9, <1>10, <2>1, <2>2, <2>3, <2>4, <2>5 DEF Promised
<1>15. CASE Look(u) /\ timers[u].pc = "claimed" /\ ~(p \in alive /\ Listed(p)) /\ timers'[u].pc = "over"
  <2>1. UNCHANGED <<listed, frozen, points, threads>>
    BY <1>15 DEF Look
  <2>2. InTask(u) /\ ~InTask(u)'
    BY <1>6, <1>15 DEF InTask
  <2>3. Served(p)'
    BY <1>2, <1>6, <1>11, <1>15, <2>1 DEF Promised, Served
  <2>4. Alone(p)'
    BY <1>2, <1>7, <1>11, <1>15, <2>1 DEF Promised, Alone
  <2>5. Outlived(p)'
    BY <1>1, <1>2, <1>6, <1>7, <1>11, <1>15, <2>1 DEF Promised, Outlived
  <2> QED
    BY <1>9, <1>10, <2>1, <2>2, <2>3, <2>4, <2>5 DEF Promised
<1>16. CASE EraseFound(u) /\ timers[u].pc = "found" /\ timers'[u].pc = "off"
  <2>1. UNCHANGED <<frozen, points, threads>> /\ InTask(u)
    BY <1>16 DEF EraseFound, InTask
  <2>2. Listed(p) /\ (Once(p) => ~Listed(p)')
    BY <1>2, <1>16, FoundPlace, Off
  <2>3. Served(p)'
    BY <1>2, <1>6, <1>16 DEF Served
  <2>4. Alone(p)'
    BY <1>7, <2>2 DEF Promised, Alone
  <2>5. Outlived(p)'
    BY <1>1, <1>2, <1>6, <1>7, <1>16, <2>1, <2>2 DEF Promised, Outlived, Alone
  <2> QED
    BY <1>3, <1>8, <1>10, <2>1, <2>3, <2>4, <2>5 DEF Promised
<1>17. ASSUME timers[u].pc \in {"off", "arrived", "freed"}, timers'[u].pc \in {"arrived", "freed", "paid"},
              UNCHANGED <<listed, threads>>
       PROVE  /\ InTask(u) /\ Alone(p)' /\ Outlived(p)'
              /\ \A v \in Uids : timers[v].player = p => timers'[v].pc # "off"
  <2>1. InTask(u) /\ ~Way(p)
    BY <1>1, <1>2, <1>4, <1>17 DEF InTask, Way
  <2>2. HomeOnly(p) => ~Listed(p)
    BY <2>1 DEF Promised, Alone
  <2>3. Outlived(p)'
    BY <1>1, <1>2, <1>6, <1>7, <1>11, <1>17 DEF Promised, Outlived
  <2>4. \A v \in Uids : timers[v].player = p => timers'[v].pc # "off"
    BY <1>4, <1>6, <1>17, <2>1 DEF InTask
  <2> QED
    BY <1>7, <1>11, <1>17, <2>1, <2>2, <2>3, <2>4 DEF Alone
<1>18. CASE Arrive(u) /\ timers[u].pc = "off" /\ timers'[u].pc = "arrived"
  <2>1. UNCHANGED <<listed, points, threads>> /\ p \notin frozen'
    BY <1>18 DEF Arrive, DisableCharacter
  <2>2. Served(p)'
    BY <2>1 DEF Served
  <2> QED
    BY <1>3, <1>8, <1>10, <1>17, <1>18, <2>1, <2>2 DEF Promised
<1>19. ASSUME ~(\E v \in Uids : timers[v].player = p /\ timers[v].pc = "off"), ~Way(p), p \in frozen' => p \in frozen
       PROVE  Served(p)'
  BY <1>2, <1>19 DEF Promised, Served
<1>20. CASE \/ Release(u) /\ timers[u].pc = "arrived" /\ timers'[u].pc = "freed"
            \/ Pay(u) /\ timers[u].pc = "freed" /\ timers'[u].pc = "paid"
  <2>1. UNCHANGED <<listed, threads>> /\ (p \in frozen' => p \in frozen)
    BY <1>20 DEF Release, Pay, DisableMount
  <2>2. InTask(u) /\ Alone(p)' /\ Outlived(p)'
    BY <1>17, <1>20, <2>1
  <2>3. Served(p)'
    <3>1. ~Way(p) /\ ~(\E v \in Uids : timers[v].player = p /\ timers[v].pc = "off")
      BY <1>4, <1>20, <2>2 DEF Way, InTask
    <3> QED
      BY <1>19, <2>1, <3>1
  <2>4. Covered(p)'
    <3>1. CASE Release(u)
      BY <1>10, <2>1, <2>2, <3>1 DEF Release
    <3>2. CASE Pay(u) /\ timers'[u].pc = "paid"
      <4>1. /\ points'[p] \in {points[p], points[p] - (IF timers[u].kind = "home" THEN Fare ELSE 0)}
            /\ timers'[u].pc = "paid"
        BY <1>1, <1>2, <1>6, <1>20, <3>2 DEF Pay, Price
      <4>2. \A v \in Uids : timers[v].player = p => threads[p] # v /\ ~InTask(v)'
        BY <1>1, <1>2, <1>4, <1>6, <1>20, <2>2, <4>1 DEF InTask
      <4>3. p \notin spent => points'[p] >= 0
        BY <1>1, <1>2, <2>2, <4>1, TimersAssumption DEF Promised, Covered
      <4> QED
        BY <1>2, <1>3, <1>6, <2>1, <2>2, <4>2, <4>3 DEF Covered, Game
    <3> QED
      BY <1>20, <3>1, <3>2
  <2> QED
    BY <1>3, <1>8, <2>2, <2>3, <2>4 DEF Promised
<1> QED
  BY <1>12, <1>13, <1>14, <1>15, <1>16, <1>18, <1>20, TimerSteps DEF Advances

(* So does a step of the command or hook that is at a player. *)
LEMMA GamePromised ==
  ASSUME Bounds, Base, NEW p \in Players, Begin(p) \/ Proceed(p), ~raced', Promised(p)
  PROVE  Promised(p)'
<1>1. /\ threads \in [Players -> Indexes] /\ mount \in [Players -> Dinos \cup {NoDino}]
      /\ listed \in Seq(Players) /\ diedWith \subseteq Uids /\ p \notin Dinos \cup {NoDino}
      /\ Len(timers) + 1 # 0 /\ 0 \in Indexes /\ Len(listed) \in Nat
  BY Lengths, TimersAssumption DEF Others
<1>2. ~raced /\ \A u \in Uids : timers[u].player = p => ~InTask(u)
  BY GameIs DEF GameRace, Visits
<1>3. (game.player = p /\ game.pc # "idle" => p \in alive) /\ Idle.pc = "idle" /\ Idle.player # p
  BY TimersAssumption DEF Bounds, Turns, Idle
<1>4. ASSUME NEW label \in GameLabels
      PROVE  /\ Turn(p, label).pc = label /\ Turn(p, label).player = p /\ Turn(p, label).kind = "none"
             /\ [Turn(p, label) EXCEPT !.at = First(p)].pc = label
             /\ [Turn(p, label) EXCEPT !.at = First(p)].player = p
             /\ [Turn(p, label) EXCEPT !.at = First(p)].kind = "none"
  BY DEF Turn, Idle
<1>5. {"admitted", "started", "enlisted", "bound", "hit", "off", "struck", "freed", "dying", "fallen"} \subseteq GameLabels
  BY DEF GameLabels
<1>6. Way(p) <=> threads[p] # 0
  BY <1>2 DEF Way, InTask
<1>7. ASSUME UNCHANGED <<timers, threads>>
      PROVE  /\ Way(p)' <=> Way(p)
             /\ HomeOnly(p)' <=> HomeOnly(p)
             /\ Uids' = Uids /\ \A u : InTask(u)' <=> InTask(u)
  BY <1>7 DEF Way, HomeOnly, Uids, InTask
<1>8. UNCHANGED listed => (Listed(p)' <=> Listed(p)) /\ (Once(p) => Once(p)')
  BY DEF Listed, Once
<1>9. ~ \E u \in Uids : timers[u].player = p /\ timers[u].pc = "off"
  BY <1>2 DEF InTask
(* Most steps leave the list, the timers and their numbers alone. *)
<1>10. ASSUME UNCHANGED <<timers, threads, listed, diedWith, points>>, alive \subseteq alive',
              p \in alive' /\ p \in frozen' /\ game'.player # p => Listed(p) /\ threads[p] # 0,
              p \notin spent' => p \notin spent \/ points[p] >= Fare,
              Game(p, "admitted")' /\ game'.kind = "home" /\ p \notin spent' => points[p] >= Fare
       PROVE  Served(p)' /\ Alone(p)' /\ Outlived(p)' /\ Covered(p)'
  <2>1. Served(p)'
    BY <1>6, <1>7, <1>8, <1>10 DEF Served
  <2>2. Alone(p)'
    BY <1>7, <1>8, <1>10 DEF Promised, Alone
  <2>3. Outlived(p)'
    BY <1>7, <1>8, <1>10 DEF Promised, Outlived
  <2>4. Fare >= 0 /\ Fare \in Nat /\ points \in [Players -> Int]
    BY TimersAssumption, Lengths DEF Others
  <2>5. Covered(p)'
    <3>1. CASE p \notin spent
      BY <1>2, <1>7, <1>10, <2>4, <3>1 DEF Promised, Covered
    <3>2. CASE points[p] >= Fare
      BY <1>10, <2>4, <3>2 DEF Covered
    <3> QED
      BY <1>10, <3>1, <3>2 DEF Covered
  <2> QED
    BY <2>1, <2>2, <2>3, <2>5
<1>11. ASSUME NEW kind \in Kinds, Admit(p, kind) PROVE Promised(p)'
  <2>1. game' = [Turn(p, "admitted") EXCEPT !.kind = kind] /\ game'.pc = "admitted" /\ game'.player = p /\ game'.kind = kind
    BY <1>11 DEF Admit, Turn, Idle
  <2>2. Served(p)' /\ Alone(p)' /\ Outlived(p)' /\ Covered(p)'
    BY <1>10, <1>11, <2>1 DEF Admit
  <2>3. Stage(p)'
    BY <1>8, <1>11, <2>1 DEF Stage, Game, Admit
  <2> QED
    BY <2>2, <2>3 DEF Promised
<1>12. CASE Hit(p)
  <2>1. game'.pc = "hit" /\ game'.player = p
    BY <1>4, <1>5, <1>12 DEF Hit
  <2>2. Served(p)' /\ Alone(p)' /\ Outlived(p)' /\ Covered(p)'
    BY <1>10, <1>12, <2>1 DEF Hit, Game
  <2>3. Stage(p)'
    BY <2>1 DEF Stage, Game
  <2> QED
    BY <2>2, <2>3 DEF Promised
<1>13. CASE Fall(p)
  <2>1. game'.player = p /\ (game'.pc = "dying" \/ (game'.pc = "fallen" /\ ~Listed(p)))
    BY <1>4, <1>5, <1>13 DEF Fall
  <2>2. Served(p)' /\ Alone(p)' /\ Outlived(p)' /\ Covered(p)'
    BY <1>10, <1>13, <2>1 DEF Fall, Game
  <2>3. Stage(p)'
    BY <1>8, <1>13, <2>1 DEF Stage, Game, Fall
  <2> QED
    BY <2>2, <2>3 DEF Promised
<1>14. CASE Respawn(p) \/ \E d \in Dinos \cup {NoDino} : Ride(p, d)
  <2>1. game'.player # p /\ game.player # p
    BY <1>3, <1>14 DEF Respawn, Ride
  <2>2. Served(p)' /\ Alone(p)' /\ Outlived(p)' /\ Covered(p)'
    <3>1. UNCHANGED <<timers, threads, listed, diedWith, points, spent>> /\ alive \subseteq alive'
          /\ (p \in alive' /\ p \in frozen' => p \in alive \cap frozen)
      BY <1>14 DEF Respawn, Ride
    <3>2. p \in alive \cap frozen => Listed(p) /\ threads[p] # 0
      BY <1>6, <1>9, <2>1 DEF Promised, Served
    <3> QED
      BY <1>10, <2>1, <3>1, <3>2 DEF Game
  <2>3. Stage(p)'
    BY <2>1 DEF Stage, Game
  <2> QED
    BY <2>2, <2>3 DEF Promised
<1>15. CASE StartTimer(p)
  <2> DEFINE n == Len(timers) + 1
  <2>1. /\ Adds(n, p, game.kind) /\ threads'[p] = n /\ n # 0 /\ n \notin diedWith
        /\ UNCHANGED <<listed, frozen, alive, points, diedWith, spent>>
        /\ game'.player = p /\ game'.pc = "started"
        /\ Game(p, "admitted")
    BY <1>1, <1>4, <1>5, <1>15, Starting DEF StartTimer, Adds
  <2> HIDE DEF n
  <2>2. HomeOnly(p)' => HomeOnly(p) /\ game.kind = "home"
    BY <2>1 DEF HomeOnly, Adds
  <2>3. HomeOnly(p)' => ~Listed(p)'
    BY <1>8, <2>1, <2>2 DEF Promised, Stage
  <2>4. Served(p)' /\ Alone(p)'
    BY <2>1, <2>3 DEF Served, Alone
  <2>5. Outlived(p)'
    BY <1>1, <2>1, <2>2, <2>3 DEF Promised, Outlived, Adds
  <2>6. Covered(p)'
    <3>1. ASSUME NEW u \in Uids', timers'[u].player = p, timers'[u].kind = "home", threads'[p] = u \/ InTask(u)'
          PROVE  u = n /\ game.kind = "home"
      BY <1>2, <2>1, <3>1 DEF Adds, InTask
    <3> QED
      BY <2>1, <3>1 DEF Promised, Covered, Game
  <2>7. Stage(p)'
    BY <2>1, <2>3 DEF Stage, Game
  <2> QED
    BY <2>4, <2>5, <2>6, <2>7 DEF Promised
<1>16. CASE Enlist(p)
  <2>1. /\ UNCHANGED <<timers, threads, frozen, alive, points, diedWith, spent>>
        /\ game'.player = p /\ game'.pc = "enlisted" /\ Game(p, "started") /\ p \in alive
    BY <1>3, <1>4, <1>5, <1>16 DEF Enlist, Game
  <2>2. Listed(p)' /\ (~Listed(p) => Once(p)')
    <3>1. /\ Len(listed') = Len(listed) + 1 /\ listed'[Len(listed) + 1] = p
          /\ \A i \in 1..Len(listed) : listed'[i] = listed[i]
      BY <1>1, <1>16, AppendProperties DEF Enlist
    <3>2. Listed(p)'
      BY <1>1, <3>1 DEF Listed
    <3>3. ~Listed(p) => \A i \in 1..Len(listed') : listed'[i] = p => i = Len(listed) + 1
      BY <1>1, <3>1 DEF Listed
    <3> QED
      BY <3>2, <3>3 DEF Once
  <2>3. threads[p] # 0 /\ threads[p] \notin diedWith /\ (HomeOnly(p) => ~Listed(p))
    BY <2>1 DEF Promised, Stage
  <2>4. Served(p)' /\ Alone(p)'
    BY <1>6, <1>7, <2>1, <2>2, <2>3 DEF Served, Alone
  <2>5. Outlived(p)'
    BY <1>1, <1>2, <1>7, <2>1, <2>3 DEF Promised, Outlived, InTask
  <2>6. Covered(p)'
    BY <1>7, <2>1 DEF Promised, Covered, Game
  <2>7. Stage(p)'
    BY <2>1, <2>2, <2>3 DEF Stage, Game
  <2> QED
    BY <2>4, <2>5, <2>6, <2>7 DEF Promised
<1>17. CASE Bind(p)
  <2>1. game'.player = p /\ game'.pc = "bound" /\ Game(p, "enlisted") /\ p \in frozen'
    BY <1>4, <1>5, <1>17 DEF Bind, DisableCharacter
  <2>2. Served(p)' /\ Alone(p)' /\ Outlived(p)' /\ Covered(p)'
    BY <1>10, <1>17, <2>1 DEF Bind, Game
  <2>3. Stage(p)'
    BY <1>8, <1>17, <2>1 DEF Promised, Stage, Game, Bind
  <2> QED
    BY <2>2, <2>3 DEF Promised
<1>18. CASE BindMount(p)
  <2>1. game'.player # p /\ Game(p, "bound")
    BY <1>3, <1>18 DEF BindMount
  <2>2. Served(p)' /\ Alone(p)' /\ Outlived(p)' /\ Covered(p)'
    BY <1>10, <1>18, <2>1 DEF BindMount, Game, Promised, Stage
  <2>3. Stage(p)'
    BY <2>1 DEF Stage, Game
  <2> QED
    BY <2>2, <2>3 DEF Promised
<1>19. CASE TakeOff(p)
  <2>1. /\ UNCHANGED <<timers, threads, frozen, alive, points, diedWith, spent>>
        /\ game'.player = p /\ game'.pc \in {"off", "fallen"}
    BY <1>4, <1>5, <1>19 DEF TakeOff
  <2>2. Listed(p) /\ (Once(p) => ~Listed(p)')
    BY <1>2, <1>19, OffPlace, Off
  <2>3. HomeOnly(p)' => ~Listed(p)'
    BY <1>7, <2>1, <2>2 DEF Promised, Alone
  <2>4. Served(p)' /\ Alone(p)'
    BY <2>1, <2>3 DEF Served, Alone
  <2>5. Outlived(p)'
    BY <1>7, <2>1, <2>3 DEF Promised, Outlived
  <2>6. Covered(p)'
    BY <1>7, <2>1 DEF Promised, Covered, Game
  <2>7. Stage(p)'
    BY <2>1, <2>3 DEF Stage, Game
  <2> QED
    BY <2>4, <2>5, <2>6, <2>7 DEF Promised
<1>20. CASE Strike(p)
  <2>1. /\ UNCHANGED <<timers, listed, frozen, alive, points, diedWith, spent>> /\ threads'[p] = 0
        /\ game'.player = p /\ game'.pc = "struck" /\ Game(p, "off")
    BY <1>1, <1>4, <1>5, <1>20 DEF Strike
  <2>2. HomeOnly(p)' => HomeOnly(p) /\ ~Listed(p)'
    BY <1>8, <2>1 DEF Promised, Stage, HomeOnly, Uids
  <2>3. Served(p)' /\ Alone(p)'
    BY <2>1, <2>2 DEF Served, Alone
  <2>4. Outlived(p)'
    BY <2>1, <2>2 DEF Promised, Outlived
  <2>5. Covered(p)'
    BY <1>1, <1>2, <2>1, Lengths DEF Promised, Covered, Game, InTask, Uids
  <2>6. Stage(p)'
    BY <2>1 DEF Stage, Game
  <2> QED
    BY <2>3, <2>4, <2>5, <2>6 DEF Promised
<1>21. CASE Free(p)
  <2>1. game'.player = p /\ game'.pc = "freed" /\ p \notin frozen'
    BY <1>4, <1>5, <1>21 DEF Free, DisableCharacter
  <2>2. Served(p)' /\ Alone(p)' /\ Outlived(p)' /\ Covered(p)'
    BY <1>10, <1>21, <2>1 DEF Free, Game
  <2>3. Stage(p)'
    BY <2>1 DEF Stage, Game
  <2> QED
    BY <2>2, <2>3 DEF Promised
<1>22. CASE FreeMount(p)
  <2>1. game'.player # p /\ Game(p, "freed") /\ (p \in frozen' => p \in frozen)
    BY <1>3, <1>22 DEF FreeMount, DisableMount
  <2>2. Served(p)' /\ Alone(p)' /\ Outlived(p)' /\ Covered(p)'
    BY <1>10, <1>22, <2>1 DEF FreeMount, Game, Promised, Stage
  <2>3. Stage(p)'
    BY <2>1 DEF Stage, Game
  <2> QED
    BY <2>2, <2>3 DEF Promised
<1>23. CASE Die(p)
  <2>1. /\ UNCHANGED <<timers, threads, listed, points, spent>> /\ p \notin alive'
        /\ game'.player # p /\ Game(p, "fallen") /\ diedWith' = diedWith \cup Pending(p)
    BY <1>3, <1>23 DEF Die
  <2>2. HomeOnly(p) => ~Listed(p)
    BY <2>1 DEF Promised, Stage
  <2>3. Served(p)' /\ Alone(p)'
    BY <1>7, <1>8, <2>1, <2>2 DEF Served, Alone
  <2>4. Outlived(p)'
    BY <1>2, <1>7, <1>8, <2>1, <2>2 DEF Promised, Outlived, Pending, Has, InTask
  <2>5. Covered(p)'
    BY <1>7, <2>1 DEF Promised, Covered, Game
  <2>6. Stage(p)'
    BY <2>1 DEF Stage, Game
  <2> QED
    BY <2>3, <2>4, <2>5, <2>6 DEF Promised
<1> QED
  BY <1>11, <1>12, <1>13, <1>14, <1>15, <1>16, <1>17, <1>18, <1>19, <1>20, <1>21, <1>22, <1>23
     DEF Begin, Proceed

(* Every player, in every state before a race. *)
AllPromised == ~raced => \A p \in Players : Promised(p)

(* Every step keeps it: at the player the step is at, and at the others. *)
LEMMA NextPromised ==
  Bounds /\ Bounds' /\ Base /\ AllPromised /\ [Next]_vars => AllPromised'
<1> SUFFICES ASSUME Bounds, Bounds', Base, AllPromised, [Next]_vars, ~raced', NEW q \in Players
             PROVE  Promised(q)'
  BY DEF AllPromised
<1>1. ASSUME NEW p \in Players, Begin(p) \/ Proceed(p) PROVE Promised(q)'
  <2>1. ~raced
    BY <1>1, GameIs
  <2>2. Promised(q)
    BY <2>1 DEF AllPromised
  <2> QED
    BY <1>1, <2>2, GamePromised, GameElsewhere, Undisturbed
<1>2. ASSUME NEW u, Timer(u) PROVE Promised(q)'
  <2>1. ~raced
    BY <1>2, TimerSteps
  <2>2. Promised(q)
    BY <2>1 DEF AllPromised
  <2> QED
    BY <1>2, <2>2, TimerPromised, TimerElsewhere, Undisturbed
<1>3. ASSUME NEW p \in Players, Spend(p) PROVE Promised(q)'
  <2>1. /\ UNCHANGED <<listed, threads, timers, game, frozen, alive, diedWith, raced>>
        /\ q \notin spent' => q \notin spent /\ points'[q] = points[q]
    BY <1>3, Lengths DEF Spend, Others
  <2>2. Promised(q)
    BY <2>1 DEF AllPromised
  <2>3. Covered(q)'
    BY <2>1, <2>2 DEF Promised, Covered, Game, InTask, Uids
  <2>4. Served(q)' /\ Alone(q)' /\ Outlived(q)' /\ Stage(q)'
    BY <2>1, <2>2 DEF Promised, Served, Alone, Outlived, Stage, Way, Listed, Once, HomeOnly, Game, Uids
  <2> QED
    BY <2>3, <2>4 DEF Promised
<1>4. CASE UNCHANGED vars
  <2>1. Promised(q)
    BY <1>4 DEF vars, AllPromised
  <2> QED
    BY <1>4, <2>1 DEF vars, Promised, Served, Alone, Outlived, Covered, Stage, Way, Listed, Once,
                      HomeOnly, Game, InTask, Uids
<1> QED
  BY <1>1, <1>2, <1>3, <1>4 DEF Next

(* The invariant of the three parts of the argument. *)
LEMMA PromisesHold == Spec => [](Bounds /\ Base /\ AllPromised)
<1>1. Init => AllPromised
  <2> SUFFICES ASSUME Init, NEW p \in Players PROVE Promised(p)
    BY DEF AllPromised
  <2>1. /\ ~Listed(p) /\ Uids = {} /\ diedWith = {} /\ frozen = {} /\ game.pc = "idle"
    BY DEF Init, Listed, Uids, Idle
  <2>2. points[p] >= 0
    BY TimersAssumption DEF Init
  <2> QED
    BY <2>1, <2>2 DEF Promised, Served, Alone, Outlived, Covered, Stage, Game
<1> QED
  BY <1>1, BaseHolds, NextPromised, PTL DEF Spec

(* A timer that is on its way is pending. *)
LEMMA WayPending ==
  ASSUME Numbers, NEW p \in Players, Way(p)
  PROVE  Pending(p) # {}
BY DEF Way, Numbers, Pending, Has

(* A living player is frozen only while a timer is under way that will move it,
   and finds it listed until it has taken it off, or while a command or hook of
   that player runs: whatever calls a teleport off gives the input back. *)
THEOREM Frozen == Spec => []FrozenIsServed
<1>1. Bounds /\ Base /\ AllPromised => FrozenIsServed
  <2> SUFFICES ASSUME Bounds, Base, AllPromised, ~raced, NEW p \in alive \cap frozen, game.player # p
               PROVE  \E u \in Pending(p) : Listed(p) \/ timers[u].pc = "off"
    BY DEF FrozenIsServed
  <2>1. p \in Players /\ Served(p)
    BY Lengths DEF AllPromised, Promised, Others
  <2>2. CASE Way(p) /\ Listed(p)
    BY <2>1, <2>2, WayPending DEF Base
  <2>3. CASE \E u \in Uids : timers[u].player = p /\ timers[u].pc = "off"
    BY <2>3 DEF Pending
  <2> QED
    BY <2>1, <2>2, <2>3 DEF Served
<1> QED
  BY <1>1, PromisesHold, PTL

(* Who has used only /home is listed once, and only while a timer is under way:
   nobody is left on the list whom /home would refuse for ever. *)
THEOREM ListPending == Spec => []ListedIsPending
<1>1. Bounds /\ Base /\ AllPromised => ListedIsPending
  <2> SUFFICES ASSUME Bounds, Base, AllPromised, ~raced, NEW i \in 1..Len(listed), HomeOnly(listed[i])
               PROVE  Pending(listed[i]) # {} /\ \A j \in 1..Len(listed) : listed[i] = listed[j] => i = j
    BY DEF ListedIsPending
  <2>1. listed[i] \in Players /\ Listed(listed[i])
    BY Lengths DEF Listed
  <2>2. Way(listed[i]) /\ Once(listed[i])
    BY <2>1 DEF AllPromised, Promised, Alone
  <2> QED
    BY <2>1, <2>2, WayPending DEF Base, Once
<1> QED
  BY <1>1, PromisesHold, PTL

(* A request of /home its player died after does not move it once it has respawned:
   the Die hook takes the player off the list, and a new request gets a new number. *)
THEOREM Died == Spec => []DiedStays
<1>1. Bounds /\ AllPromised => DiedStays
  <2> SUFFICES ASSUME Bounds, AllPromised, ~raced, NEW u \in diedWith, HomeOnly(timers[u].player)
               PROVE  ~Moved(u)
    BY DEF DiedStays
  <2>1. timers[u].player \in Players
    BY Lengths
  <2> QED
    BY <2>1 DEF AllPromised, Promised, Outlived, Moved
<1> QED
  BY <1>1, PromisesHold, PTL

(* Home teleports alone overdraw nobody: what TpHome saw of the balance still
   covers the fare when it is spent unseen, since no other request of the player
   is charged in between. *)
THEOREM Fares == Spec => []FaresCovered
<1>1. AllPromised => FaresCovered
  BY DEF AllPromised, Promised, Covered, FaresCovered
<1> QED
  BY <1>1, PromisesHold, PTL

---------------------------------------------------------------------------
(* The dinos. *)

(* The rider d follows: frozen, or just being given back its input. *)
Follows(p, d) ==
  mount[p] = d /\ (p \in frozen \/ Game(p, "freed") \/ \E u \in Uids : At(u, "arrived") /\ timers[u].player = p)

(* Whose dino is about to be frozen is frozen. *)
Binding == ~raced => \A p \in Players : Game(p, "bound") => p \in frozen

(* A step of the game thread leaves no dino frozen under a rider that is not. *)
LEMMA GameFollows ==
  ASSUME Bounds, Base, MountsFollow, Binding, NEW p \in Players, Begin(p) \/ Proceed(p), ~raced',
         NEW d \in (frozen' \cap Dinos) \ left'
  PROVE  \E q \in alive' : Follows(q, d)'
<1>1. /\ threads \in [Players -> Indexes] /\ mount \in [Players -> Dinos \cup {NoDino}]
      /\ alive \subseteq Players /\ d \notin Players
  BY Lengths, TimersAssumption DEF Others
<1>2. ~raced /\ (game.player = p /\ game.pc # "idle" => p \in alive)
  BY GameIs DEF Bounds, Turns
<1>3. /\ Uids \subseteq Uids' /\ \A u \in Uids : timers'[u] = timers[u]
  <2>1. CASE StartTimer(p)
    BY <2>1, Starting DEF Adds
  <2>2. CASE UNCHANGED timers
    BY <2>2 DEF Uids
  <2> QED
    BY <2>1, <2>2, GameSteps
<1>4. CASE d \in frozen /\ d \notin left
  <2>1. PICK q \in alive : Follows(q, d)
    BY <1>2, <1>4 DEF MountsFollow, Follows
  <2>2. CASE q # p
    <3>1. q \in alive' /\ mount'[q] = mount[q] /\ (q \in frozen' <=> q \in frozen)
      BY <1>1, <2>2, TimersAssumption DEF Begin, Proceed, Admit, Hit, Fall, Respawn, Ride, StartTimer, Enlist, Bind,
              BindMount, TakeOff, Strike, Free, FreeMount, Die, DisableCharacter, DisableMount
    <3>2. ~Game(q, "freed")
      BY <1>1, <2>2, GameIs, TimersAssumption DEF Game
    <3> QED
      BY <1>3, <2>1, <3>1, <3>2 DEF Follows, At
  <2>3. CASE q = p
    <3>1. p \in alive /\ mount[p] = d
      BY <2>1, <2>3 DEF Follows
    <3>2. CASE (\E kind \in Kinds : Admit(p, kind)) \/ Hit(p) \/ Fall(p) \/ StartTimer(p) \/ Enlist(p)
               \/ Bind(p) \/ BindMount(p) \/ TakeOff(p) \/ Strike(p)
      <4>1. p \in alive' /\ mount'[p] = d /\ (p \in frozen => p \in frozen') /\ ~Game(p, "freed")
        BY <3>1, <3>2 DEF Admit, Hit, Fall, StartTimer, Enlist, Bind, BindMount, TakeOff, Strike,
                          DisableCharacter, DisableMount, Game, Idle
      <4> QED
        BY <1>3, <2>1, <2>3, <4>1 DEF Follows, At
    <3>3. CASE Free(p)
      <4>1. game'.pc = "freed" /\ game'.player = p
        BY <3>3 DEF Free, Turn, Idle
      <4> QED
        BY <3>1, <3>3, <4>1 DEF Free, Follows, Game
    <3>4. CASE FreeMount(p)
      BY <3>1, <3>4 DEF FreeMount, DisableMount
    <3>5. CASE Die(p) \/ Respawn(p) \/ \E e \in Dinos \cup {NoDino} : Ride(p, e)
      BY <1>4, <3>1, <3>5 DEF Die, Respawn, Ride, Leave
    <3> QED
      BY <3>2, <3>3, <3>4, <3>5 DEF Begin, Proceed
  <2> QED
    BY <2>2, <2>3
<1>5. CASE ~(d \in frozen /\ d \notin left)
  <2>1. BindMount(p) /\ mount[p] = d
    BY <1>1, <1>5 DEF Begin, Proceed, Admit, Hit, Fall, Respawn, Ride, StartTimer, Enlist, Bind, BindMount,
              TakeOff, Strike, Free, FreeMount, Die, DisableCharacter, DisableMount, Leave
  <2>2. p \in alive /\ p \in frozen
    BY <1>2, <2>1 DEF BindMount, Game, Binding
  <2>3. p \in alive' /\ p \in frozen' /\ mount'[p] = d
    BY <2>1, <2>2 DEF BindMount, DisableMount
  <2> QED
    BY <2>3 DEF Follows
<1> QED
  BY <1>4, <1>5

(* Nor does a step of a timer. *)
LEMMA TimerFollows ==
  ASSUME Bounds, Base, MountsFollow, NEW u, Timer(u), ~raced',
         NEW d \in (frozen' \cap Dinos) \ left'
  PROVE  \E q \in alive' : Follows(q, d)'
<1> DEFINE p == timers[u].player
<1>1. /\ mount \in [Players -> Dinos \cup {NoDino}] /\ alive \subseteq Players /\ d \notin Players
  BY Lengths, TimersAssumption DEF Others
<1>2. u \in Uids /\ p \in Players /\ ~raced /\ UNCHANGED <<game, mount, alive>>
  BY TimerSteps
<1>3. PICK l : /\ Advances(u, l)
               /\ l = "arrived" <=> Arrive(u)
               /\ timers[u].pc = "arrived" <=> Release(u)
  BY TimerSteps DEF Wake, Claim, Look, EraseFound, Arrive, Release, Pay, At
<1>4. d \in frozen /\ d \notin left
  BY <1>1, <1>2 DEF Timer, Wake, Claim, Look, EraseFound, Arrive, Release, Pay, DisableCharacter, DisableMount
<1>5. PICK q \in alive : Follows(q, d)
  BY <1>2, <1>4 DEF MountsFollow, Follows
<1>6. mount'[q] = d /\ q \in alive'
  BY <1>2, <1>5 DEF Follows
<1>7. ASSUME NEW v \in Uids, At(v, "arrived"), timers[v].player = q PROVE At(v, "arrived")' /\ timers'[v].player = q
  <2>1. v # u
    <3> SUFFICES ASSUME v = u PROVE FALSE
      OBVIOUS
    <3>1. Release(u) /\ p = q
      BY <1>3, <1>7 DEF At
    <3> QED
      BY <1>5, <3>1 DEF Release, DisableMount, Follows
  <2> QED
    BY <1>3, <1>7, <2>1 DEF At, Advances
<1>8. CASE q \in frozen
  <2>1. CASE Arrive(u) /\ p = q
    <3>1. At(u, "arrived")' /\ timers'[u].player = q /\ u \in Uids'
      BY <1>2, <1>3, <2>1 DEF Advances, At
    <3> QED
      BY <1>6, <3>1 DEF Follows
  <2>2. CASE ~(Arrive(u) /\ p = q)
    <3>1. q \in frozen'
      BY <1>1, <1>2, <1>8, <2>2, TimersAssumption
         DEF Timer, Wake, Claim, Look, EraseFound, Arrive, Release, Pay, DisableCharacter, DisableMount
    <3> QED
      BY <1>6, <3>1 DEF Follows
  <2> QED
    BY <2>1, <2>2
<1>9. CASE q \notin frozen
  <2>1. CASE Game(q, "freed")
    BY <1>2, <1>6, <2>1 DEF Follows, Game
  <2>2. CASE ~Game(q, "freed")
    <3>1. PICK v \in Uids : At(v, "arrived") /\ timers[v].player = q
      BY <1>5, <1>9, <2>2 DEF Follows
    <3>2. At(v, "arrived")' /\ timers'[v].player = q /\ v \in Uids'
      BY <1>3, <1>7, <3>1 DEF Advances
    <3> QED
      BY <1>6, <3>2 DEF Follows
  <2> QED
    BY <2>1, <2>2
<1> QED
  BY <1>8, <1>9

(* A dino is frozen only while its rider is, or is just being given back its
   input, unless the rider left it: both are frozen and freed through the rider. *)
THEOREM Mounts == Spec => []MountsFollow
<1>1. Init => MountsFollow
  BY DEF Init, MountsFollow
<1>2. AllPromised => Binding
  BY DEF AllPromised, Promised, Stage, Binding
<1>3. Bounds /\ Base /\ Binding /\ MountsFollow /\ [Next]_vars => MountsFollow'
  <2> SUFFICES ASSUME Bounds, Base, Binding, MountsFollow, [Next]_vars, ~raced',
                      NEW d \in (frozen' \cap Dinos) \ left'
               PROVE  \E q \in alive' : Follows(q, d)'
    BY DEF MountsFollow, Follows
  <2>1. ASSUME NEW p \in Players, Begin(p) \/ Proceed(p) PROVE \E q \in alive' : Follows(q, d)'
    BY <2>1, GameFollows
  <2>2. ASSUME NEW u, Timer(u) PROVE \E q \in alive' : Follows(q, d)'
    BY <2>2, TimerFollows
  <2>3. CASE UNCHANGED vars \/ \E p \in Players : Spend(p)
    <3>1. UNCHANGED <<timers, game, frozen, mount, alive, left, raced>>
      BY <2>3 DEF vars, Spend
    <3> QED
      BY <3>1 DEF MountsFollow, Follows, Game, At, Uids
  <2> QED
    BY <2>1, <2>2, <2>3 DEF Next
<1> QED
  BY <1>1, <1>2, <1>3, PromisesHold, PTL DEF Spec
=============================================================================
