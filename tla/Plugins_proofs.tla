-------------------------- MODULE Plugins_proofs --------------------------
(***************************************************************************)
(* What the plugins that keep to themselves promise, for any constants: of *)
(* each, an inductive invariant of its own variables, which the other      *)
(* plugins leave alone, and what follows from it both for the plugin by    *)
(* itself and for the behaviours of Plugins.                               *)
(***************************************************************************)
EXTENDS Plugins, SequenceTheorems, FiniteSetTheorems, TLAPS

(* Each plugin begins as its own module says. *)
LEMMA PluginsBegin == PluginsInit => NC!Init /\ TR!Init /\ TM!Init /\ SZ!Init
BY DEF PluginsInit

(* A plugin's variables change only by the steps of its own module, though *)
(* three of the plugins count their failures in one variable.              *)
LEMMA PluginsStep ==
  [PluginsNext]_only => [NC!Next]_nc /\ [TR!Next]_tr /\ [TM!Next]_tm /\ [SZ!Next]_sz
<1> SUFFICES ASSUME [PluginsNext]_only
             PROVE  [NC!Next]_nc /\ [TR!Next]_tr /\ [TM!Next]_tm /\ [SZ!Next]_sz
  OBVIOUS
<1>1. CASE OfCollision(NC!Next)
  BY <1>1 DEF OfCollision, Alone
<1>2. CASE OfRewards(TR!Next)
  BY <1>2 DEF OfRewards, Alone
<1>3. CASE OfMotd(TM!Next)
  BY <1>3 DEF OfMotd, Alone
<1>4. CASE OfZones(SZ!Next)
  BY <1>4 DEF OfZones, Alone
<1>5. CASE OfStructures(Next) \/ OfTasks(DT!Next)
  BY <1>5 DEF OfStructures, OfTasks
<1>6. CASE UNCHANGED only
  BY <1>6 DEF only, NC!vars, TR!vars, TM!vars, SZ!vars, nc, tr, tm, sz
<1> QED
  BY <1>1, <1>2, <1>3, <1>4, <1>5, <1>6 DEF PluginsNext

-----------------------------------------------------------------------------
(* NoCollision: whose row is neither unwritten nor unread is in the table,  *)
(* which is what a restart reads.                                           *)
BuildersInv ==
  /\ added \subseteq Players
  /\ added \ unsaved \subseteq allowed \cap table

(* A builder that was told it is added may build after any number of
   restarts, whichever rows could not be written or read. *)
THEOREM Added == (NC!Spec => []AddedStays) /\ (PluginsSpec => []AddedStays)
<1>1. NC!Init => BuildersInv
  BY DEF NC!Init, BuildersInv
<1>2. BuildersInv /\ [NC!Next]_nc => BuildersInv'
  <2> SUFFICES ASSUME BuildersInv, [NC!Next]_nc PROVE BuildersInv'
    OBVIOUS
  <2>1. ASSUME NEW b \in Players, NC!Add(b)
        PROVE  BuildersInv'
    BY <2>1 DEF NC!Add, BuildersInv
  <2>2. ASSUME NEW b \in Players, NC!Remove(b)
        PROVE  BuildersInv'
    BY <2>2 DEF NC!Remove, BuildersInv
  <2>3. CASE NC!Restart
    BY <2>3 DEF NC!Restart, BuildersInv
  <2>4. CASE UNCHANGED nc
    BY <2>4 DEF nc, BuildersInv
  <2> QED
    BY <2>1, <2>2, <2>3, <2>4 DEF NC!Next
<1>3. BuildersInv => AddedStays
  BY DEF BuildersInv, AddedStays, NC!AddedStays
<1>4. [NC!Next]_(NC!vars) => [NC!Next]_nc
  BY DEF NC!vars, nc
<1> QED
  BY <1>1, <1>2, <1>3, <1>4, PluginsBegin, PluginsStep, PTL
     DEF NC!Spec, PluginsSpec
-----------------------------------------------------------------------------
(***************************************************************************)
(* The timed rewards of ArkShop.  That two rewards are an interval apart   *)
(* is not inductive: logins and logouts come between.  The time since the  *)
(* last reward and the time to the next make up an interval at least,      *)
(* which is Elapsed.                                                       *)
(***************************************************************************)
RewardsTyped ==
  /\ connections \in [Players -> Nat]
  /\ known \subseteq Players
  /\ online \in [Players -> 0..Interval \cup {NoTask}]
  /\ since \in [Players -> 0..Interval \cup {NoTask}]

Elapsed ==
  \A p \in Players : online[p] # NoTask => since[p] # NoTask /\ since[p] + online[p] >= Interval

RewardsInv == RewardsTyped /\ OnlineOnly /\ Elapsed

(* Initial states satisfy the invariant: nobody has a task. *)
LEMMA RewardsInit == TR!Init => RewardsInv
BY RewardsAssumption DEF TR!Init, RewardsInv, RewardsTyped, OnlineOnly, TR!OnlineOnly, Elapsed

(* A task given to a player who has connected and has a row keeps the
   invariant, whether the task is new or was there. *)
LEMMA LoginInv ==
  ASSUME RewardsInv, NEW p \in Players, NEW login \in BOOLEAN, TR!HandleNewPlayer(p, login)
  PROVE  RewardsInv'
<1> USE RewardsAssumption DEF RewardsInv, RewardsTyped
<1>1. connections' \in [Players -> Nat]
  <2>1. connections[p] \in Nat
    OBVIOUS
  <2>2. connections' = [connections EXCEPT ![p] = @ + 1] \/ connections' = connections
    BY DEF TR!HandleNewPlayer
  <2> QED
    BY <2>1, <2>2
<1>2. connections'[p] > 0 /\ \A q \in Players \ {p} : connections'[q] = connections[q]
  BY DEF TR!HandleNewPlayer
<1>0. /\ since' \in [Players -> 0..Interval \cup {NoTask}] /\ since'[p] # NoTask
      /\ \A q \in Players : since[q] # NoTask => since'[q] = since[q]
  BY DEF TR!HandleNewPlayer
<1>3. CASE known' = known \cup {p} /\ TR!AddTask(p)
  <2>1. online' = [online EXCEPT ![p] = IF @ = NoTask THEN Interval ELSE @]
    BY <1>3 DEF TR!AddTask
  <2>2. online' \in [Players -> 0..Interval \cup {NoTask}]
    BY <2>1
  <2>3. OnlineOnly'
    BY <1>2, <1>3, <2>1 DEF OnlineOnly, TR!OnlineOnly
  <2>4. ASSUME NEW q \in Players, online'[q] # NoTask
        PROVE  since'[q] # NoTask /\ since'[q] + online'[q] >= Interval
    <3>1. CASE online[q] # NoTask
      <4>1. online'[q] = online[q] /\ since'[q] = since[q]
        BY <1>0, <2>1, <3>1 DEF Elapsed
      <4> QED
        BY <3>1, <4>1 DEF Elapsed
    <3>2. CASE online[q] = NoTask
      <4>1. q = p /\ online'[q] = Interval
        BY <2>1, <2>4, <3>2
      <4>2. since'[q] \in 0..Interval
        BY <1>0, <4>1
      <4> QED
        BY <4>1, <4>2
    <3> QED
      BY <3>1, <3>2
  <2> QED
    BY <1>0, <1>1, <1>3, <2>2, <2>3, <2>4 DEF Elapsed
<1>4. CASE UNCHANGED <<known, online>>
  <2>1. OnlineOnly'
    BY <1>2, <1>4 DEF OnlineOnly, TR!OnlineOnly
  <2>2. Elapsed'
    BY <1>0, <1>4 DEF Elapsed
  <2> QED
    BY <1>0, <1>1, <1>4, <2>1, <2>2
<1> QED
  BY <1>3, <1>4 DEF TR!HandleNewPlayer

(* Every step preserves the invariant. *)
LEMMA RewardsNext ==
  ASSUME RewardsInv, [TR!Next]_tr
  PROVE  RewardsInv'
<1> USE RewardsAssumption DEF RewardsInv, RewardsTyped
<1>1. ASSUME NEW p \in Players, TR!AuthPostSpawnInit(p)
      PROVE  RewardsInv'
  BY <1>1 DEF TR!AuthPostSpawnInit, OnlineOnly, TR!OnlineOnly, Elapsed
<1>2. ASSUME NEW p \in Players, TR!Logout(p)
      PROVE  RewardsInv'
  <2>1. connections[p] \in Nat /\ connections[p] > 0
    BY <1>2 DEF TR!Logout
  <2>2. connections' = [connections EXCEPT ![p] = @ - 1] /\ UNCHANGED <<known, since>>
    BY <1>2 DEF TR!Logout
  <2>3. online' = [online EXCEPT ![p] = NoTask]
    BY <1>2 DEF TR!Logout, TR!RemovePlayer
  <2>4. RewardsTyped'
    BY <2>1, <2>2, <2>3
  <2>5. OnlineOnly'
    BY <2>2, <2>3 DEF OnlineOnly, TR!OnlineOnly
  <2>6. Elapsed'
    BY <2>2, <2>3 DEF Elapsed
  <2> QED
    BY <2>4, <2>5, <2>6
<1>3. CASE TR!RewardTimer
  <2>1. RewardsTyped'
    BY <1>3 DEF TR!RewardTimer
  <2>2. OnlineOnly'
    BY <1>3 DEF TR!RewardTimer, OnlineOnly, TR!OnlineOnly, TR!Due
  <2>3. Elapsed'
    BY <1>3 DEF TR!RewardTimer, Elapsed
  <2> QED
    BY <2>1, <2>2, <2>3
<1>4. CASE TR!Tick
  <2>1. RewardsTyped'
    BY <1>4 DEF TR!Tick
  <2>2. OnlineOnly'
    BY <1>4 DEF TR!Tick, OnlineOnly, TR!OnlineOnly
  <2>3. Elapsed'
    BY <1>4 DEF TR!Tick, Elapsed
  <2> QED
    BY <2>1, <2>2, <2>3
<1>5. CASE UNCHANGED tr
  BY <1>5 DEF tr, OnlineOnly, TR!OnlineOnly, Elapsed
<1> QED
  BY <1>1, <1>2, <1>3, <1>4, <1>5, LoginInv DEF TR!Next

(* Rewards go to players that are connected and have an account, whatever
   order logins, logouts and lost connections come in. *)
THEOREM Online == (TR!Spec => []OnlineOnly) /\ (PluginsSpec => []OnlineOnly)
<1>1. TR!Init => RewardsInv
  BY RewardsInit
<1>2. RewardsInv /\ [TR!Next]_tr => RewardsInv'
  BY RewardsNext
<1>3. RewardsInv => OnlineOnly
  BY DEF RewardsInv
<1>4. [TR!Next]_(TR!vars) => [TR!Next]_tr
  BY DEF TR!vars, tr
<1> QED
  BY <1>1, <1>2, <1>3, <1>4, PluginsBegin, PluginsStep, PTL
     DEF TR!Spec, PluginsSpec

(* A player that is rewarded was last rewarded an interval ago. *)
LEMMA RewardSpaced ==
  ASSUME RewardsInv, NEW p \in Players, TR!Rewarded(p)
  PROVE  since[p] = Interval
<1>1. online[p] = 0 /\ online[p] # NoTask
  BY RewardsAssumption DEF TR!Rewarded, TR!Due
<1>2. since[p] + 0 >= Interval /\ since[p] # NoTask /\ since[p] \in 0..Interval
  BY <1>1 DEF RewardsInv, Elapsed, RewardsTyped
<1> QED
  BY <1>2, RewardsAssumption

(* Two rewards of a player are an interval apart, and the first an interval or more
   after its first login, however often it logs in and out. *)
THEOREM RewardsSpaced == (TR!Spec => Spaced) /\ (PluginsSpec => Spaced)
<1>1. TR!Init => RewardsInv
  BY RewardsInit
<1>2. RewardsInv /\ [TR!Next]_tr => RewardsInv'
  BY RewardsNext
<1>3. RewardsInv => [\A p \in Players : TR!Rewarded(p) => since[p] = Interval]_(TR!vars)
  BY RewardSpaced
<1>4. [TR!Next]_(TR!vars) => [TR!Next]_tr
  BY DEF TR!vars, tr
<1> QED
  BY <1>1, <1>2, <1>3, <1>4, PluginsBegin, PluginsStep, PTL
     DEF TR!Spec, PluginsSpec, Spaced, TR!Spaced
-----------------------------------------------------------------------------
(***************************************************************************)
(* TribeMotd.  A confirmation is kept because a tribe never has two rows,  *)
(* not even after a check that failed (OneRow); a player sees what was set *)
(* because, but for those of whom a check failed, rows and confirmations   *)
(* agree (Agreed).                                                         *)
(***************************************************************************)
MotdTyped ==
  /\ motd \in [TM!Owners -> Seq(Messages)]
  /\ member \in [Players -> Tribes \cup {NoTribe}]
  /\ told \in [TM!Owners -> Messages \cup {NoMessage}]
  /\ missed \subseteq TM!Owners

OneRow == \A t \in Tribes : Len(motd[t]) <= 1

(* The row and the confirmation of o are the same. *)
Same(o) == motd[o] = IF told[o] = NoMessage THEN <<>> ELSE <<told[o]>>

Agreed == \A o \in TM!Owners \ missed : Same(o)

MotdInv == MotdTyped /\ OneRow /\ ChangedIsKept /\ Agreed

(* Initial states satisfy the invariant: there are no rows. *)
LEMMA MotdInit == TM!Init => MotdInv
<1> SUFFICES ASSUME TM!Init PROVE MotdInv
  OBVIOUS
<1>1. <<>> \in Seq(Messages) /\ Len(<<>>) = 0
  OBVIOUS
<1>2. \A o \in TM!Owners : motd[o] = <<>> /\ told[o] = NoMessage
  BY DEF TM!Init
<1>3. MotdTyped
  BY <1>1 DEF TM!Init, MotdTyped
<1>4. OneRow /\ ChangedIsKept /\ Agreed
  BY <1>1, <1>2 DEF OneRow, ChangedIsKept, TM!ChangedIsKept, Agreed, Same, TM!Owners
<1> QED
  BY <1>3, <1>4 DEF MotdInv

(* An update makes every row of o the message, however many there are; of no
   rows it makes none, and of one row one. *)
LEMMA Updated ==
  ASSUME NEW s \in Seq(Messages), NEW m \in Messages
  PROVE  LET r == [i \in DOMAIN s |-> m] IN
         /\ r \in Seq(Messages) /\ Len(r) = Len(s)
         /\ Len(s) = 1 => r = <<m>>
OBVIOUS

(* An insert adds a row. *)
LEMMA Inserted ==
  ASSUME NEW s \in Seq(Messages), NEW m \in Messages
  PROVE  /\ Append(s, m) \in Seq(Messages)
         /\ s = <<>> => Append(s, m) = <<m>> /\ Len(Append(s, m)) = 1
<1>1. Append(s, m) \in Seq(Messages)
  OBVIOUS
<1>2. ASSUME s = <<>> PROVE Append(s, m) = <<m>>
  BY <1>2
<1>3. Len(<<m>>) = 1
  OBVIOUS
<1> QED
  BY <1>1, <1>2, <1>3

(* A sequence has no element if and only if its length is zero. *)
LEMMA NoRow ==
  ASSUME NEW s \in Seq(Messages)
  PROVE  /\ Len(s) \in Nat
         /\ s = <<>> <=> Len(s) = 0
         /\ \A m : s = <<m>> => Len(s) = 1
OBVIOUS

(* What a step does to the row and the confirmation of one owner decides the
   invariant, if it leaves those of the others alone. *)
LEMMA OneOwner ==
  ASSUME MotdInv, NEW o \in TM!Owners,
         NEW rows \in Seq(Messages), NEW said \in Messages \cup {NoMessage},
         motd' = [motd EXCEPT ![o] = rows], told' = [told EXCEPT ![o] = said],
         member' = member,
         missed' \subseteq TM!Owners, missed \ {o} \subseteq missed',
         o \in Tribes => /\ Len(rows) <= 1
                         /\ said # NoMessage => rows = <<said>>,
         o \notin missed' => rows = IF said = NoMessage THEN <<>> ELSE <<said>>
  PROVE  MotdInv'
<1> USE DEF MotdInv, MotdTyped
<1>1. MotdTyped'
  OBVIOUS
<1>2. /\ motd'[o] = rows /\ told'[o] = said
      /\ \A q \in TM!Owners \ {o} : motd'[q] = motd[q] /\ told'[q] = told[q]
  OBVIOUS
<1>3. OneRow' /\ ChangedIsKept'
  BY <1>2 DEF OneRow, ChangedIsKept, TM!ChangedIsKept, TM!Owners
<1>4. Agreed'
  <2> SUFFICES ASSUME NEW q \in TM!Owners, q \notin missed' PROVE Same(q)'
    BY DEF Agreed
  <2>1. CASE q = o
    BY <1>2, <2>1 DEF Same
  <2>2. CASE q # o
    <3>1. Same(q)
      BY <2>2 DEF Agreed
    <3> QED
      BY <1>2, <2>2, <3>1 DEF Same
  <2> QED
    BY <2>1, <2>2
<1> QED
  BY <1>1, <1>3, <1>4

(* Setting a message preserves the invariant. *)
LEMMA SetInv ==
  ASSUME MotdInv, NEW o \in TM!Owners, NEW m \in Messages, TM!Set(o, m)
  PROVE  MotdInv'
<1> USE DEF MotdTyped
<1>0. MotdTyped /\ OneRow /\ ChangedIsKept /\ Agreed
  BY DEF MotdInv
<1>1. motd[o] \in Seq(Messages) /\ Len(motd[o]) \in Nat
  BY <1>0
<1>2. PICK found \in BOOLEAN :
        /\ TM!Check(o, found)
        /\ IF ~found /\ TM!Refused(o) THEN UNCHANGED <<motd, told>> ELSE TM!Change(o, m, found)
        /\ missed' = IF ~found /\ TM!HasRow(o) THEN missed \cup {o} ELSE missed
  BY DEF TM!Set
<1>3. member' = member
  BY DEF TM!Set
<1>4. m # NoMessage
  BY MotdAssumption
<1>5. found => TM!HasRow(o)
  BY <1>2 DEF TM!Check
<1>6. CASE ~found /\ TM!Refused(o)
  <2>1. UNCHANGED <<motd, told, member>> /\ missed' = missed \cup {o}
    BY <1>2, <1>3, <1>6 DEF TM!Refused
  <2> QED
    BY <1>0, <2>1 DEF MotdInv, OneRow, ChangedIsKept, TM!ChangedIsKept, Agreed, Same
<1>7. CASE found
  <2> DEFINE rows == [i \in DOMAIN motd[o] |-> m]
  <2>1. rows \in Seq(Messages) /\ Len(rows) = Len(motd[o]) /\ (Len(motd[o]) = 1 => rows = <<m>>)
    BY <1>1, Updated
  <2>2. motd' = [motd EXCEPT ![o] = rows] /\ told' = [told EXCEPT ![o] = m] /\ missed' = missed
    BY <1>0, <1>2, <1>7 DEF TM!Change
  <2>3. Len(motd[o]) > 0
    BY <1>1, <1>5, <1>7, NoRow DEF TM!HasRow
  <2>4. o \in Tribes => Len(rows) <= 1 /\ rows = <<m>>
    <3>1. o \in Tribes => Len(motd[o]) <= 1
      BY <1>0 DEF OneRow
    <3> QED
      BY <1>1, <2>1, <2>3, <3>1
  <2>5. o \notin missed' => rows = <<m>>
    <3> SUFFICES ASSUME o \notin missed PROVE Len(motd[o]) = 1
      BY <2>1, <2>2
    <3>1. Same(o)
      BY <1>0 DEF Agreed
    <3>2. told[o] # NoMessage
      BY <1>5, <1>7, <3>1 DEF Same, TM!HasRow
    <3> QED
      BY <1>1, <3>1, <3>2, NoRow DEF Same
  <2> HIDE DEF rows
  <2>6. missed' \subseteq TM!Owners /\ missed \ {o} \subseteq missed'
    BY <1>0, <2>2
  <2> QED
    BY <1>3, <1>4, <2>1, <2>2, <2>4, <2>5, <2>6, OneOwner
<1>8. CASE ~found /\ ~TM!Refused(o)
  <2> DEFINE rows == Append(motd[o], m)
  <2>1. rows \in Seq(Messages) /\ (motd[o] = <<>> => rows = <<m>> /\ Len(rows) = 1)
    BY <1>1, Inserted
  <2>2. motd' = [motd EXCEPT ![o] = rows] /\ told' = [told EXCEPT ![o] = m]
    BY <1>0, <1>2, <1>8 DEF TM!Change
  <2>3. o \in Tribes => Len(rows) <= 1 /\ rows = <<m>>
    BY <1>8, <2>1 DEF TM!Refused, TM!HasRow
  <2>4. missed' \subseteq TM!Owners /\ missed \ {o} \subseteq missed'
    BY <1>0, <1>2
  <2>5. o \notin missed' => rows = <<m>>
    BY <1>2, <1>8, <2>1 DEF TM!HasRow
  <2> HIDE DEF rows
  <2> QED
    BY <1>3, <1>4, <2>1, <2>2, <2>3, <2>4, <2>5, OneOwner
<1> QED
  BY <1>6, <1>7, <1>8

(* Removing a message preserves the invariant. *)
LEMMA RemoveInv ==
  ASSUME MotdInv, NEW o \in TM!Owners, TM!Remove(o)
  PROVE  MotdInv'
<1>0. MotdTyped /\ OneRow /\ ChangedIsKept /\ Agreed
  BY DEF MotdInv
<1>1. motd[o] \in Seq(Messages) /\ Len(motd[o]) \in Nat
  BY <1>0 DEF MotdTyped
<1>2. PICK found \in BOOLEAN : TM!Check(o, found) /\ TM!Delete(o, found)
  BY DEF TM!Remove
<1>3. member' = member
  BY DEF TM!Remove
<1>4. <<>> \in Seq(Messages) /\ Len(<<>>) = 0
  OBVIOUS
<1>5. told' = [told EXCEPT ![o] = NoMessage]
  BY <1>2 DEF TM!Delete
<1>6. CASE found
  <2>1. motd' = [motd EXCEPT ![o] = <<>>] /\ missed' = missed \ {o}
    BY <1>2, <1>6 DEF TM!Delete
  <2> DEFINE rows == <<>>
  <2>2. rows \in Seq(Messages) /\ Len(rows) <= 1
    BY <1>4
  <2>3. missed' \subseteq TM!Owners /\ missed \ {o} \subseteq missed'
    BY <1>0, <2>1 DEF MotdTyped
  <2> HIDE DEF rows
  <2>4. motd' = [motd EXCEPT ![o] = rows]
    BY <2>1 DEF rows
  <2>5. rows = <<>>
    BY DEF rows
  <2> QED
    BY <1>3, <1>5, <2>2, <2>3, <2>4, <2>5, OneOwner
<1>7. CASE ~found
  <2>1. motd' = [motd EXCEPT ![o] = motd[o]]
    BY <1>0, <1>2, <1>7 DEF TM!Delete, MotdTyped
  <2>2. missed' = IF TM!HasRow(o) THEN missed \cup {o} ELSE missed
    BY <1>2, <1>7 DEF TM!Delete
  <2>3. missed' \subseteq TM!Owners /\ missed \ {o} \subseteq missed'
    BY <1>0, <2>2 DEF MotdTyped
  <2>4. o \notin missed' => motd[o] = <<>>
    BY <2>2 DEF TM!HasRow
  <2>5. o \in Tribes => Len(motd[o]) <= 1
    BY <1>0 DEF OneRow
  <2> QED
    BY <1>1, <1>3, <1>5, <2>1, <2>3, <2>4, <2>5, OneOwner
<1> QED
  BY <1>6, <1>7

(* Every step preserves the invariant. *)
LEMMA MotdNext ==
  ASSUME MotdInv, [TM!Next]_tm
  PROVE  MotdInv'
<1>1. ASSUME NEW p \in Players, NEW t \in Tribes \cup {NoTribe}, TM!Join(p, t)
      PROVE  MotdInv'
  BY <1>1 DEF TM!Join, MotdInv, MotdTyped, OneRow, ChangedIsKept, TM!ChangedIsKept, Agreed, Same
<1>2. CASE TM!WriteFails
  BY <1>2 DEF TM!WriteFails, MotdInv, MotdTyped, OneRow, ChangedIsKept, TM!ChangedIsKept, Agreed, Same
<1>3. CASE UNCHANGED tm
  BY <1>3 DEF tm, MotdInv, MotdTyped, OneRow, ChangedIsKept, TM!ChangedIsKept, Agreed, Same
<1> QED
  BY <1>1, <1>2, <1>3, SetInv, RemoveInv DEF TM!Next

(* The message a tribe was last confirmed to have is its only one, whatever
   checks and statements fail. *)
THEOREM Confirmed == (TM!Spec => []ChangedIsKept) /\ (PluginsSpec => []ChangedIsKept)
<1>1. TM!Init => MotdInv
  BY MotdInit
<1>2. MotdInv /\ [TM!Next]_tm => MotdInv'
  BY MotdNext
<1>3. MotdInv => ChangedIsKept
  BY DEF MotdInv
<1>4. [TM!Next]_(TM!vars) => [TM!Next]_tm
  BY DEF TM!vars, tm
<1> QED
  BY <1>1, <1>2, <1>3, <1>4, PluginsBegin, PluginsStep, PTL
     DEF TM!Spec, PluginsSpec

(* What is shown of an owner is its row, if row and confirmation agree. *)
LEMMA SameShown ==
  ASSUME MotdTyped, NEW o \in TM!Owners, Same(o)
  PROVE  /\ TM!HasRow(o) <=> told[o] # NoMessage
         /\ TM!Message(o) = told[o]
<1>1. CASE told[o] = NoMessage
  BY <1>1 DEF Same, TM!HasRow, TM!Message
<1>2. CASE told[o] # NoMessage
  <2>1. motd[o] = <<told[o]>>
    BY <1>2 DEF Same
  <2>2. motd[o] # <<>> /\ Len(motd[o]) = 1 /\ motd[o][1] = told[o]
    BY <2>1
  <2> QED
    BY <1>2, <2>2 DEF TM!HasRow, TM!Message
<1> QED
  BY <1>1, <1>2

(* A player sees the message last set for it or else for its tribe, unless
   the check of one of the two has failed. *)
THEOREM Seen == (TM!Spec => []SeesWhatWasSet) /\ (PluginsSpec => []SeesWhatWasSet)
<1>1. TM!Init => MotdInv
  BY MotdInit
<1>2. MotdInv /\ [TM!Next]_tm => MotdInv'
  BY MotdNext
<1>3. MotdInv => SeesWhatWasSet
  <2> SUFFICES ASSUME MotdInv, NEW p \in Players, {p, member[p]} \cap missed = {}
               PROVE  TM!Shown(p) = TM!Meant(p)
    BY DEF SeesWhatWasSet, TM!SeesWhatWasSet
  <2>1. MotdTyped /\ p \in TM!Owners /\ p \notin missed /\ Same(p)
    BY DEF MotdInv, Agreed, TM!Owners
  <2>2. member[p] \in Tribes => member[p] \in TM!Owners /\ Same(member[p])
    BY DEF MotdInv, Agreed, TM!Owners
  <2>3. (TM!HasRow(p) <=> told[p] # NoMessage) /\ TM!Message(p) = told[p]
    BY <2>1, SameShown
  <2>4. member[p] \in Tribes => TM!Message(member[p]) = told[member[p]]
    BY <2>1, <2>2, SameShown
  <2> QED
    BY <2>3, <2>4 DEF TM!Shown, TM!Meant
<1>4. [TM!Next]_(TM!vars) => [TM!Next]_tm
  BY DEF TM!vars, tm
<1> QED
  BY <1>1, <1>2, <1>3, <1>4, PluginsBegin, PluginsStep, PTL
     DEF TM!Spec, PluginsSpec
-----------------------------------------------------------------------------
(***************************************************************************)
(* SafeZone.  A reload takes zones away only by the array of names from    *)
(* the file, and what the array ever held is in "ever"; so the zones of    *)
(* other plugins stand.  The loop goes through the array by places: a name *)
(* whose zone it has not taken away yet has a place that is still to come, *)
(* or one nearer to the front than before (Reached).                       *)
(***************************************************************************)
Spheres == {"none", "live", "dead"}

ZonesTyped ==
  /\ file \in Seq(Names) /\ config \in Seq(Names) /\ listed \in Seq(Names)
  /\ zones \in [Names -> Spheres]
  /\ ever \subseteq Names /\ owed \subseteq Names /\ reloads \in Nat

ZonesInv == ZonesTyped /\ ZonesStand /\ SZ!ToSet(listed) \subseteq ever

(* k is the first place of n in q. *)
IsFirst(q, n, k) == k \in 1..Len(q) /\ q[k] = n /\ \A j \in 1..(k - 1) : q[j] # n

(* A set of places has a first one: the shortest interval that ends in it. *)
LEMMA Least ==
  ASSUME NEW S \in SUBSET Nat, S # {}
  PROVE  \E x \in S : \A y \in S : x <= y
<1> DEFINE T == {0..i : i \in S}
<1>1. T # {} /\ T \subseteq FiniteSubsetsOf(Nat)
  <2>1. ASSUME NEW i \in S PROVE IsFiniteSet(0..i) /\ 0..i \in SUBSET Nat
    <3>1. i \in Int /\ 0 \in Int
      OBVIOUS
    <3> QED
      BY <3>1, FS_Interval
  <2> QED
    BY <2>1 DEF FiniteSubsetsOf
<1>2. PICK t \in T : \A y \in T : ~ (<<y, t>> \in StrictSubsetOrdering(Nat))
  <2> HIDE DEF T
  <2> QED
    BY <1>1, FS_StrictSubsetOrderingWellFounded, WFMin
<1>3. PICK x \in S : t = 0..x
  OBVIOUS
<1>4. ASSUME NEW y \in S, y < x PROVE FALSE
  <2>1. 0..y \in SUBSET (0..x) /\ x \in 0..x /\ x \notin 0..y
    BY <1>4
  <2>2. 0..x \in SUBSET Nat /\ 0..y \in SUBSET Nat
    OBVIOUS
  <2>3. <<0..y, 0..x>> \in StrictSubsetOrdering(Nat)
    BY <2>1, <2>2 DEF StrictSubsetOrdering
  <2>4. 0..y \in T
    OBVIOUS
  <2> QED
    BY <1>2, <1>3, <2>3, <2>4
<1> QED
  BY <1>4

(* What holds of 0 and of each number after one it holds of, up to n. *)
LEMMA Induct ==
  ASSUME NEW n \in Nat, NEW S, 0 \in S, \A i \in 1..n : i - 1 \in S => i \in S
  PROVE  \A i \in 0..n : i \in S
<1> DEFINE Out == {i \in 0..n : i \notin S}
<1>1. SUFFICES ASSUME Out # {} PROVE FALSE
  OBVIOUS
<1>2. PICK x \in Out : \A y \in Out : x <= y
  <2>1. Out \in SUBSET Nat
    OBVIOUS
  <2> QED
    BY <1>1, <2>1, Least
<1>3. x # 0 /\ x \in 1..n /\ x - 1 \in 0..n
  OBVIOUS
<1> QED
  BY <1>2, <1>3

(* A name in a sequence has a first place there. *)
LEMMA HasFirst ==
  ASSUME NEW q \in Seq(Names), NEW n \in SZ!ToSet(q)
  PROVE  \E k : IsFirst(q, n, k)
<1> DEFINE I == {i \in 1..Len(q) : q[i] = n}
<1>1. I # {} /\ I \in SUBSET Nat
  BY DEF SZ!ToSet
<1>2. PICK k \in I : \A y \in I : k <= y
  BY <1>1, Least
<1>3. IsFirst(q, n, k)
  BY <1>2 DEF IsFirst
<1> QED
  BY <1>3

(* RemoveSingle takes the first place of a name out of a sequence. *)
LEMMA FirstRemoved ==
  ASSUME NEW q \in Seq(Names), NEW m, NEW k, IsFirst(q, m, k)
  PROVE  /\ SZ!RemoveFirst(q, m) \in Seq(Names)
         /\ Len(SZ!RemoveFirst(q, m)) = Len(q) - 1
         /\ \A i \in 1..(Len(q) - 1) :
              SZ!RemoveFirst(q, m)[i] = IF i < k THEN q[i] ELSE q[i + 1]
<1> DEFINE I == {i \in 1..Len(q) : q[i] = m}
<1>1. k \in I /\ \A y \in I : k <= y
  BY DEF IsFirst
<1>2. SZ!Min(I) = k
  <2>1. SZ!Min(I) \in I /\ \A y \in I : SZ!Min(I) <= y
    BY <1>1 DEF SZ!Min
  <2> QED
    BY <1>1, <2>1
<1>3. SZ!RemoveFirst(q, m) = SubSeq(q, 1, k - 1) \o SubSeq(q, k + 1, Len(q))
  BY <1>1, <1>2 DEF SZ!RemoveFirst, SZ!SelectInSeq, SZ!RemoveAt
<1>4. k \in 1..Len(q) /\ Len(q) \in Nat
  BY <1>1
<1> HIDE DEF I
<1> DEFINE a == SubSeq(q, 1, k - 1)
           b == SubSeq(q, k + 1, Len(q))
<1>5. a \in Seq(Names) /\ Len(a) = k - 1 /\ \A i \in 1..(k - 1) : a[i] = q[i]
  BY <1>4
<1>6. b \in Seq(Names) /\ Len(b) = Len(q) - k /\ \A i \in 1..(Len(q) - k) : b[i] = q[i + k]
  BY <1>4
<1> HIDE DEF a, b
<1>7. /\ a \o b \in Seq(Names) /\ Len(a \o b) = Len(q) - 1
      /\ \A i \in 1..(Len(q) - 1) :
           (a \o b)[i] = IF i <= k - 1 THEN a[i] ELSE b[i - (k - 1)]
  <2>1. /\ a \o b \in Seq(Names) /\ Len(a \o b) = Len(a) + Len(b)
        /\ \A i \in 1..(Len(a) + Len(b)) :
             (a \o b)[i] = IF i <= Len(a) THEN a[i] ELSE b[i - Len(a)]
    BY <1>5, <1>6, ConcatProperties
  <2>2. Len(a) + Len(b) = Len(q) - 1
    BY <1>4, <1>5, <1>6
  <2> QED
    BY <1>5, <2>1, <2>2
<1>8. ASSUME NEW i \in 1..(Len(q) - 1)
      PROVE  (a \o b)[i] = IF i < k THEN q[i] ELSE q[i + 1]
  <2> i \in Int /\ k \in Int
    BY <1>4
  <2>1. CASE i < k
    BY <1>4, <1>5, <1>7, <2>1
  <2>2. CASE ~(i < k)
    <3>1. i - (k - 1) \in 1..(Len(q) - k) /\ (i - (k - 1)) + k = i + 1
      BY <1>4, <2>2
    <3> QED
      BY <1>4, <1>6, <1>7, <2>2, <3>1
  <2> QED
    BY <2>1, <2>2
<1> QED
  BY <1>3, <1>7, <1>8 DEF a, b

(* The loop's states: each is the one before it after a visit. *)
LEMMA Visits ==
  ASSUME NEW stale, Len(listed) \in Nat
  PROVE  /\ SZ!Visited(stale)[0] = [zones |-> zones, listed |-> listed]
         /\ \A i \in 1..Len(listed) :
              SZ!Visited(stale)[i] = SZ!Visit(SZ!Visited(stale)[i - 1], i, stale)
<1> DEFINE begin == [zones |-> zones, listed |-> listed]
           After(g, i) == IF i = 0 THEN begin ELSE SZ!Visit(g[i - 1], i, stale)
           Runs(g, n) == g = [i \in 0..n |-> After(g, i)]
           S == {n \in Nat : \E g : Runs(g, n)}
<1>1. SZ!Visited(stale) = CHOOSE g : Runs(g, Len(listed))
  BY DEF SZ!Visited
<1> HIDE DEF begin
<1>2. 0 \in S
  <2>1. Runs([i \in {0} |-> begin], 0)
    OBVIOUS
  <2> QED
    BY <2>1
<1>3. ASSUME NEW n \in 1..Len(listed), n - 1 \in S PROVE n \in S
  <2>1. PICK g : Runs(g, n - 1)
    BY <1>3
  <2> DEFINE h == [i \in 0..n |-> IF i = n THEN SZ!Visit(g[n - 1], n, stale) ELSE g[i]]
  <2>2. ASSUME NEW i \in 0..n PROVE h[i] = After(h, i)
    <3>1. CASE i = n
      <4>1. n - 1 \in 0..n /\ n - 1 # n /\ n # 0
        OBVIOUS
      <4> QED
        BY <3>1, <4>1
    <3>2. CASE i # n
      <4>1. i \in 0..(n - 1) /\ (i # 0 => i - 1 \in 0..n /\ i - 1 # n)
        BY <3>2
      <4>2. g[i] = After(g, i)
        BY <2>1, <4>1
      <4>3. h[i] = g[i] /\ (i # 0 => h[i - 1] = g[i - 1])
        BY <3>2, <4>1
      <4> QED
        BY <4>2, <4>3
    <3> QED
      BY <3>1, <3>2
  <2>3. Runs(h, n)
    <3> HIDE DEF After
    <3>1. h = [i \in 0..n |-> h[i]]
      OBVIOUS
    <3> QED
      BY <2>2, <3>1
  <2>4. n \in Nat /\ \E f : Runs(f, n)
    <3> HIDE DEF Runs, h
    <3> QED
      BY <2>3
  <2> QED
    BY <2>4
<1>4. \E g : Runs(g, Len(listed))
  <2> HIDE DEF S
  <2>1. \A n \in 1..Len(listed) : n - 1 \in S => n \in S
    BY <1>3
  <2>2. \A n \in 0..Len(listed) : n \in S
    BY <1>2, <2>1, Induct
  <2>3. Len(listed) \in S
    BY <2>2
  <2> QED
    BY <2>3 DEF S
<1>5. Runs(SZ!Visited(stale), Len(listed))
  <2> HIDE DEF Runs
  <2> QED
    BY <1>1, <1>4
<1> QED
  <2>1. ASSUME NEW i \in 0..Len(listed) PROVE SZ!Visited(stale)[i] = After(SZ!Visited(stale), i)
    BY <1>5
  <2>2. SZ!Visited(stale)[0] = begin
    BY <2>1
  <2>3. ASSUME NEW i \in 1..Len(listed)
        PROVE  SZ!Visited(stale)[i] = SZ!Visit(SZ!Visited(stale)[i - 1], i, stale)
    BY <2>1
  <2> QED
    BY <2>2, <2>3 DEF begin

(* A state the loop may be in: zones are gone, none is new, and those of    *)
(* names that are not in the array are there.                               *)
Part(s) ==
  /\ s.zones \in [Names -> Spheres] /\ s.listed \in Seq(Names)
  /\ Len(s.listed) <= Len(listed) /\ SZ!ToSet(s.listed) \subseteq SZ!ToSet(listed)
  /\ \A n \in Names : /\ s.zones[n] \in {"none", zones[n]}
                      /\ n \notin SZ!ToSet(listed) => s.zones[n] = zones[n]

(* After i visits a name that still has a zone is at a place the loop has   *)
(* not visited, or has moved.                                               *)
Nearer(s, i) ==
  \A n \in Names : \A f : IsFirst(listed, n, f) /\ s.zones[n] # "none" =>
    \E k : IsFirst(s.listed, n, k) /\ k <= f /\ (i < k \/ k < f)

(* The removal of a zone leaves the others. *)
LEMMA RemovedZones ==
  ASSUME NEW s, s.zones \in [Names -> Spheres], NEW m, NEW n \in Names
  PROVE  SZ!RemoveSafeZone(s, m).zones[n] \in {"none", s.zones[n]}
BY DEF SZ!RemoveSafeZone

(* From s to t the name m was taken out, and those behind it moved. *)
Moved(s, t, m) ==
  \A n \in Names : \A k : IsFirst(s.listed, n, k) /\ t.zones[n] # "none" =>
    \E l \in {k - 1, k} :
      /\ IsFirst(t.listed, n, l)
      /\ s.zones[m] # "none" /\ (\E j \in 1..(k - 1) : s.listed[j] = m) => l = k - 1

(* The removal of a zone moves the names behind it by one place. *)
LEMMA RemoveOne ==
  ASSUME ZonesTyped, NEW s, Part(s), NEW m \in SZ!ToSet(listed)
  PROVE  /\ Part(SZ!RemoveSafeZone(s, m))
         /\ SZ!RemoveSafeZone(s, m).zones[m] = "none"
         /\ Moved(s, SZ!RemoveSafeZone(s, m), m)
<1> DEFINE t == SZ!RemoveSafeZone(s, m)
<1> USE DEF Part, ZonesTyped, Moved
<1>1. m \in Names
  BY DEF SZ!ToSet
<1>2. CASE s.zones[m] = "none"
  <2>1. t = s
    BY <1>2 DEF SZ!RemoveSafeZone
  <2> HIDE DEF t
  <2>2. Part(t) /\ t.zones[m] = "none"
    BY <1>2, <2>1
  <2>3. ASSUME NEW n \in Names, NEW k, IsFirst(s.listed, n, k), t.zones[n] # "none"
        PROVE  /\ s.zones[n] # "none"
               /\ \E l \in {k - 1, k} : IsFirst(t.listed, n, l)
    BY <2>1, <2>3
  <2> QED
    BY <1>2, <2>2, <2>3 DEF t
<1>3. CASE s.zones[m] # "none"
  <2> DEFINE r == SZ!RemoveFirst(s.listed, m)
  <2>1. t.zones = [s.zones EXCEPT ![m] = "none"] /\ t.listed = r
    BY <1>3 DEF SZ!RemoveSafeZone
  <2> HIDE DEF t
  <2>2. /\ t.zones \in [Names -> Spheres] /\ t.zones[m] = "none"
        /\ \A n \in Names : n # m => t.zones[n] = s.zones[n]
    BY <1>1, <2>1 DEF Spheres
  <2>3. Len(s.listed) \in Nat /\ \A n \in Names : \A k : IsFirst(s.listed, n, k) => k \in 1..Len(s.listed)
    BY DEF IsFirst
  <2>4. CASE m \notin SZ!ToSet(s.listed)
    <3>1. r = s.listed /\ \A j \in 1..Len(s.listed) : s.listed[j] # m
      BY <2>4 DEF SZ!RemoveFirst, SZ!ToSet
    <3> HIDE DEF r
    <3>2. Part(t)
      BY <2>1, <2>2, <3>1
    <3>3. ASSUME NEW n \in Names, NEW k, IsFirst(s.listed, n, k), t.zones[n] # "none"
          PROVE  /\ s.zones[n] # "none" /\ IsFirst(t.listed, n, k)
                 /\ ~ \E j \in 1..(k - 1) : s.listed[j] = m
      BY <2>1, <2>2, <2>3, <3>1, <3>3
    <3> QED
      BY <2>2, <3>2, <3>3 DEF t
  <2>5. CASE m \in SZ!ToSet(s.listed)
    <3>1. PICK f : IsFirst(s.listed, m, f)
      BY <2>5, HasFirst
    <3>2. /\ r \in Seq(Names) /\ Len(r) = Len(s.listed) - 1
          /\ \A i \in 1..(Len(s.listed) - 1) : r[i] = IF i < f THEN s.listed[i] ELSE s.listed[i + 1]
      BY <3>1, FirstRemoved
    <3> HIDE DEF r
    <3>3. SZ!ToSet(r) \subseteq SZ!ToSet(s.listed)
      <4>1. ASSUME NEW i \in 1..Len(r) PROVE r[i] \in SZ!ToSet(s.listed)
        <5>1. i \in 1..(Len(s.listed) - 1)
          BY <3>2
        <5>2. r[i] = s.listed[i] \/ r[i] = s.listed[i + 1]
          BY <3>2, <5>1
        <5>3. i \in 1..Len(s.listed) /\ i + 1 \in 1..Len(s.listed)
          BY <2>3, <5>1
        <5> QED
          BY <5>2, <5>3 DEF SZ!ToSet
      <4> QED
        BY <3>2, <4>1 DEF SZ!ToSet
    <3>4. Part(t)
      BY <2>1, <2>2, <2>3, <3>2, <3>3
    <3>5. ASSUME NEW n \in Names, NEW k, IsFirst(s.listed, n, k), t.zones[n] # "none"
          PROVE  /\ s.zones[n] # "none"
                 /\ \E l \in {k - 1, k} :
                      /\ IsFirst(t.listed, n, l)
                      /\ (\E j \in 1..(k - 1) : s.listed[j] = m) => l = k - 1
      <4>1. n # m /\ k # f /\ s.zones[n] # "none"
        BY <2>2, <3>1, <3>5 DEF IsFirst
      <4>2. k \in 1..Len(s.listed) /\ f \in 1..Len(s.listed)
        BY <3>1, <3>5 DEF IsFirst
      <4>3. CASE f < k
        <5>1. k - 1 \in 1..Len(r) /\ r[k - 1] = n
          <6>1. k - 1 \in 1..(Len(s.listed) - 1) /\ ~(k - 1 < f) /\ (k - 1) + 1 = k
            BY <2>3, <4>2, <4>3
          <6>2. r[k - 1] = s.listed[(k - 1) + 1]
            BY <3>2, <6>1
          <6> QED
            BY <3>2, <3>5, <6>1, <6>2 DEF IsFirst
        <5>2. ASSUME NEW j \in 1..(k - 2) PROVE r[j] # n
          <6>1. j \in 1..(Len(s.listed) - 1) /\ j \in 1..(k - 1) /\ j + 1 \in 1..(k - 1)
            BY <2>3, <4>2
          <6>2. r[j] = s.listed[j] \/ r[j] = s.listed[j + 1]
            BY <3>2, <6>1
          <6> QED
            BY <3>5, <6>1, <6>2 DEF IsFirst
        <5>3. IsFirst(t.listed, n, k - 1)
          BY <2>1, <4>2, <5>1, <5>2 DEF IsFirst
        <5> QED
          BY <4>1, <5>3
      <4>4. CASE k < f
        <5>1. k \in 1..Len(r) /\ r[k] = n
          <6>1. k \in 1..(Len(s.listed) - 1)
            BY <2>3, <4>2, <4>4
          <6>2. r[k] = s.listed[k]
            BY <3>2, <4>4, <6>1
          <6> QED
            BY <3>2, <3>5, <6>1, <6>2 DEF IsFirst
        <5>2. ASSUME NEW j \in 1..(k - 1) PROVE r[j] # n /\ s.listed[j] # m
          <6>1. j \in 1..(Len(s.listed) - 1) /\ j < f /\ j \in 1..(f - 1)
            BY <2>3, <4>2, <4>4
          <6>2. r[j] = s.listed[j]
            BY <3>2, <6>1
          <6> QED
            BY <3>1, <3>5, <6>1, <6>2 DEF IsFirst
        <5>3. IsFirst(t.listed, n, k)
          BY <2>1, <5>1, <5>2 DEF IsFirst
        <5> QED
          BY <4>1, <5>2, <5>3
      <4> QED
        BY <4>1, <4>2, <4>3, <4>4
    <3> QED
      BY <2>2, <3>4, <3>5 DEF t
  <2> QED
    BY <2>4, <2>5
<1> QED
  BY <1>2, <1>3

(* A visit keeps that up: the name it finds has its zone taken away, and    *)
(* those behind that name move.                                             *)
LEMMA VisitOne ==
  ASSUME ZonesTyped, NEW stale, \A j \in DOMAIN stale : stale[j] \in SZ!ToSet(listed),
         NEW i \in 1..Len(listed), NEW s, Part(s), Nearer(s, i - 1)
  PROVE  Part(SZ!Visit(s, i, stale)) /\ Nearer(SZ!Visit(s, i, stale), i)
<1> DEFINE t == SZ!Visit(s, i, stale)
<1>0. Len(s.listed) \in Nat /\ i \in Nat
  BY DEF Part
<1>1. CASE i <= Len(s.listed)
  <2> DEFINE m == s.listed[i]
  <2>1. t = SZ!RemoveSafeZone(s, m)
    BY <1>1 DEF SZ!Visit
  <2>2. i \in 1..Len(s.listed)
    BY <1>0, <1>1
  <2>3. m \in SZ!ToSet(listed)
    <3>1. m \in SZ!ToSet(s.listed)
      BY <2>2 DEF SZ!ToSet, Part
    <3> QED
      BY <3>1 DEF Part
  <2> HIDE DEF t, m
  <2>4. Part(t) /\ t.zones[m] = "none"
    BY <2>1, <2>3, RemoveOne
  <2>5. ASSUME NEW n \in Names, NEW f, IsFirst(listed, n, f), t.zones[n] # "none"
        PROVE  \E k : IsFirst(t.listed, n, k) /\ k <= f /\ (i < k \/ k < f)
    <3>1. ASSUME NEW k, IsFirst(s.listed, n, k)
          PROVE  \E l \in {k - 1, k} :
                   /\ IsFirst(t.listed, n, l)
                   /\ s.zones[m] # "none" /\ (\E j \in 1..(k - 1) : s.listed[j] = m) => l = k - 1
      <4>1. Moved(s, t, m)
        BY <2>1, <2>3, RemoveOne
      <4> QED
        BY <2>5, <3>1, <4>1 DEF Moved
    <3>2. s.zones[n] # "none"
      <4>1. t.zones[n] \in {"none", s.zones[n]}
        BY <2>1, <2>3, RemovedZones DEF Part
      <4> QED
        BY <2>5, <4>1
    <3>3. PICK k : IsFirst(s.listed, n, k) /\ k <= f /\ (i - 1 < k \/ k < f)
      BY <2>5, <3>2 DEF Nearer
    <3>4. PICK l \in {k - 1, k} :
            /\ IsFirst(t.listed, n, l)
            /\ s.zones[m] # "none" /\ (\E j \in 1..(k - 1) : s.listed[j] = m) => l = k - 1
      BY <3>1, <3>3
    <3>5. k \in 1..Len(s.listed) /\ f \in 1..Len(listed) /\ s.listed[k] = n
      BY <2>5, <3>3 DEF IsFirst
    <3>6. k \in Int /\ f \in Int /\ l \in Int /\ i \in Int
      BY <3>5
    <3>7. CASE k < f
      BY <3>4, <3>6, <3>7
    <3>8. CASE ~(k < f)
      <4>1. i <= k /\ m = s.listed[i]
        BY <3>3, <3>6, <3>8 DEF m
      <4>2. k # i
        BY <2>4, <2>5, <3>5, <4>1
      <4>3. i \in 1..(k - 1)
        BY <3>6, <4>1, <4>2
      <4>4. s.zones[m] # "none" => l = k - 1
        BY <3>4, <4>1, <4>3
      <4>5. s.zones[m] = "none" => t = s
        BY <2>1 DEF SZ!RemoveSafeZone
      <4>6. CASE s.zones[m] = "none"
        BY <3>3, <3>6, <4>1, <4>2, <4>5, <4>6
      <4>7. CASE s.zones[m] # "none"
        BY <3>3, <3>4, <3>6, <4>4, <4>7
      <4> QED
        BY <4>6, <4>7
    <3> QED
      BY <3>7, <3>8
  <2> QED
    BY <2>4, <2>5 DEF Nearer, t, m
<1>2. CASE ~(i <= Len(s.listed))
  <2>1. ASSUME NEW n \in Names, NEW f, IsFirst(listed, n, f), s.zones[n] # "none"
        PROVE  \E k : IsFirst(s.listed, n, k) /\ k < f
    <3>1. PICK k : IsFirst(s.listed, n, k) /\ k <= f /\ (i - 1 < k \/ k < f)
      BY <2>1 DEF Nearer
    <3>2. k \in 1..Len(s.listed)
      BY <3>1 DEF IsFirst
    <3> QED
      BY <1>0, <1>2, <3>1, <3>2
  <2>2. CASE i \in DOMAIN stale
    <3>1. t = SZ!RemoveSafeZone(s, stale[i]) /\ stale[i] \in SZ!ToSet(listed)
      BY <1>2, <2>2 DEF SZ!Visit
    <3> HIDE DEF t
    <3>2. Part(t)
      BY <3>1, RemoveOne
    <3>3. ASSUME NEW n \in Names, NEW f, IsFirst(listed, n, f), t.zones[n] # "none"
          PROVE  \E k : IsFirst(t.listed, n, k) /\ k <= f /\ (i < k \/ k < f)
      <4>1. s.zones[n] # "none"
        <5>1. t.zones[n] \in {"none", s.zones[n]}
          BY <3>1, RemovedZones DEF Part
        <5> QED
          BY <3>3, <5>1
      <4>2. PICK k : IsFirst(s.listed, n, k) /\ k < f
        BY <2>1, <3>3, <4>1
      <4>3. PICK l \in {k - 1, k} : IsFirst(t.listed, n, l)
        <5>1. Moved(s, t, stale[i])
          BY <3>1, RemoveOne
        <5> QED
          BY <3>3, <4>2, <5>1 DEF Moved
      <4>4. k \in Int /\ f \in Int
        BY <3>3, <4>2 DEF IsFirst
      <4> QED
        BY <4>2, <4>3, <4>4
    <3> QED
      BY <3>2, <3>3 DEF Nearer, t
  <2>3. CASE i \notin DOMAIN stale
    <3>1. t = s
      BY <1>2, <2>3 DEF SZ!Visit
    <3>2. ASSUME NEW n \in Names, NEW f, IsFirst(listed, n, f), s.zones[n] # "none"
          PROVE  \E k : IsFirst(s.listed, n, k) /\ k <= f /\ (i < k \/ k < f)
      <4>1. PICK k : IsFirst(s.listed, n, k) /\ k < f
        BY <2>1, <3>2
      <4>2. k \in Int /\ f \in Int
        BY <3>2, <4>1 DEF IsFirst
      <4> QED
        BY <4>1, <4>2
    <3> HIDE DEF t
    <3> QED
      BY <3>1, <3>2 DEF Nearer, t
  <2> QED
    BY <2>2, <2>3
<1> QED
  BY <1>1, <1>2

(* The loop ends with every name that still has a zone nearer to the front. *)
LEMMA LoopEnds ==
  ASSUME ZonesTyped, NEW stale \in SZ!Stale
  PROVE  /\ Part(SZ!Visited(stale)[Len(listed)])
         /\ Nearer(SZ!Visited(stale)[Len(listed)], Len(listed))
<1> DEFINE at(i) == SZ!Visited(stale)[i]
           S == {i \in 0..Len(listed) : Part(at(i)) /\ Nearer(at(i), i)}
<1>1. Len(listed) \in Nat
  BY DEF ZonesTyped
<1>2. \A j \in DOMAIN stale : stale[j] \in SZ!ToSet(listed)
  BY DEF SZ!Stale
<1>3. 0 \in S
  <2>1. at(0) = [zones |-> zones, listed |-> listed]
    BY <1>1, Visits
  <2>2. Part(at(0))
    BY <1>1, <2>1 DEF Part, ZonesTyped
  <2>3. Nearer(at(0), 0)
    <3>1. ASSUME NEW n \in Names, NEW f, IsFirst(listed, n, f)
          PROVE  f <= f /\ 0 < f
      BY <3>1 DEF IsFirst
    <3> QED
      BY <2>1, <3>1 DEF Nearer
  <2> QED
    BY <1>1, <2>2, <2>3
<1>4. \A i \in 1..Len(listed) : i - 1 \in S => i \in S
  <2> SUFFICES ASSUME NEW i \in 1..Len(listed), i - 1 \in S PROVE i \in S
    OBVIOUS
  <2>1. at(i) = SZ!Visit(at(i - 1), i, stale)
    BY <1>1, Visits
  <2>2. Part(at(i - 1)) /\ Nearer(at(i - 1), i - 1)
    OBVIOUS
  <2> HIDE DEF at
  <2>3. Part(at(i)) /\ Nearer(at(i), i)
    BY <1>2, <2>1, <2>2, VisitOne
  <2> QED
    BY <2>3
<1>5. \A i \in 0..Len(listed) : i \in S
  <2> HIDE DEF S
  <2> QED
    BY <1>1, <1>3, <1>4, Induct
<1>6. Len(listed) \in S
  BY <1>1, <1>5
<1> QED
  BY <1>6

(* What is in two arrays put together. *)
LEMMA Joined ==
  ASSUME NEW q \in Seq(Names), NEW r \in Seq(Names)
  PROVE  q \o r \in Seq(Names) /\ SZ!ToSet(q \o r) = SZ!ToSet(q) \cup SZ!ToSet(r)
<1>1. /\ q \o r \in Seq(Names) /\ Len(q \o r) = Len(q) + Len(r)
      /\ \A i \in 1..(Len(q) + Len(r)) : (q \o r)[i] = IF i <= Len(q) THEN q[i] ELSE r[i - Len(q)]
  BY ConcatProperties
<1>2. Len(q) \in Nat /\ Len(r) \in Nat
  OBVIOUS
<1>3. ASSUME NEW n \in SZ!ToSet(q \o r) PROVE n \in SZ!ToSet(q) \cup SZ!ToSet(r)
  <2>1. PICK i \in 1..(Len(q) + Len(r)) : n = (q \o r)[i]
    BY <1>1, <1>3 DEF SZ!ToSet
  <2>2. CASE i <= Len(q)
    <3>1. i \in 1..Len(q) /\ n = q[i]
      BY <1>1, <1>2, <2>1, <2>2
    <3> QED
      BY <3>1 DEF SZ!ToSet
  <2>3. CASE ~(i <= Len(q))
    <3>1. i - Len(q) \in 1..Len(r) /\ n = r[i - Len(q)]
      BY <1>1, <1>2, <2>1, <2>3
    <3> QED
      BY <3>1 DEF SZ!ToSet
  <2> QED
    BY <2>2, <2>3
<1>4. ASSUME NEW i \in 1..Len(q) PROVE q[i] \in SZ!ToSet(q \o r)
  <2>1. i \in 1..(Len(q) + Len(r)) /\ i <= Len(q)
    BY <1>2
  <2>2. (q \o r)[i] = q[i]
    BY <1>1, <2>1
  <2> QED
    BY <1>1, <2>1, <2>2 DEF SZ!ToSet
<1>5. ASSUME NEW i \in 1..Len(r) PROVE r[i] \in SZ!ToSet(q \o r)
  <2>1. i + Len(q) \in 1..(Len(q) + Len(r)) /\ ~(i + Len(q) <= Len(q)) /\ (i + Len(q)) - Len(q) = i
    BY <1>2
  <2>2. (q \o r)[i + Len(q)] = r[i]
    BY <1>1, <2>1
  <2> QED
    BY <1>1, <2>1, <2>2 DEF SZ!ToSet
<1>6. SZ!ToSet(q) \subseteq SZ!ToSet(q \o r) /\ SZ!ToSet(r) \subseteq SZ!ToSet(q \o r)
  <2>1. SZ!ToSet(q) = {q[i] : i \in 1..Len(q)} /\ SZ!ToSet(r) = {r[i] : i \in 1..Len(r)}
    BY DEF SZ!ToSet
  <2> QED
    BY <1>4, <1>5, <2>1
<1> QED
  BY <1>1, <1>3, <1>6

(* What is left of a sequence. *)
LEMMA Shortened ==
  ASSUME NEW q \in Seq(Names), NEW m
  PROVE  SZ!RemoveFirst(q, m) \in Seq(Names) /\ SZ!ToSet(SZ!RemoveFirst(q, m)) \subseteq SZ!ToSet(q)
<1>1. CASE m \notin SZ!ToSet(q)
  <2>1. \A i \in 1..Len(q) : q[i] # m
    BY <1>1 DEF SZ!ToSet
  <2>2. SZ!RemoveFirst(q, m) = q
    BY <2>1 DEF SZ!RemoveFirst
  <2> QED
    BY <2>2
<1>2. CASE m \in SZ!ToSet(q)
  <2> DEFINE r == SZ!RemoveFirst(q, m)
  <2>1. PICK f : IsFirst(q, m, f)
    BY <1>2, HasFirst
  <2>2. /\ r \in Seq(Names) /\ Len(r) = Len(q) - 1
        /\ \A i \in 1..(Len(q) - 1) : r[i] = IF i < f THEN q[i] ELSE q[i + 1]
    BY <2>1, FirstRemoved
  <2> HIDE DEF r
  <2>3. ASSUME NEW i \in 1..Len(r) PROVE r[i] \in SZ!ToSet(q)
    <3>1. i \in 1..(Len(q) - 1) /\ Len(q) \in Nat
      BY <2>2
    <3>2. r[i] = q[i] \/ r[i] = q[i + 1]
      BY <2>2, <3>1
    <3>3. i \in 1..Len(q) /\ i + 1 \in 1..Len(q)
      BY <3>1
    <3> QED
      BY <3>2, <3>3 DEF SZ!ToSet
  <2> QED
    BY <2>2, <2>3 DEF SZ!ToSet, r
<1> QED
  BY <1>1, <1>2

(* A load makes the zones of its names, and owes those of other plugins     *)
(* whose names the array does not have.                                     *)
LEMMA LoadInv ==
  ASSUME ZonesInv, NEW s, Part(s), NEW names \in Seq(Names),
         zones' = SZ!Loaded(s, names).zones, listed' = SZ!Loaded(s, names).listed,
         SZ!Owe(names)
  PROVE  /\ listed' \in Seq(Names) /\ zones' \in [Names -> Spheres]
         /\ ever' \subseteq Names /\ owed' \subseteq Names
         /\ ZonesStand' /\ SZ!ToSet(listed)' \subseteq ever'
<1> USE DEF ZonesInv, ZonesTyped, Part
<1>1. /\ zones' = [n \in Names |-> IF s.zones[n] # "none" THEN "dead"
                                   ELSE IF n \in SZ!ToSet(names) THEN "live" ELSE "none"]
      /\ listed' = s.listed \o names
  BY DEF SZ!Loaded
<1>2. SZ!ToSet(names) \subseteq Names
  BY DEF SZ!ToSet
<1>3. ever' = ever \cup SZ!ToSet(names) /\ owed' = (owed \ ever') \cup SZ!ToSet(names)
  BY DEF SZ!Owe
<1>4. listed' \in Seq(Names) /\ SZ!ToSet(listed') = SZ!ToSet(s.listed) \cup SZ!ToSet(names)
  BY <1>1, Joined
<1>5. ASSUME NEW n \in owed' PROVE zones'[n] # "none" /\ n \in Names
  <2>1. CASE n \in SZ!ToSet(names)
    BY <1>1, <1>2, <2>1
  <2>2. CASE n \notin SZ!ToSet(names)
    <3>1. n \in owed /\ n \notin ever /\ n \in Names
      BY <1>3, <1>5, <2>2
    <3>2. s.zones[n] = zones[n] /\ zones[n] # "none"
      BY <3>1 DEF ZonesStand, SZ!ZonesStand, SZ!ZoneNames
    <3> QED
      BY <1>1, <3>1, <3>2
  <2> QED
    BY <2>1, <2>2
<1>6. SZ!ToSet(listed') \subseteq ever'
  BY <1>3, <1>4
<1>7. zones' \in [Names -> Spheres]
  BY <1>1 DEF Spheres
<1>8. ZonesStand'
  BY <1>5 DEF ZonesStand, SZ!ZonesStand, SZ!ZoneNames
<1>9. ever' \subseteq Names /\ owed' \subseteq Names
  BY <1>2, <1>3
<1>10. SZ!ToSet(listed)' = SZ!ToSet(listed')
  BY DEF SZ!ToSet
<1> QED
  BY <1>4, <1>6, <1>7, <1>8, <1>9, <1>10

(* The server begins with no zones, but those the file names to come. *)
LEMMA ZonesInit == SZ!Init => ZonesInv
<1> SUFFICES ASSUME SZ!Init PROVE ZonesInv
  OBVIOUS
<1>1. ZonesTyped
  BY ZonesAssumption DEF SZ!Init, ZonesTyped, Spheres
<1>2. SZ!ToSet(listed) \subseteq ever
  BY DEF SZ!Init, SZ!ToSet
<1>3. ZonesStand
  BY DEF SZ!Init, ZonesStand, SZ!ZonesStand
<1> QED
  BY <1>1, <1>2, <1>3 DEF ZonesInv

(* A reload keeps the invariant, wherever its loop reads. *)
LEMMA ReloadInv ==
  ASSUME ZonesInv, SZ!SZReloadConfig
  PROVE  ZonesInv'
<1>1. PICK stale \in SZ!Stale :
        /\ zones' = SZ!Loaded(SZ!Visited(stale)[Len(listed)], file).zones
        /\ listed' = SZ!Loaded(SZ!Visited(stale)[Len(listed)], file).listed
  BY DEF SZ!SZReloadConfig
<1> DEFINE s == SZ!Visited(stale)[Len(listed)]
<1>2. Part(s)
  BY LoopEnds DEF ZonesInv
<1> HIDE DEF s
<1>3. /\ listed' \in Seq(Names) /\ zones' \in [Names -> Spheres]
      /\ ever' \subseteq Names /\ owed' \subseteq Names
      /\ ZonesStand' /\ SZ!ToSet(listed)' \subseteq ever'
  BY <1>1, <1>2, LoadInv DEF SZ!SZReloadConfig, ZonesInv, ZonesTyped, s
<1> QED
  BY <1>3 DEF SZ!SZReloadConfig, ZonesInv, ZonesTyped

(* The array as it is may be loaded into, too. *)
LEMMA StartInv ==
  ASSUME ZonesInv, SZ!Start
  PROVE  ZonesInv'
<1> DEFINE s == [zones |-> zones, listed |-> listed]
<1>1. Part(s)
  BY DEF ZonesInv, ZonesTyped, Part
<1>2. zones' = SZ!Loaded(s, config).zones /\ listed' = SZ!Loaded(s, config).listed
  BY DEF SZ!Start
<1> HIDE DEF s
<1>3. /\ listed' \in Seq(Names) /\ zones' \in [Names -> Spheres]
      /\ ever' \subseteq Names /\ owed' \subseteq Names
      /\ ZonesStand' /\ SZ!ToSet(listed)' \subseteq ever'
  BY <1>1, <1>2, LoadInv DEF SZ!Start, ZonesInv, ZonesTyped
<1> QED
  BY <1>3 DEF SZ!Start, ZonesInv, ZonesTyped

(* Every step preserves the invariant. *)
LEMMA ZonesNext == ZonesInv /\ [SZ!Next]_sz => ZonesInv'
<1> SUFFICES ASSUME ZonesInv, [SZ!Next]_sz PROVE ZonesInv'
  OBVIOUS
<1> USE DEF ZonesInv, ZonesTyped, ZonesStand, SZ!ZonesStand, SZ!ZoneNames
<1>1. CASE SZ!Restart
  <2>1. SZ!ToSet(listed)' \subseteq ever'
    BY <1>1 DEF SZ!Restart, SZ!ToSet
  <2> QED
    BY <1>1, <2>1 DEF SZ!Restart, Spheres
<1>2. ASSUME NEW n \in Names, SZ!SZCreateZone(n) PROVE ZonesInv'
  <2>1. config' \in Seq(Names) /\ file' = config'
    BY <1>2 DEF SZ!SZCreateZone
  <2>2. SZ!ToSet(listed)' = SZ!ToSet(listed)
    BY <1>2 DEF SZ!SZCreateZone, SZ!ToSet
  <2> QED
    BY <1>2, <2>1, <2>2 DEF SZ!SZCreateZone
<1>3. ASSUME NEW n \in Names, SZ!Edit(n) PROVE ZonesInv'
  <2>1. file' \in Seq(Names)
    BY <1>3, Shortened DEF SZ!Edit
  <2>2. SZ!ToSet(listed)' = SZ!ToSet(listed)
    BY <1>3 DEF SZ!Edit, SZ!ToSet
  <2> QED
    BY <1>3, <2>1, <2>2 DEF SZ!Edit
<1>4. ASSUME NEW n \in Names, SZ!OtherCreates(n) PROVE ZonesInv'
  <2>1. SZ!ToSet(listed)' = SZ!ToSet(listed)
    BY <1>4 DEF SZ!OtherCreates, SZ!ToSet
  <2> QED
    BY <1>4, <2>1 DEF SZ!OtherCreates, Spheres
<1>5. ASSUME NEW n \in Names, SZ!OtherRemoves(n) PROVE ZonesInv'
  <2>1. zones' = [zones EXCEPT ![n] = "none"] /\ listed' = SZ!RemoveFirst(listed, n)
    BY <1>5 DEF SZ!OtherRemoves, SZ!RemoveSafeZone
  <2>2. listed' \in Seq(Names) /\ SZ!ToSet(listed') \subseteq SZ!ToSet(listed)
    BY <2>1, Shortened
  <2>3. SZ!ToSet(listed)' = SZ!ToSet(listed')
    BY DEF SZ!ToSet
  <2> QED
    BY <1>5, <2>1, <2>2, <2>3 DEF SZ!OtherRemoves, Spheres
<1>6. CASE UNCHANGED sz
  <2>1. SZ!ToSet(listed)' = SZ!ToSet(listed)
    BY <1>6 DEF sz, SZ!ToSet
  <2> QED
    BY <1>6, <2>1 DEF sz
<1> QED
  BY <1>1, <1>2, <1>3, <1>4, <1>5, <1>6, StartInv, ReloadInv DEF SZ!Next

(* The zones of the file, and those of other plugins whose names it has
   never had, stand after every reload, however it goes through the array. *)
THEOREM Stand == (SZ!Spec => []ZonesStand) /\ (PluginsSpec => []ZonesStand)
<1>1. SZ!Init => ZonesInv
  BY ZonesInit
<1>2. ZonesInv /\ [SZ!Next]_sz => ZonesInv'
  BY ZonesNext
<1>3. ZonesInv => ZonesStand
  BY DEF ZonesInv
<1>4. [SZ!Next]_(SZ!vars) => [SZ!Next]_sz
  BY DEF SZ!vars, sz
<1> QED
  BY <1>1, <1>2, <1>3, <1>4, PluginsBegin, PluginsStep, PTL
     DEF SZ!Spec, PluginsSpec

(* The first place of a name is the one Place means. *)
LEMMA PlaceFirst ==
  ASSUME NEW q, NEW n, NEW k, IsFirst(q, n, k), Len(q) \in Nat
  PROVE  k = CHOOSE i \in 1..Len(q) : q[i] = n /\ \A j \in 1..(i - 1) : q[j] # n
<1> DEFINE P(i) == q[i] = n /\ \A j \in 1..(i - 1) : q[j] # n
<1>1. k \in 1..Len(q) /\ P(k)
  BY DEF IsFirst
<1>2. ASSUME NEW i \in 1..Len(q), P(i) PROVE i = k
  <2>1. ~(i < k) /\ ~(k < i)
    BY <1>1, <1>2
  <2> QED
    BY <1>1, <2>1
<1> HIDE DEF P
<1>3. k = CHOOSE i \in 1..Len(q) : P(i)
  BY <1>1, <1>2
<1> QED
  BY <1>3 DEF P

(* A reload brings the zones it leaves over nearer to the front. *)
LEMMA ReloadFades ==
  ASSUME ZonesInv, SZ!SZReloadConfig, NEW n \in SZ!ToSet(listed), zones'[n] = "dead"
  PROVE  n \in SZ!ToSet(listed') /\ SZ!Place(n)' < SZ!Place(n)
<1> USE DEF ZonesInv, ZonesTyped
<1>1. PICK stale \in SZ!Stale :
        /\ zones' = SZ!Loaded(SZ!Visited(stale)[Len(listed)], file).zones
        /\ listed' = SZ!Loaded(SZ!Visited(stale)[Len(listed)], file).listed
  BY DEF SZ!SZReloadConfig
<1> DEFINE s == SZ!Visited(stale)[Len(listed)]
<1>2. Part(s) /\ Nearer(s, Len(listed))
  BY LoopEnds
<1> HIDE DEF s
<1>3. n \in Names
  BY DEF SZ!ToSet
<1>4. s.zones[n] # "none" /\ listed' = s.listed \o file
  BY <1>1, <1>3 DEF SZ!Loaded, s
<1>5. PICK f : IsFirst(listed, n, f)
  BY HasFirst
<1>6. PICK k : IsFirst(s.listed, n, k) /\ k <= f /\ (Len(listed) < k \/ k < f)
  BY <1>2, <1>3, <1>4, <1>5 DEF Nearer
<1>7. /\ k \in 1..Len(s.listed) /\ f \in 1..Len(listed)
      /\ Len(s.listed) \in Nat /\ Len(listed) \in Nat /\ Len(s.listed) <= Len(listed)
  BY <1>2, <1>5, <1>6 DEF IsFirst, Part
<1>8. k < f
  BY <1>6, <1>7
<1>9. IsFirst(listed', n, k) /\ Len(listed') \in Nat
  <2>1. /\ Len(listed') = Len(s.listed) + Len(file) /\ Len(file) \in Nat
        /\ \A i \in 1..(Len(s.listed) + Len(file)) :
             listed'[i] = IF i <= Len(s.listed) THEN s.listed[i] ELSE file[i - Len(s.listed)]
    BY <1>2, <1>4, ConcatProperties DEF Part
  <2>2. ASSUME NEW i \in 1..k PROVE i \in 1..Len(listed') /\ listed'[i] = s.listed[i]
    <3>1. i \in 1..(Len(s.listed) + Len(file)) /\ i <= Len(s.listed)
      BY <1>7, <2>1
    <3> QED
      BY <2>1, <3>1
  <2>3. k \in 1..k /\ \A j \in 1..(k - 1) : j \in 1..k
    BY <1>7
  <2>4. k \in 1..Len(listed') /\ listed'[k] = n
    BY <1>6, <2>2, <2>3 DEF IsFirst
  <2>5. \A j \in 1..(k - 1) : listed'[j] # n
    BY <1>6, <2>2, <2>3 DEF IsFirst
  <2>6. Len(listed') \in Nat
    BY <1>7, <2>1
  <2> QED
    BY <2>4, <2>5, <2>6 DEF IsFirst
<1>10. SZ!Place(n) = f
  BY <1>5, <1>7, PlaceFirst DEF SZ!Place
<1>11. SZ!Place(n)' = k
  BY <1>9, PlaceFirst DEF SZ!Place
<1>12. n \in SZ!ToSet(listed')
  <2>1. listed' \in Seq(Names)
    BY <1>2, <1>4, Joined DEF Part
  <2> QED
    BY <1>9, <2>1 DEF SZ!ToSet, IsFirst
<1> QED
  BY <1>8, <1>10, <1>11, <1>12

(* What a reload leaves over comes nearer to the front of the array, and none
   is left over for ever. *)
THEOREM Fade == (SZ!Spec => LeftoversFade) /\ (PluginsSpec => LeftoversFade)
<1> DEFINE A == reloads' > reloads =>
                  \A n \in SZ!ToSet(listed) :
                    zones'[n] = "dead" => n \in SZ!ToSet(listed') /\ SZ!Place(n)' < SZ!Place(n)
<1>1. SZ!Init => ZonesInv
  BY ZonesInit
<1>2. ZonesInv /\ [SZ!Next]_sz => ZonesInv'
  BY ZonesNext
<1>3. ZonesInv /\ [SZ!Next]_sz => [A]_(SZ!vars)
  <2> SUFFICES ASSUME ZonesInv, [SZ!Next]_sz, reloads' > reloads PROVE A
    OBVIOUS
  <2>1. reloads \in Nat
    BY DEF ZonesInv, ZonesTyped
  <2>2. SZ!SZReloadConfig
    <3>1. ~SZ!Restart
      BY <2>1 DEF SZ!Restart
    <3>2. reloads' # reloads
      BY <2>1
    <3> QED
      BY <3>1, <3>2 DEF SZ!Next, SZ!Start, SZ!SZCreateZone, SZ!Edit, SZ!OtherCreates, SZ!OtherRemoves, sz
  <2> QED
    BY <2>2, ReloadFades
<1>4. [SZ!Next]_(SZ!vars) => [SZ!Next]_sz
  BY DEF SZ!vars, sz
<1> QED
  BY <1>1, <1>2, <1>3, <1>4, PluginsBegin, PluginsStep, PTL
     DEF SZ!Spec, PluginsSpec, LeftoversFade, SZ!LeftoversFade
=============================================================================
