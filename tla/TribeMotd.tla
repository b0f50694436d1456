----------------------------- MODULE TribeMotd -----------------------------
(***************************************************************************)
(* The plugin TribeMotd: messages of the day of tribes and, over them, of  *)
(* players, in two tables of which only the first has a unique index.      *)
(* Every command first counts the rows and then inserts, updates or        *)
(* deletes; a count that fails is read as "no row".  Commands run on the   *)
(* game thread, each to its end.                                           *)
(***************************************************************************)
EXTENDS Integers, Sequences

CONSTANTS
  Players, Tribes, NoTribe,
  Messages, NoMessage,
  Faults,     \* the statements that may fail: "check", "write"
  MaxFaults   \* bound of the number of failures

VARIABLES
  motd,    \* of each tribe and each player, its rows
  member,  \* the tribe of each player
  faults,  \* how many statements have failed
  told,    \* history: the message each was last said to have been given
  missed   \* history: those whose row a check has missed, until it is deleted

vars == <<motd, member, faults, told, missed>>

Owners == Tribes \cup Players

Init ==
  /\ motd = [o \in Owners |-> <<>>]
  /\ member \in [Players -> Tribes \cup {NoTribe}]
  /\ faults = 0
  /\ told = [o \in Owners |-> NoMessage]
  /\ missed = {}

Fails(kind) == kind \in Faults /\ faults < MaxFaults /\ faults' = faults + 1

HasRow(o) == motd[o] # <<>>

(* IsEntryExists and IsPlayerEntryExists. *)
Check(o, found) ==
  \/ found = HasRow(o) /\ UNCHANGED faults
  \/ ~found /\ Fails("check")

Refused(o) == o \in Tribes /\ HasRow(o)   \* by the index, of another row

(* SetMotd of a tribe admin, SetTribeMotd and SetPlayerMotd. *)
Change(o, m, found) ==
  /\ motd' = [motd EXCEPT ![o] = IF found THEN [i \in DOMAIN @ |-> m] ELSE Append(@, m)]
  /\ told' = [told EXCEPT ![o] = m]
SetBug(o, m) ==  \* mutation: ChangedMotd is sent after an exception too
  /\ \E found \in BOOLEAN :
       /\ Check(o, found)
       /\ IF ~found /\ Refused(o) THEN told' = [told EXCEPT ![o] = m] /\ UNCHANGED motd
          ELSE Change(o, m, found)
       /\ missed' = IF ~found /\ HasRow(o) THEN missed \cup {o} ELSE missed
  /\ UNCHANGED member
Set(o, m) ==
  /\ \E found \in BOOLEAN :
       /\ Check(o, found)
       /\ IF ~found /\ Refused(o) THEN UNCHANGED <<motd, told>> ELSE Change(o, m, found)
       /\ missed' = IF ~found /\ HasRow(o) THEN missed \cup {o} ELSE missed
  /\ UNCHANGED member

(* RemoveTribeMotd and RemovePlayerMotd: "RemovedMotd" is sent with or without
   a row. *)
Delete(o, found) ==
  /\ motd' = IF found THEN [motd EXCEPT ![o] = <<>>] ELSE motd
  /\ told' = [told EXCEPT ![o] = NoMessage]
  /\ missed' = IF found THEN missed \ {o} ELSE IF HasRow(o) THEN missed \cup {o} ELSE missed
RemoveBug(o) ==  \* mutation: RemovePlayerMotd looks for a row of a tribe
  /\ \/ o \in Tribes /\ \E found \in BOOLEAN : Check(o, found) /\ Delete(o, found)
     \/ o \in Players /\ UNCHANGED <<motd, missed, faults>> /\ told' = [told EXCEPT ![o] = NoMessage]
  /\ UNCHANGED member
Remove(o) ==
  /\ \E found \in BOOLEAN : Check(o, found) /\ Delete(o, found)
  /\ UNCHANGED member

(* The INSERT, UPDATE or DELETE of a command throws, and the command ends. *)
WriteFails == Fails("write") /\ UNCHANGED <<motd, member, told, missed>>

(* The player enters or leaves a tribe. *)
Join(p, t) ==
  /\ member[p] # t
  /\ member' = [member EXCEPT ![p] = t]
  /\ UNCHANGED <<motd, faults, told, missed>>

Next ==
  \/ \E o \in Owners : Remove(o) \/ \E m \in Messages : Set(o, m)
  \/ \E p \in Players, t \in Tribes \cup {NoTribe} : Join(p, t)
  \/ WriteFails

Spec == Init /\ [][Next]_vars
---------------------------------------------------------------------------
(* What the hook shows: a query that meets a second row throws, and nothing is
   shown. *)
Message(o) == IF Len(motd[o]) = 1 THEN motd[o][1] ELSE NoMessage
Shown(p) == IF HasRow(p) THEN Message(p)
            ELSE IF member[p] \in Tribes THEN Message(member[p]) ELSE NoMessage

Meant(p) == IF told[p] # NoMessage THEN told[p]
            ELSE IF member[p] \in Tribes THEN told[member[p]] ELSE NoMessage

(* The message a tribe was last confirmed to have (ChangedMotd) is the one in
   its row, and the only one, even if checks fail: the INSERT that follows a
   failed check is refused by the index. *)
ChangedIsKept == \A t \in Tribes : told[t] # NoMessage => motd[t] = <<told[t]>>

(* A player is shown the message last set for it, and without one that of the
   tribe it is in now, unless the check of one of the two has failed. *)
SeesWhatWasSet ==
  \A p \in Players : {p, member[p]} \cap missed = {} => Shown(p) = Meant(p)
=============================================================================
