---------------------------- MODULE TimedRewards ----------------------------
(***************************************************************************)
(* The timed rewards of ArkShop on one server.  The login hook gives a     *)
(* player that has an account a task, the logout hook takes it away, and a *)
(* timer rewards every player whose task is due.  A lost connection is     *)
(* closed by the game only after a while, perhaps after the player has     *)
(* come back.  Hooks and the timer run on the game thread.                 *)
(***************************************************************************)
EXTENDS Integers

CONSTANTS
  Players,
  Interval,    \* "Interval" of TimedPointsReward
  Faults,      \* what may fail: "insert", the row of a new player
  MaxFaults,   \* bound of the number of failures
  NoTask

VARIABLES
  connections,  \* how many connections of each player the game has
  known,        \* the players with a row
  online,       \* online_players_: the time left till each player's next reward
  faults,       \* how many steps have failed
  since         \* history: the time since each player's last reward, before that since its
                \* first login, NoTask until it has ever logged in

vars == <<connections, known, online, faults, since>>

Init ==
  /\ connections = [p \in Players |-> 0]
  /\ known \in SUBSET Players
  /\ online = [p \in Players |-> NoTask]
  /\ faults = 0
  /\ since = [p \in Players |-> NoTask]

Fails(kind) == kind \in Faults /\ faults < MaxFaults /\ faults' = faults + 1

(* A task the player already has is kept. *)
AddTaskBug(p) == online' = [online EXCEPT ![p] = 0]  \* mutation: the first reward at once
AddTask(p) == online' = [online EXCEPT ![p] = IF @ = NoTask THEN Interval ELSE @]

RemovePlayerBug(p) == UNCHANGED online  \* mutation: the task outlives the player
RemovePlayer(p) == online' = [online EXCEPT ![p] = NoTask]

(* HandleNewPlayer: at login, and again when a connected player gets a new
   character.  Without a row, and if none can be inserted, there is no task. *)
HandleNewPlayer(p, login) ==
  /\ connections[p] \in IF login THEN {0, 1} ELSE {1, 2}
  /\ connections' = IF login THEN [connections EXCEPT ![p] = @ + 1] ELSE connections
  /\ \/ known' = known \cup {p} /\ AddTask(p) /\ UNCHANGED faults
     \/ p \notin known /\ Fails("insert") /\ UNCHANGED <<known, online>>
  /\ since' = [since EXCEPT ![p] = IF @ = NoTask THEN 0 ELSE @]

(* The spawn hook inserts a missing row too, but adds no task. *)
AuthPostSpawnInit(p) ==
  /\ connections[p] > 0 /\ p \notin known
  /\ known' = known \cup {p}
  /\ UNCHANGED <<connections, online, faults, since>>

(* The Logout hook, for any of the player's connections. *)
Logout(p) ==
  /\ connections[p] > 0
  /\ connections' = [connections EXCEPT ![p] = @ - 1]
  /\ RemovePlayer(p)
  /\ UNCHANGED <<known, faults, since>>

(* RewardTimer: every player that is due is rewarded, and due again after the
   interval; the points are a Grant of ShopLedger. *)
Due(p) == online[p] = 0
RewardTimerBug ==  \* mutation: only the first player that is due
  /\ \E p \in Players :
       /\ Due(p) /\ p = CHOOSE q \in Players : Due(q)
       /\ online' = [online EXCEPT ![p] = Interval]
       /\ since' = [since EXCEPT ![p] = 0]
  /\ UNCHANGED <<connections, known, faults>>
RewardTimer ==
  /\ \E p \in Players : Due(p)
  /\ online' = [p \in Players |-> IF Due(p) THEN Interval ELSE online[p]]
  /\ since' = [p \in Players |-> IF Due(p) THEN 0 ELSE since[p]]
  /\ UNCHANGED <<connections, known, faults>>

(* A unit of time passes. *)
Tick ==
  /\ online' = [p \in Players |-> IF online[p] \in 1..Interval THEN online[p] - 1 ELSE online[p]]
  /\ since' = [p \in Players |-> IF since[p] \in 0..(Interval - 1) THEN since[p] + 1 ELSE since[p]]
  /\ UNCHANGED <<connections, known, faults>>

Next ==
  \/ \E p \in Players : HandleNewPlayer(p, TRUE) \/ HandleNewPlayer(p, FALSE)
                            \/ AuthPostSpawnInit(p) \/ Logout(p)
  \/ RewardTimer
  \/ Tick

Spec == Init /\ [][Next]_vars

(* Time passes and the game runs the timer callback. *)
FairSpec == Spec /\ WF_vars(Tick) /\ WF_vars(RewardTimer)
---------------------------------------------------------------------------
Rewarded(p) == Due(p) /\ online'[p] = Interval

(* Two rewards of a player are at least an interval apart, and the first comes
   an interval or more after its first login, however often and in whatever
   order it logs in and out, and however long the server ran before. *)
Spaced == [][\A p \in Players : Rewarded(p) => since[p] = Interval]_vars

(* Rewards go to players that are connected and have an account. *)
OnlineOnly == \A p \in Players : online[p] # NoTask => connections[p] > 0 /\ p \in known

(* Who stays connected is rewarded again and again: it has a task from its
   login on, and the timer reaches every player that is due.  The logout of a
   lost connection after the next login takes the task away, and a failed
   INSERT leaves the player without one. *)
OnlineEarns ==
  \A p \in Players :
    \/ <>(connections[p] > 1 \/ faults > 0)
    \/ []<>(connections[p] = 0)
    \/ []<><<Rewarded(p)>>_vars
=============================================================================
