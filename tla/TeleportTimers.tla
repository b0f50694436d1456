--------------------------- MODULE TeleportTimers ---------------------------
(***************************************************************************)
(* The delayed teleports of ArkHomes.  /home and /tp start a detached      *)
(* thread that sleeps, looks its number up in Timer::threads and runs      *)
(* DoTp, then put the player on a list and freeze it; damage and death     *)
(* call a teleport off.  Commands and hooks run on the game thread, one    *)
(* after the other.  The list, the map and the flags of the characters are *)
(* shared with the timers without a lock: every command, hook and task     *)
(* goes by steps here, and between two of them another thread may act.     *)
(* One statement on the list or the map is a step, and so is the writing   *)
(* of the two flags of one body.  Delays are abstracted: a timer may wake  *)
(* at any time after it was started.                                       *)
(***************************************************************************)
EXTENDS Integers, Sequences, FiniteSetsExt

CONSTANTS
  Players, Dinos, NoDino, Nobody,
  Kinds,        \* the commands in use: "tp" only where config.json has a "Teleport" position
  MaxRequests,  \* bound of the teleports asked for
  Fare,         \* CostPerHomeTeleport, 0 with UseArkShop off
  MaxPoints,    \* bound of the points a player starts with
  MinPoints     \* bound of the points other spending leaves

ASSUME TimersAssumption ==
  /\ Players \cap Dinos = {} /\ NoDino \notin Players \cup Dinos /\ Nobody \notin Players
  /\ Kinds \subseteq {"home", "tp"}
  /\ MaxRequests \in Nat /\ Fare \in Nat /\ MaxPoints \in Nat /\ MinPoints \in Int

VARIABLES
  listed,       \* HomeSystem::teleporting_players
  threads,      \* Timer::threads: the number of the last timer of a player, 0 for none
  timers,       \* the timers ever started, by number: player, command, progress, place found
  game,         \* what the game thread is in the middle of: progress, player, command, place found
  frozen,       \* the characters and dinos with bPreventMovement and bPreventJump
  mount,        \* the dino each player rides
  alive,        \* the players that are not dead
  points,       \* the points of each player in ArkShop
  interrupted,  \* history: the requests struck off by the TakeDamage hook, 0 if there was none to strike
  diedWith,     \* history: the requests pending when their player died
  left,         \* history: the frozen dinos whose rider dismounted or died
  spent,        \* history: the players that spent points on something else since their last /home
  raced         \* history: whether two threads were at the same player, or at the list, at once

vars == <<listed, threads, timers, game, frozen, mount, alive, points,
          interrupted, diedWith, left, spent, raced>>

Uids == 1..Len(timers)
Idle == [pc |-> "idle", player |-> Nobody, kind |-> "none", at |-> 0]

Init ==
  /\ listed = <<>>
  /\ threads = [p \in Players |-> 0]
  /\ timers = <<>>
  /\ game = Idle
  /\ frozen = {}
  /\ mount = [p \in Players |-> NoDino]
  /\ alive = Players
  /\ points \in [Players -> 0..MaxPoints]
  /\ interrupted = {}
  /\ diedWith = {}
  /\ left = {}
  /\ spent = {}
  /\ raced = FALSE

Listed(p) == \E i \in 1..Len(listed) : listed[i] = p
First(p) == Min({i \in 1..Len(listed) : listed[i] = p})

(* What is at the places K of a list. *)
Selected(s, K) ==
  [n \in 1..Cardinality(K) |-> s[CHOOSE i \in K : Cardinality({j \in K : j <= i}) = n]]

(* erase(remove(begin, end, *player_iter), end).  The value to remove is a
   reference into the list: it is overwritten by the first element that is
   kept, and from there on it is that element that is compared with. *)
Spared(p) == {i \in 1..Len(listed) : i > First(p) /\ listed[i] # p}
Kept(p) ==
  {i \in 1..Len(listed) :
     \/ i < First(p)
     \/ \E k \in Spared(p) : k = Min(Spared(p)) /\ (i = k \/ (i > k /\ listed[i] # listed[k]))}
Unlist(p) == Selected(listed, Kept(p))

(* The same with the iterator found earlier.  If the list has changed since,
   it is whoever stands at that place now that is taken off, or, past the end,
   anyone whose number was left in memory. *)
Erase(at) ==
  \E p \in Players :
    /\ at <= Len(listed) => p = listed[at]
    /\ listed' = IF Listed(p) THEN Unlist(p) ELSE listed

InTask(u) == timers[u].pc \in {"awake", "claimed", "found", "off", "arrived", "freed"}
Has(u, p) == timers[u].pc = "asleep" /\ threads[p] = u

(* The timers that may still move p. *)
Pending(p) ==
  {u \in Uids : timers[u].player = p /\ (timers[u].pc \in {"awake", "claimed", "found", "off"} \/ Has(u, p))}

(* Helper::DisableInput: the character first, then the dino it rides by then. *)
DisableCharacter(p, state) ==
  /\ frozen' = IF state THEN frozen \cup {p} ELSE frozen \ {p}
  /\ UNCHANGED left
DisableMountBug(p, state) ==  \* mutation: the dino is not given back
  /\ frozen' = IF state THEN frozen \cup ({mount[p]} \ {NoDino}) ELSE frozen
  /\ left' = left \cap frozen'
DisableMountBug2(p, state) ==  \* mutation: whether a dino is ridden is not asked
  /\ frozen' = IF state THEN frozen \cup {mount[p]} ELSE frozen \ {mount[p]}
  /\ left' = left \cap frozen'
DisableMount(p, state) ==
  /\ frozen' = IF state THEN frozen \cup ({mount[p]} \ {NoDino}) ELSE frozen \ {mount[p]}
  /\ left' = left \cap frozen'

---------------------------------------------------------------------------
(* The game thread. *)

Turn(p, label) == [Idle EXCEPT !.pc = label, !.player = p]
Game(p, label) == game.pc = label /\ game.player = p

(* TpHome and TpCmd up to their last refusal: TpHome refuses a listed player
   and one that cannot pay, TpCmd neither. *)
Admit(p, kind) ==
  /\ game = Idle /\ Len(timers) < MaxRequests
  /\ p \in alive
  /\ kind = "home" => ~Listed(p) /\ points[p] >= Fare
  /\ game' = [Turn(p, "admitted") EXCEPT !.kind = kind]
  /\ spent' = IF kind = "home" THEN spent \ {p} ELSE spent
  /\ UNCHANGED <<listed, threads, timers, frozen, mount, alive, points, interrupted, diedWith, left>>

(* The constructor of Timer: from here on the thread may wake. *)
StartTimerBug(p) ==  \* mutation: insert() in place of the assignment to threads[steam_id]
  /\ Game(p, "admitted")
  /\ timers' = Append(timers, [player |-> p, kind |-> game.kind, pc |-> "asleep", at |-> 0])
  /\ threads' = [threads EXCEPT ![p] = IF @ = 0 THEN Len(timers) + 1 ELSE @]
  /\ game' = Turn(p, "started")
  /\ UNCHANGED <<listed, frozen, mount, alive, points, interrupted, diedWith, left, spent>>
StartTimer(p) ==
  /\ Game(p, "admitted")
  /\ timers' = Append(timers, [player |-> p, kind |-> game.kind, pc |-> "asleep", at |-> 0])
  /\ threads' = [threads EXCEPT ![p] = Len(timers) + 1]
  /\ game' = Turn(p, "started")
  /\ UNCHANGED <<listed, frozen, mount, alive, points, interrupted, diedWith, left, spent>>

(* teleporting_players.push_back, then DisableInput(player_controller, true). *)
Enlist(p) ==
  /\ Game(p, "started")
  /\ listed' = Append(listed, p)
  /\ game' = Turn(p, "enlisted")
  /\ UNCHANGED <<threads, timers, frozen, mount, alive, points, interrupted, diedWith, left, spent>>
Bind(p) ==
  /\ Game(p, "enlisted")
  /\ DisableCharacter(p, TRUE)
  /\ game' = Turn(p, "bound")
  /\ UNCHANGED <<listed, threads, timers, mount, alive, points, interrupted, diedWith, spent>>
BindMount(p) ==
  /\ Game(p, "bound")
  /\ DisableMount(p, TRUE)
  /\ game' = Idle
  /\ UNCHANGED <<listed, threads, timers, mount, alive, points, interrupted, diedWith, spent>>

(* The TakeDamage hook finds a listed player, *)
Hit(p) ==
  /\ game = Idle
  /\ p \in alive /\ Listed(p)
  /\ game' = [Turn(p, "hit") EXCEPT !.at = First(p)]
  /\ UNCHANGED <<listed, threads, timers, frozen, mount, alive, points, interrupted, diedWith, left, spent>>

(* as does the Die hook, which goes on without if there is none. *)
FallBug(p) ==  \* mutation: no Die hook
  /\ game = Idle
  /\ p \in alive
  /\ game' = Turn(p, "fallen")
  /\ UNCHANGED <<listed, threads, timers, frozen, mount, alive, points, interrupted, diedWith, left, spent>>
Fall(p) ==
  /\ game = Idle
  /\ p \in alive
  /\ game' = IF Listed(p) THEN [Turn(p, "dying") EXCEPT !.at = First(p)] ELSE Turn(p, "fallen")
  /\ UNCHANGED <<listed, threads, timers, frozen, mount, alive, points, interrupted, diedWith, left, spent>>

(* Both take off the list what they found. *)
TakeOff(p) ==
  /\ \/ Game(p, "hit") /\ game' = Turn(p, "off")
     \/ Game(p, "dying") /\ game' = Turn(p, "fallen")
  /\ Erase(game.at)
  /\ UNCHANGED <<threads, timers, frozen, mount, alive, points, interrupted, diedWith, left, spent>>

(* TakeDamage goes on: the timer is cancelled, the input is given back, and
   the player is told "Teleport was interrupted". *)
Strike(p) ==
  /\ Game(p, "off")
  /\ threads' = [threads EXCEPT ![p] = 0]
  /\ interrupted' = interrupted \cup {threads[p]}
  /\ game' = Turn(p, "struck")
  /\ UNCHANGED <<listed, timers, frozen, mount, alive, points, diedWith, left, spent>>
FreeBug(p) ==  \* mutation: the input is not given back
  /\ Game(p, "struck")
  /\ game' = Idle
  /\ UNCHANGED <<listed, threads, timers, frozen, mount, alive, points, interrupted, diedWith, left, spent>>
Free(p) ==
  /\ Game(p, "struck")
  /\ DisableCharacter(p, FALSE)
  /\ game' = Turn(p, "freed")
  /\ UNCHANGED <<listed, threads, timers, mount, alive, points, interrupted, diedWith, spent>>
FreeMount(p) ==
  /\ Game(p, "freed")
  /\ DisableMount(p, FALSE)
  /\ game' = Idle
  /\ UNCHANGED <<listed, threads, timers, mount, alive, points, interrupted, diedWith, spent>>

(* What p rode stays frozen if it was. *)
Leave(p) == left' = left \cup (frozen \cap {mount[p]})

(* Die goes on: the player dies; what it rode it leaves. *)
Die(p) ==
  /\ Game(p, "fallen")
  /\ alive' = alive \ {p}
  /\ mount' = [mount EXCEPT ![p] = NoDino]
  /\ diedWith' = diedWith \cup Pending(p)
  /\ Leave(p)
  /\ game' = Idle
  /\ UNCHANGED <<listed, threads, timers, frozen, points, interrupted, spent>>

(* The player is given a new character. *)
Respawn(p) ==
  /\ game = Idle
  /\ p \notin alive
  /\ alive' = alive \cup {p}
  /\ frozen' = frozen \ {p}
  /\ UNCHANGED <<listed, threads, timers, game, mount, points, interrupted, diedWith, left, spent>>

(* The player mounts a dino nobody rides, or dismounts (d = NoDino). *)
Ride(p, d) ==
  /\ game = Idle
  /\ p \in alive
  /\ d # mount[p] /\ (d = NoDino \/ \A q \in Players : mount[q] # d)
  /\ mount' = [mount EXCEPT ![p] = d]
  /\ Leave(p)
  /\ UNCHANGED <<listed, threads, timers, game, frozen, alive, points, interrupted, diedWith, spent>>

(* Points spent on something else, here or on another server: Points::SpendPoints
   does not look at the balance. *)
Spend(p) ==
  /\ points[p] > MinPoints
  /\ points' = [points EXCEPT ![p] = @ - 1]
  /\ spent' = spent \cup {p}
  /\ UNCHANGED <<listed, threads, timers, game, frozen, mount, alive, interrupted, diedWith, left, raced>>

---------------------------------------------------------------------------
(* The thread of timer u. *)

At(u, label) == u \in Uids /\ timers[u].pc = label
GoTo(u, label) == timers' = [timers EXCEPT ![u].pc = label]

(* After the sleep: a timer that is not the last one of its player, or was
   cancelled, ends; *)
WakeBug(u) ==  \* mutation: the number is not compared
  /\ At(u, "asleep")
  /\ GoTo(u, "awake")
  /\ UNCHANGED <<listed, threads, game, frozen, mount, alive, points, interrupted, diedWith, left, spent>>
Wake(u) ==
  /\ At(u, "asleep")
  /\ GoTo(u, IF threads[timers[u].player] = u THEN "awake" ELSE "over")
  /\ UNCHANGED <<listed, threads, game, frozen, mount, alive, points, interrupted, diedWith, left, spent>>

(* the last one takes the number of the player away, whosever it is by then. *)
Claim(u) ==
  /\ At(u, "awake")
  /\ threads' = [threads EXCEPT ![timers[u].player] = 0]
  /\ GoTo(u, "claimed")
  /\ UNCHANGED <<listed, game, frozen, mount, alive, points, interrupted, diedWith, left, spent>>

(* DoTp: a dead player, or one no longer listed, stays. *)
Look(u) ==
  LET p == timers[u].player IN
  /\ At(u, "claimed")
  /\ IF p \in alive /\ Listed(p)
     THEN timers' = [timers EXCEPT ![u].pc = "found", ![u].at = First(p)]
     ELSE GoTo(u, "over")
  /\ UNCHANGED <<listed, threads, game, frozen, mount, alive, points, interrupted, diedWith, left, spent>>

(* The player is taken off the list, *)
EraseFound(u) ==
  /\ At(u, "found")
  /\ Erase(timers[u].at)
  /\ timers' = [timers EXCEPT ![u].pc = "off", ![u].at = 0]
  /\ UNCHANGED <<threads, game, frozen, mount, alive, points, interrupted, diedWith, left, spent>>

(* moved and given back its input, *)
ArriveBug(u) ==  \* mutation: the input is not given back
  /\ At(u, "off")
  /\ GoTo(u, "freed")
  /\ UNCHANGED <<listed, threads, game, frozen, mount, alive, points, interrupted, diedWith, left, spent>>
Arrive(u) ==
  /\ At(u, "off")
  /\ DisableCharacter(timers[u].player, FALSE)
  /\ GoTo(u, "arrived")
  /\ UNCHANGED <<listed, threads, game, mount, alive, points, interrupted, diedWith, spent>>
Release(u) ==
  /\ At(u, "arrived")
  /\ DisableMount(timers[u].player, FALSE)
  /\ GoTo(u, "freed")
  /\ UNCHANGED <<listed, threads, game, mount, alive, points, interrupted, diedWith, spent>>

(* and, by HomeSystem::DoTp, charged, unless the UPDATE fails: SpendPoints does not
   look at the balance, and nobody at what it returns. *)
Price(u) == IF timers[u].kind = "home" THEN Fare ELSE 0
Pay(u) ==
  /\ At(u, "freed")
  /\ points' = [points EXCEPT ![timers[u].player] = @ - Price(u)] \/ UNCHANGED points
  /\ GoTo(u, "paid")
  /\ UNCHANGED <<listed, threads, game, frozen, mount, alive, interrupted, diedWith, left, spent>>

---------------------------------------------------------------------------
(* Nothing is locked.  Some promises are made only until a race: until one
   thread acts on a player another thread is in the middle of a task, command
   or hook for, or changes the list between another's find and erase. *)
Visits(p) == \E u \in Uids : InTask(u) /\ timers[u].player = p
GameRace(p) ==
  \/ Visits(p)
  \/ listed' # listed /\ \E u \in Uids : timers[u].pc = "found"
TimerRace(u) ==
  /\ InTask(u) \/ InTask(u)'
  /\ \/ game.player = timers[u].player
     \/ listed' # listed /\ (game.pc \in {"hit", "dying"} \/ \E v \in Uids \ {u} : timers[v].pc = "found")

Begin(p) ==
  /\ \/ \E kind \in Kinds : Admit(p, kind)
     \/ Hit(p)
     \/ Fall(p)
     \/ Respawn(p)
     \/ \E d \in Dinos \cup {NoDino} : Ride(p, d)
  /\ raced' = (raced \/ GameRace(p))

Proceed(p) ==
  /\ \/ StartTimer(p) \/ Enlist(p) \/ Bind(p) \/ BindMount(p)
     \/ TakeOff(p) \/ Strike(p) \/ Free(p) \/ FreeMount(p)
     \/ Die(p)
  /\ raced' = (raced \/ GameRace(p))

Timer(u) ==
  /\ Wake(u) \/ Claim(u) \/ Look(u) \/ EraseFound(u) \/ Arrive(u) \/ Release(u) \/ Pay(u)
  /\ raced' = (raced \/ TimerRace(u))

Next ==
  \/ \E p \in Players : Begin(p) \/ Proceed(p) \/ Spend(p)
  \/ \E u \in 1..MaxRequests : Timer(u)

Spec == Init /\ [][Next]_vars

(* A thread that sleeps wakes up and runs its task to the end, and the game
   thread ends the command or hook it is in. *)
Fairness ==
  /\ \A u \in 1..MaxRequests : WF_vars(Timer(u))
  /\ \A p \in Players : WF_vars(Proceed(p))
FairSpec == Spec /\ Fairness

---------------------------------------------------------------------------
TypeOK ==
  /\ listed \in Seq(Players)
  /\ threads \in [Players -> 0..MaxRequests]
  /\ timers \in Seq([player : Players, kind : Kinds, at : 0..MaxRequests,
                     pc : {"asleep", "awake", "claimed", "found", "off", "arrived", "freed", "paid", "over"}])
  /\ game \in [pc : {"idle", "admitted", "started", "enlisted", "bound", "hit", "off", "struck",
                     "freed", "dying", "fallen"},
               player : Players \cup {Nobody}, kind : Kinds \cup {"none"}, at : 0..MaxRequests]
  /\ frozen \subseteq Players \cup Dinos
  /\ mount \in [Players -> Dinos \cup {NoDino}]
  /\ alive \subseteq Players
  /\ points \in [Players -> Int]
  /\ interrupted \subseteq 0..MaxRequests /\ diedWith \subseteq 1..MaxRequests
  /\ left \subseteq Dinos /\ spent \subseteq Players /\ raced \in BOOLEAN

Moved(u) == timers[u].pc \in {"arrived", "freed", "paid"}

(* What is promised, is promised until a race. *)

(* A request that the TakeDamage hook struck off Timer::threads, before it tells
   the player "Teleport was interrupted", never moves the player. *)
InterruptedStays == ~raced => \A u \in interrupted \cap Uids : ~Moved(u)

(* A living player is frozen only while a timer is under way that will move it
   and give its input back, and finds it listed until it has taken it off, or
   while the game thread is in a command or hook of that player (DisableInput,
   DoTp, TakeDamage). *)
FrozenIsServed ==
  ~raced => \A p \in alive \cap frozen :
    game.player = p \/ \E u \in Pending(p) : Listed(p) \/ timers[u].pc = "off"

(* A dino is frozen only while the player that rides it is, or is just being
   given back its input, unless its rider left it while both were frozen:
   DisableInput gives back what is ridden then. *)
MountsFollow ==
  ~raced => \A d \in (frozen \cap Dinos) \ left : \E p \in alive :
    /\ mount[p] = d
    /\ p \in frozen \/ Game(p, "freed") \/ \E u \in Uids : At(u, "arrived") /\ timers[u].player = p

(* The players that have used only /home, which refuses who is listed; /tp does not. *)
HomeOnly(p) == \A u \in Uids : timers[u].player = p => timers[u].kind = "home"

(* A request of /home its player died after does not move it once it has respawned. *)
DiedStays == ~raced => \A u \in diedWith : HomeOnly(timers[u].player) => ~Moved(u)

(* A player is listed once, and only while a timer is under way: /home, which
   refuses listed players, stays open to it. *)
ListedIsPending ==
  ~raced => \A i \in 1..Len(listed) : HomeOnly(listed[i]) =>
    Pending(listed[i]) # {} /\ \A j \in 1..Len(listed) : listed[i] = listed[j] => i = j

(* Home teleports alone overdraw nobody: TpHome looks at the balance when it is
   asked for, the fare is spent unseen on arrival, and in between no other
   request of the player is charged. *)
FaresCovered == ~raced => \A p \in Players \ spent : points[p] >= 0

(* HomeInterrupt is sent only to players with a teleport under way. *)
InterruptIsTrue == ~raced => 0 \notin interrupted

(* Only the last request of a player moves it. *)
OnlyLastMoves ==
  [][\A u \in Uids : ~raced' /\ Moved(u)' /\ ~Moved(u) =>
       \A v \in Uids : timers[v].player = timers[u].player => v <= u]_vars

(* A frozen player gets its input back or dies. *)
InputComesBack ==
  \A p \in Players : p \in alive \cap frozen ~> p \notin alive \cap frozen \/ raced
=============================================================================
