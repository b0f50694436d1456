---------------------------- MODULE DelayedTasks ----------------------------
(***************************************************************************)
(* The timer of the plugin SafeZone (SzTools.h), by the tasks that move a  *)
(* player to the spawn point the config gives for his region.  A task that *)
(* finds no character puts itself off by a second.  Update goes through    *)
(* the vector of tasks while the tasks it runs add to it and while it      *)
(* erases them, so that it leaves out tasks that are due, and keeps a task *)
(* it has run when the vector moved to make room.  The tasks for dinos and *)
(* for those a zone pushes back are in the same vector and move nobody.    *)
(***************************************************************************)
EXTENDS Naturals, SequencesExt

CONSTANTS
  Spawners,   \* the players
  MaxTasks    \* bound of the length of the vector when a hook adds a task

VARIABLES
  tasks,     \* tasks_: whom a task moves, if anyone, and the seconds until it is due
  capacity,  \* the capacity of the vector
  bodies,    \* the players that have a character
  waiting    \* history: the players to be moved

vars == <<tasks, capacity, bodies, waiting>>

Init == tasks = <<>> /\ capacity = 0 /\ bodies = {} /\ waiting = {}

(* push_back: a full vector moves to one half as large again. *)
Push(s, task) ==
  [s EXCEPT !.tasks = Append(@, task),
            !.capacity = IF Len(s.tasks) < @ THEN @
                         ELSE IF @ + (@ \div 2) > Len(s.tasks) THEN @ + (@ \div 2)
                         ELSE Len(s.tasks) + 1,
            !.moved = Len(s.tasks) = s.capacity]

Now == [tasks |-> tasks, capacity |-> capacity, moved |-> FALSE, waiting |-> waiting]

Becomes(s) == tasks' = s.tasks /\ capacity' = s.capacity /\ waiting' = s.waiting

(* TeleportPlayer, called for a player, and what is called for nobody. *)
TeleportBug(s, whom) ==  \* mutation: a player without a character is not looked for again
  [s EXCEPT !.waiting = IF whom \subseteq bodies THEN @ \ whom ELSE @]
Teleport(s, whom) ==
  IF whom \subseteq bodies THEN [s EXCEPT !.waiting = @ \ whom]
  ELSE Push(s, [of |-> whom, after |-> 1])

(* A player asks to respawn in a region: he is moved at once, or later. *)
Respawn(p) ==
  /\ Len(tasks) < MaxTasks
  /\ Becomes(Teleport([Now EXCEPT !.waiting = @ \cup {p}], {p}))
  /\ UNCHANGED bodies

(* A new player starts in a region: he is moved at the next Update. *)
StartNewShooterPlayer(p) ==
  /\ Len(tasks) < MaxTasks
  /\ Becomes(Push([Now EXCEPT !.waiting = @ \cup {p}], [of |-> {p}, after |-> 0]))
  /\ UNCHANGED bodies

(* A dino that appears is looked at two seconds later; a character that a zone
   has pushed back is at the next Update. *)
BeginPlay == Len(tasks) < MaxTasks /\ Becomes(Push(Now, [of |-> {}, after |-> 2])) /\ UNCHANGED bodies
DoPawnPush == Len(tasks) < MaxTasks /\ Becomes(Push(Now, [of |-> {}, after |-> 0])) /\ UNCHANGED bodies

(* Slot i of the vector as it was: one whose task has been moved down or out
   is empty, and so are all once the vector has moved.  A task that has been
   run is erased, unless its slot is one of those. *)
Visit(s, i) ==
  IF s.moved \/ i > Len(s.tasks) \/ s.tasks[i].after > 0 THEN s
  ELSE LET run == Teleport(s, s.tasks[i].of) IN
       IF run.moved THEN run ELSE [run EXCEPT !.tasks = RemoveAt(@, i)]

Update ==
  /\ \E s \in FoldLeft(LAMBDA S, i : {Visit(s, i) : s \in S}, {Now},
                      [i \in 1..Len(tasks) |-> i]) : Becomes(s)
  /\ UNCHANGED bodies

(* A second goes by. *)
Second ==
  /\ tasks' = [i \in DOMAIN tasks |-> [tasks[i] EXCEPT !.after = IF @ > 0 THEN @ - 1 ELSE 0]]
  /\ UNCHANGED <<capacity, bodies, waiting>>

(* A player gets a character or loses it. *)
Body(p) ==
  /\ bodies' = IF p \in bodies THEN bodies \ {p} ELSE bodies \cup {p}
  /\ UNCHANGED <<tasks, capacity, waiting>>

Next ==
  \/ Update \/ Second \/ BeginPlay \/ DoPawnPush
  \/ \E p \in Spawners : Respawn(p) \/ StartNewShooterPlayer(p) \/ Body(p)

Spec == Init /\ [][Next]_vars /\ WF_vars(Update) /\ WF_vars(Second)
---------------------------------------------------------------------------
(* A player that has a character for good is moved in the end, whatever
   tasks Update leaves out or runs again. *)
MovedInTheEnd ==
  \A p \in Spawners : <>[](p \in bodies) => [](p \in waiting => <>(p \notin waiting))
=============================================================================
