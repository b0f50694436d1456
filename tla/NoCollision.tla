---------------------------- MODULE NoCollision ----------------------------
(***************************************************************************)
(* The plugin NoCollision: the builders that may place structures without  *)
(* collision, in an array that decides and in a table that outlives the    *)
(* server.  Commands run on the game thread, each to its end.              *)
(***************************************************************************)
EXTENDS Integers

CONSTANTS
  Builders,
  Faults,     \* the statements that may fail: "insert", "load"
  MaxFaults   \* bound of the number of failures

VARIABLES
  table,    \* the SteamIds in the table NoCollision
  allowed,  \* AllowedNoCollisionBuilders
  faults,   \* how many statements have failed
  added,    \* history: the builders "Added to NoCollision", until "Removed"
  unsaved   \* history: those of them whose row could not be written or read

vars == <<table, allowed, faults, added, unsaved>>

Init ==
  /\ table = {} /\ allowed = {}
  /\ faults = 0
  /\ added = {} /\ unsaved = {}

Fails(kind) == kind \in Faults /\ faults < MaxFaults /\ faults' = faults + 1

(* nc.add: the builder is told so whatever becomes of the row. *)
Add(b) ==
  /\ b \notin allowed
  /\ allowed' = allowed \cup {b}
  /\ added' = added \cup {b}
  /\ \/ table' = table \cup {b} /\ unsaved' = unsaved \ {b} /\ UNCHANGED faults
     \/ Fails("insert") /\ unsaved' = unsaved \cup {b} /\ UNCHANGED table

(* nc.remove: DBRemoveNoCollision deletes the row only if there is none. *)
Remove(b) ==
  /\ b \in allowed
  /\ allowed' = allowed \ {b}
  /\ table' = IF b \notin table THEN table \ {b} ELSE table
  /\ added' = added \ {b}
  /\ UNCHANGED <<faults, unsaved>>

(* The server ends, and InitSqlLite reads the table when it starts again. *)
RestartBug ==  \* mutation: the table is not read
  /\ allowed' = {}
  /\ UNCHANGED <<table, faults, added, unsaved>>
Restart ==
  /\ \/ allowed' = table /\ unsaved' = unsaved \ table /\ UNCHANGED faults
     \/ Fails("load") /\ allowed' = {} /\ unsaved' = Builders
  /\ UNCHANGED <<table, added>>

Next == Restart \/ \E b \in Builders : Add(b) \/ Remove(b)

Spec == Init /\ [][Next]_vars
---------------------------------------------------------------------------
(* A builder that was told it is added may build, after any number of
   restarts, unless its row was not written or the table was not read. *)
AddedStays == added \ unsaved \subseteq allowed

(* A builder that was told it is removed may not build, after a restart
   either. *)
RemovedStays == allowed \subseteq added
=============================================================================
