-------------------------- MODULE MCTeleportTimers --------------------------
(***************************************************************************)
(* An instance of TeleportTimers for TLC.                                  *)
(***************************************************************************)
EXTENDS TeleportTimers

(* What the code does with dinos, with points and with the list does not meet.
   Each behaviour has one of them in full: dinos ridden; points spent, on other
   things too; or one request more, where nobody comes back to life before all
   are dead.  It ends with its first race: nothing is promised after one. *)
VARIABLE scope

(* The players are interchangeable: let it be this one that asks first. *)
Asker == CHOOSE p \in Players : TRUE

ScopedInit ==
  /\ Init /\ scope \in {"dinos", "points", "list"}
  /\ scope # "points" => \A p \in Players : points[p] = MaxPoints
Scoped ==
  /\ Next
  /\ UNCHANGED scope
  /\ scope # "dinos" => UNCHANGED mount
  /\ scope = "dinos" => UNCHANGED points
  /\ scope # "points" => UNCHANGED spent
  /\ scope # "list" /\ game'.pc = "admitted" => Len(timers') + 1 < MaxRequests
  /\ scope = "list" => alive' \subseteq alive \/ alive = {}
  /\ ~raced
  /\ timers = <<>> /\ game'.pc = "admitted" => game'.player = Asker
Ended == raced /\ UNCHANGED <<vars, scope>>
ScopedNext == Scoped \/ Ended
FairScopedSpec == ScopedInit /\ [][ScopedNext]_<<vars, scope>> /\ Fairness
=============================================================================
