------------------------ MODULE MCPermissionsMysql ------------------------
(***************************************************************************)
(* Instances of PermissionsMysql for TLC.  All commands on all servers at  *)
(* once are beyond TLC; each behaviour stays in one scope.                 *)
(***************************************************************************)
EXTENDS PermissionsMysql

CONSTANTS p1, t1, sv1, w1, Scopes

VARIABLE scope

NoTribe == [p \in Players |-> NoEntry]
OneThread == {<<sv1, w1>>}

OpsOf == [
  lists  |-> {"Add", "Remove"},                            \* from every server
  tribes |-> {"Add", "Remove", "AddTimed", "RemoveTimed"}, \* from one server, while time passes
  rights |-> {"Grant", "Revoke"},                          \* from one server
  timed  |-> {"NewPlayer", "Add", "AddTimed", "RemoveTimed"},
  groups |-> {"Add", "AddGroup", "RemoveGroup"}]

InScope(c) == c # NoCmd => c.op \in OpsOf[scope] /\ (c.target \in Tribes <=> scope = "tribes")

ScopedInit == Init /\ scope \in Scopes

ScopedNext ==
  /\ Next
  /\ UNCHANGED scope
  /\ \A sv \in Servers : InScope(cmd'[sv]) /\ (sv # sv1 /\ scope # "lists" => cmd'[sv] = NoCmd)
  /\ scope = "tribes" => UNCHANGED faults
  /\ scope = "groups" => \A sv \in Servers : faults' # faults => pc[sv] = "update"
  /\ scope # "tribes" => UNCHANGED now

ScopedSpec == ScopedInit /\ [][ScopedNext]_<<vars, scope>>
FairScopedSpec == ScopedSpec /\ Fairness
=============================================================================
