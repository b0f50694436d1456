------------------------ MODULE MembershipRegistry ------------------------
(***************************************************************************)
(* What the Permissions plugin promises about permanent memberships: a     *)
(* registry that serves one request at a time and changes, for the request *)
(* it serves, one group of one subject and nothing else.  A subject is     *)
(* entered when a request that may create it, or its login, is served.     *)
(***************************************************************************)
CONSTANTS Players, Tribes, Groups, DefaultGroup, NoEntry

VARIABLES
  members,   \* the groups of each subject, NoEntry if it is unknown
  request    \* the request being served

Subjects == Players \cup Tribes

Init == members = [s \in Subjects |-> NoEntry]

Receive == UNCHANGED members

Enter(s) ==
  /\ request.op \in {"NewPlayer", "Add", "AddTimed"} /\ request.target = s
  /\ members[s] = NoEntry
  /\ members' = [members EXCEPT ![s] = IF s \in Players THEN {DefaultGroup} ELSE {}]

Join(s) ==
  /\ request.op = "Add" /\ request.target = s
  /\ members[s] # NoEntry
  /\ members' = [members EXCEPT ![s] = @ \cup {request.group}]

Quit(s) ==
  /\ request.op = "Remove" /\ request.target = s
  /\ members[s] # NoEntry
  /\ members' = [members EXCEPT ![s] = @ \ {request.group}]

Next ==
  \/ Receive
  \/ \E s \in Subjects : Enter(s) \/ Join(s) \/ Quit(s)

Spec == Init /\ [][Next]_<<members, request>>
=============================================================================
