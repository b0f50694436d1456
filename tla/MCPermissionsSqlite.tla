------------------------ MODULE MCPermissionsSqlite ------------------------
(* Instances of PermissionsSqlite for TLC. *)
EXTENDS PermissionsSqlite

CONSTANTS p1, p2, t1

InTribe == [p \in Players |-> IF p = p1 THEN t1 ELSE NoEntry]

NoTribe == [p \in Players |-> NoEntry]
=============================================================================
