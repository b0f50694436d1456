----------------------------- MODULE MCShopKits -----------------------------
(***************************************************************************)
(* An instance of ShopKits for TLC.                                        *)
(***************************************************************************)
EXTENDS ShopKits, FiniteSets, TLC

CONSTANTS k1, k2

AllOps == OwnOps \cup OperatorOps
OneEach == (k1 :> 1) @@ (k2 :> 0)
AddOrTake == {-1, 2}

Symmetry == Permutations(Players) \cup Permutations(Servers)

(* Operators write the documents of players who play on another server, and
   undo what those do: where operators act, all that happens happens on one
   server.  Without operators the servers are all in use. *)
VARIABLE operators

Active == {sv \in Servers : pc[sv] # "idle" \/ \E p \in Players : online[p] = sv}

ResetStep == pc' = pc /\ <<kits, due>>' # <<kits, due>>

GuardedInit == Init /\ operators \in BOOLEAN
GuardedNext ==
  /\ Next
  /\ UNCHANGED operators
  /\ operators => Cardinality(Active') <= 1
  /\ ~operators => \A sv \in Servers : cmd'[sv] # NoEntry => cmd'[sv].op \in OwnOps
  /\ ResetStep => operators /\ \A sv \in Servers : pc[sv] = "idle"
GuardedSpec == GuardedInit /\ [][GuardedNext]_<<vars, operators>>
=============================================================================
