---------------------------- MODULE MCShopLedger ----------------------------
(***************************************************************************)
(* Instances of ShopLedger for TLC.                                        *)
(***************************************************************************)
EXTENDS ShopLedger, FiniteSets, TLC

PlayerOps == OwnOps \cup {"Sell", "Grant"}
LedgerOps == PlayerOps \cup {"Kill"}
AllFaults == {"insert", "update", "reply", "crash"}
Debt == -1

Symmetry == Permutations(Players) \cup Permutations(Servers)

(* Kills are fined on one server only (see Guarded): in a behaviour that has
   them, all that happens happens on one server. *)
VARIABLE kills

Active == {sv \in Servers : pc[sv] # "idle" \/ \E p \in Players : online[p] = sv}

ClusterInit == Init /\ kills \in BOOLEAN
ClusterNext ==
  /\ Next
  /\ UNCHANGED kills
  /\ IF kills THEN Cardinality(Active') <= 1
     ELSE \A sv \in Servers : cmd'[sv] # NoEntry => cmd'[sv].op # "Kill"
ClusterSpec == ClusterInit /\ [][ClusterNext]_<<vars, kills>>

(* Everything, everywhere. *)
AccountsInit == Init /\ kills = TRUE
AccountsNext == Next /\ UNCHANGED kills
AccountsSpec == AccountsInit /\ [][AccountsNext]_<<vars, kills>>
=============================================================================
