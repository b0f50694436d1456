------------------------------ MODULE ShopKits ------------------------------
(***************************************************************************)
(* The kits of ArkShop on the servers that share a table.  The amounts a   *)
(* player has of each kit are one JSON document in its row: every change   *)
(* reads the document, changes one entry and writes it back whole.  A kit  *)
(* without an entry counts as its DefaultAmount.  Each server has one game *)
(* thread; between two statements another server may act, a statement may  *)
(* fail, and the server may die.  The price of a kit is in ShopLedger.     *)
(***************************************************************************)
EXTENDS Integers

CONSTANTS
  Servers, Players, Kits,
  DefaultAmount,  \* of each kit, in config.json
  Amounts,        \* the amounts players buy and operators add or take
  MaxAmount,      \* the largest of them
  Ops,            \* the operations in use
  Faults,         \* what may fail
  MaxFaults,      \* bound of the number of failures
  MaxOwned,       \* bound of the kits a player comes to own
  NoEntry

OwnOps == {"Redeem", "Buy", "Show"}   \* the player asks, on the server it plays on
OperatorOps == {"Change", "Reset"}

ASSUME KitsAssumption ==
  /\ DefaultAmount \in [Kits -> Nat]
  /\ MaxAmount \in Nat \ {0} /\ Amounts \subseteq (-MaxAmount)..MaxAmount
  /\ Ops \subseteq OwnOps \cup OperatorOps
  /\ Faults \subseteq {"read", "update", "reply", "crash"}
  /\ MaxFaults \in Nat /\ MaxOwned \in Nat
  /\ NoEntry \notin Int \cup Servers

VARIABLES
  kits,    \* the column Kits: of each player, the document
  online,  \* the server each player plays on, NoEntry for none
  pc,      \* how far each game thread is in its command
  cmd,     \* the command of each game thread, with the document it has read
  faults,  \* how many steps have failed
  unread,  \* history: the players whose document once could not be read
  due      \* history: the kits each player ought to own, counting as used only
           \* those it was given

vars == <<kits, online, pc, cmd, faults, unread, due>>

Empty == [k \in Kits |-> NoEntry]   \* the document "{}"
Docs == [Kits -> Nat \cup {NoEntry}]

Init ==
  /\ kits = [p \in Players |-> Empty]
  /\ online = [p \in Players |-> NoEntry]
  /\ pc = [sv \in Servers |-> "idle"]
  /\ cmd = [sv \in Servers |-> NoEntry]
  /\ faults = 0
  /\ unread = {}
  /\ due = [p \in Players |-> DefaultAmount]

(* "reply": the statement is executed, but the connection is lost before the
   answer, and the caller sees a failure. *)
Fails(kind) == kind \in Faults /\ faults < MaxFaults /\ faults' = faults + 1

Amount(doc, k) == IF doc[k] = NoEntry THEN DefaultAmount[k] ELSE doc[k]

(* GetPlayerKitsConfig: a read that fails looks like a player without entries. *)
Read(p, doc) ==
  \/ doc = kits[p] /\ UNCHANGED <<faults, unread>>
  \/ doc = Empty /\ Fails("read") /\ unread' = unread \cup {p}

GoTo(sv, label) == pc' = [pc EXCEPT ![sv] = label]
Finish(sv) == GoTo(sv, "idle") /\ cmd' = [cmd EXCEPT ![sv] = NoEntry]

Owe(p, k, n) == [due EXCEPT ![p][k] = @ + n]
---------------------------------------------------------------------------
Begin(sv, op, p, k, n) ==
  /\ op \in Ops /\ pc[sv] = "idle"
  /\ GoTo(sv, "load")
  /\ cmd' = [cmd EXCEPT ![sv] = [op |-> op, player |-> p, kit |-> k, n |-> n, doc |-> Empty]]
  /\ UNCHANGED <<kits, online>>

(* RedeemKit, and the spawn hook with one of its DefaultKits: GetKitAmount is
   read, and must be positive. *)
Redeem(sv, p, k) ==
  /\ online[p] = sv
  /\ \E doc \in {kits[p], Empty} : Read(p, doc) /\ Amount(doc, k) > 0
  /\ Begin(sv, "Redeem", p, k, -1)
  /\ UNCHANGED due

(* BuyKit, once SpendPoints has succeeded. *)
Buy(sv, p, k, n) ==
  /\ online[p] = sv /\ n > 0 /\ due[p][k] + n <= MaxOwned
  /\ Begin(sv, "Buy", p, k, n)
  /\ due' = Owe(p, k, n)
  /\ UNCHANGED <<faults, unread>>

(* ChangeKitAmount of an operator, of any player. *)
Change(sv, p, k, n) ==
  /\ n # 0 /\ due[p][k] + n <= MaxOwned
  /\ Begin(sv, "Change", p, k, n)
  /\ UNCHANGED <<faults, unread, due>>

(* ShowItems, with the plugin ArkShopUI: InitKitData reads the document and
   writes it back with an entry for every kit, of no kit in particular. *)
InitKitData(sv, p) ==
  /\ online[p] = sv /\ Kits # {}
  /\ Begin(sv, "Show", p, CHOOSE k \in Kits : TRUE, 0)
  /\ UNCHANGED <<faults, unread, due>>

(* ChangeKitAmount, or InitKitData: the document is read, ... *)
Load(sv) ==
  LET c == cmd[sv] IN
  /\ pc[sv] = "load"
  /\ \E doc \in {kits[c.player], Empty} :
       Read(c.player, doc) /\ cmd' = [cmd EXCEPT ![sv].doc = doc]
  /\ GoTo(sv, "save")
  /\ UNCHANGED <<kits, online, due>>

(* ... one entry of it changed, not below zero, or every one that is missing
   added, and written back with the rest.  The result matters to RedeemKit
   only. *)
NewAmountBug(c) == Amount(c.doc, c.kit) + c.n  \* mutation: below zero too
NewAmount(c) == LET n == Amount(c.doc, c.kit) + c.n IN IF n >= 0 THEN n ELSE 0
Changed(c) ==
  IF c.op = "Show" THEN [k \in Kits |-> Amount(c.doc, k)]
                   ELSE [c.doc EXCEPT ![c.kit] = NewAmount(c)]
WriteBug(c) ==  \* mutation: the other entries are not kept
  /\ kits' = [kits EXCEPT ![c.player] = [Empty EXCEPT ![c.kit] = NewAmount(c)]]
  /\ due' = IF c.op # "Change" THEN due
            ELSE Owe(c.player, c.kit, NewAmount(c) - Amount(c.doc, c.kit))
Write(c) ==
  /\ kits' = [kits EXCEPT ![c.player] = Changed(c)]
  /\ due' = IF c.op # "Change" THEN due
            ELSE Owe(c.player, c.kit, NewAmount(c) - Amount(c.doc, c.kit))
SaveBug(sv) ==  \* mutation: RedeemKit does not look at the result of ChangeKitAmount
  LET c == cmd[sv] IN
  /\ pc[sv] = "save"
  /\ \/ Write(c) /\ UNCHANGED faults
     \/ Fails("update") /\ UNCHANGED <<kits, due>>
  /\ IF c.op = "Redeem" THEN GoTo(sv, "give") /\ UNCHANGED cmd ELSE Finish(sv)
  /\ UNCHANGED <<online, unread>>
Save(sv) ==
  LET c == cmd[sv] IN
  /\ pc[sv] = "save"
  /\ \/ /\ Write(c) /\ UNCHANGED faults
        /\ IF c.op = "Redeem" THEN GoTo(sv, "give") /\ UNCHANGED cmd ELSE Finish(sv)
     \/ Fails("reply") /\ Write(c) /\ Finish(sv)
     \/ Fails("update") /\ Finish(sv) /\ UNCHANGED <<kits, due>>
  /\ UNCHANGED <<online, unread>>

(* GiveKitFromJson; the game does not report failures. *)
Give(sv) ==
  /\ pc[sv] = "give"
  /\ due' = Owe(cmd[sv].player, cmd[sv].kit, -1)
  /\ Finish(sv)
  /\ UNCHANGED <<kits, online, faults, unread>>

(* ResetKits: every document, in one statement. *)
Reset(sv) ==
  /\ "Reset" \in Ops /\ pc[sv] = "idle"
  /\ kits' = [p \in Players |-> Empty]
  /\ due' = [p \in Players |-> DefaultAmount]
  /\ UNCHANGED <<online, pc, cmd, faults, unread>>

Login(sv, p) ==
  /\ pc[sv] = "idle" /\ online[p] = NoEntry
  /\ online' = [online EXCEPT ![p] = sv]
  /\ UNCHANGED <<kits, pc, cmd, faults, unread, due>>

Logout(sv, p) ==
  /\ pc[sv] = "idle" /\ online[p] = sv
  /\ online' = [online EXCEPT ![p] = NoEntry]
  /\ UNCHANGED <<kits, pc, cmd, faults, unread, due>>

(* The process dies; the command it was in is forgotten. *)
Crash(sv) ==
  /\ Fails("crash")
  /\ Finish(sv)
  /\ online' = [p \in Players |-> IF online[p] = sv THEN NoEntry ELSE online[p]]
  /\ UNCHANGED <<kits, unread, due>>

Ask(sv) ==
  \E p \in Players :
    \/ Login(sv, p) \/ Logout(sv, p) \/ InitKitData(sv, p)
    \/ \E k \in Kits :
         \/ Redeem(sv, p, k)
         \/ \E n \in Amounts : Buy(sv, p, k, n) \/ Change(sv, p, k, n)

Next == \E sv \in Servers : Ask(sv) \/ Load(sv) \/ Save(sv) \/ Give(sv) \/ Reset(sv) \/ Crash(sv)

Spec == Init /\ [][Next]_vars
---------------------------------------------------------------------------
Cmd == [op : Ops, player : Players, kit : Kits, n : Amounts \cup {-1, 0}, doc : Docs]

TypeOK ==
  /\ kits \in [Players -> Docs]
  /\ online \in [Players -> Servers \cup {NoEntry}]
  /\ pc \in [Servers -> {"idle", "load", "save", "give"}]
  /\ DOMAIN cmd = Servers
  /\ \A sv \in Servers : IF pc[sv] = "idle" THEN cmd[sv] = NoEntry ELSE cmd[sv] \in Cmd
  /\ faults \in 0..MaxFaults
  /\ unread \subseteq Players
  /\ due \in [Players -> [Kits -> Int]]

(* What the command of sv has been paid for and not written yet, or has
   written off and not given yet. *)
HeldBy(sv, p, k) ==
  LET c == cmd[sv] IN
  IF pc[sv] = "idle" \/ online[p] # sv THEN 0
  ELSE IF c.player # p \/ c.kit # k THEN 0
  ELSE IF c.op = "Buy" THEN c.n
  ELSE IF pc[sv] = "give" THEN 1
  ELSE 0

Held(p, k) == IF online[p] \in Servers THEN HeldBy(online[p], p, k) ELSE 0

Lost(p, k) == due[p][k] - Amount(kits[p], k) - Held(p, k)

(* A player has the kits it was granted and paid for, less those it was given:
   none appears, and none is lost unless a statement failed or a server died,
   which costs at most the kits of one command.  ChangeKitAmount writes back
   the entries of every kit, so this fails if a document is stale when it is
   written; it is stated of the players whose documents were always read. *)
KitsConserved ==
  \A p \in Players \ unread, k \in Kits : Lost(p, k) >= 0 /\ Lost(p, k) <= faults * MaxAmount

(* A player is never given a kit it was not granted, did not pay for or has
   used: the default amount stands for a kit that was not used yet.  Where it
   is zero this does not even depend on reading the document. *)
NoFreeKits ==
  \A p \in Players, k \in Kits : p \notin unread \/ DefaultAmount[k] = 0 => due[p][k] >= 0
=============================================================================
