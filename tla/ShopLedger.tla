----------------------------- MODULE ShopLedger -----------------------------
(***************************************************************************)
(* The points of ArkShop and what the plugins do to them on the servers of *)
(* a cluster that share one table (or the one server of a SQLite file).    *)
(* Each server has one game thread, which runs a command or hook to its    *)
(* end; between two statements of it another server may act, a statement   *)
(* may fail, and the server may die.  The store, the kits, the sales and   *)
(* the trades of ArkShop, the rewards and fines of ShopRewards and what an *)
(* operator types are all here.  TotalSpent, which nothing reads, is not.  *)
(***************************************************************************)
EXTENDS Integers

CONSTANTS
  Servers, Players,
  Amounts,      \* the prices, rewards and amounts that occur
  MaxAmount,    \* the largest of them
  Balances,     \* what an operator may set an account to
  Ops,          \* the operations in use
  Faults,       \* what may fail
  MaxFaults,    \* bound of the number of failures
  MaxPoints,    \* bound of the points a player comes to own
  MinPoints,    \* bound of the debt an operator may charge
  NoEntry

Purchases == {"Buy", "BuyDino", "BuyKit"}
OwnOps == Purchases \cup {"Trade", "Penalty"}   \* the player pays, on the server it plays on
AllOps == OwnOps \cup {"Sell", "Grant", "Kill", "Charge", "Set", "Reset"}

ASSUME LedgerAssumption ==
  /\ MaxAmount \in Nat /\ Amounts \subseteq 1..MaxAmount /\ Balances \subseteq Int
  /\ Ops \subseteq AllOps
  /\ Faults \subseteq {"insert", "update", "reply", "crash"}
  /\ MaxFaults \in Nat /\ MaxPoints \in Nat /\ MinPoints \in Int
  /\ NoEntry \notin Int \cup Servers

VARIABLES
  points,    \* the column Points of each player, NoEntry without a row
  online,    \* the server each player plays on, NoEntry for none
  pc,        \* how far each game thread is in its command
  cmd,       \* the command of each game thread
  faults,    \* how many steps have failed
  due        \* history: the points each player ought to own, counting as paid
             \* only what the player got something for

vars == <<points, online, pc, cmd, faults, due>>

Init ==
  /\ points = [p \in Players |-> NoEntry]
  /\ online = [p \in Players |-> NoEntry]
  /\ pc = [sv \in Servers |-> "idle"]
  /\ cmd = [sv \in Servers |-> NoEntry]
  /\ faults = 0
  /\ due = [p \in Players |-> 0]

(* A step of this kind fails; "reply": the statement is executed, but the
   connection is lost before the answer, and the caller sees a failure. *)
Fails(kind) == kind \in Faults /\ faults < MaxFaults /\ faults' = faults + 1

Known(p) == points[p] # NoEntry
Has(p, n) == Known(p) /\ points[p] >= n
Plus(p, n) == [points EXCEPT ![p] = IF @ = NoEntry THEN NoEntry ELSE @ + n]
Owe(p, n) == [due EXCEPT ![p] = @ + n]
Room(p, n) == due[p] + n <= MaxPoints
-----------------------------------------------------------------------------
(***************************************************************************)
(* The first part of a command: its guards, up to the balance it reads.  A *)
(* failing read looks like a player without an account or points, and the  *)
(* command is refused.                                                     *)
(***************************************************************************)
Command(op, payer, amount, payee, gain) ==
  [op |-> op, payer |-> payer, amount |-> amount, payee |-> payee, gain |-> gain]

Begin(sv, label, c) ==
  /\ c.op \in Ops
  /\ pc[sv] = "idle"
  /\ pc' = [pc EXCEPT ![sv] = label]
  /\ cmd' = [cmd EXCEPT ![sv] = c]
  /\ UNCHANGED <<points, online, faults>>

Plays(p, sv) == online[p] = sv

(* Buy, BuyKit: a player buys an item, an engram, ..., a dino, a kit. *)
Buy(sv, p, n) ==
  /\ Plays(p, sv) /\ Has(p, n)
  /\ \E op \in Purchases : Begin(sv, "spend", Command(op, p, n, p, n))
  /\ UNCHANGED due

Trade(sv, p, q, n) ==
  /\ Plays(p, sv) /\ Has(p, n) /\ p # q /\ Room(q, n)
  /\ Begin(sv, "spend", Command("Trade", p, n, q, n))
  /\ UNCHANGED due

(* The fine for a kill that is not wanted, for players without NegativePoints. *)
Penalty(sv, p, n) ==
  /\ Plays(p, sv) /\ Has(p, n)
  /\ Begin(sv, "spend", Command("Penalty", p, n, p, n))
  /\ UNCHANGED due

(* A negative ChangePointsAmount, a fine with NegativePoints, or the fare of a
   home teleport, which was compared with the balance when it was requested. *)
Charge(sv, p, n) ==
  /\ Known(p) /\ points[p] - n >= MinPoints
  /\ Begin(sv, "spend", Command("Charge", p, n, p, n))
  /\ UNCHANGED due

(* The items leave the inventory at once. *)
SellItem(sv, p, n) ==
  /\ Plays(p, sv) /\ Known(p) /\ Room(p, n)
  /\ Begin(sv, "credit", Command("Sell", p, n, p, n))
  /\ due' = Owe(p, n)

(* AddPoints of an operator or the reward timer; for a dino killed by p. *)
Grant(sv, p, n) ==
  /\ Known(p) \/ Plays(p, sv)
  /\ Room(p, n)
  /\ Begin(sv, "credit", Command("Grant", p, n, p, n))
  /\ UNCHANGED due

KillUnchecked(sv, p, q, gain, lose) ==  \* mutation: the victim's points are not looked at
  /\ Plays(p, sv) /\ p # q /\ Known(q) /\ Room(p, gain)
  /\ Begin(sv, "credit", Command("Kill", q, lose, p, gain))
  /\ UNCHANGED due

(* Player p, on sv, kills q, whose body may be here while q plays elsewhere. *)
Kill(sv, p, q, gain, lose) ==
  /\ Plays(p, sv) /\ p # q /\ Known(q) /\ points[q] > lose /\ Room(p, gain)
  /\ Begin(sv, "credit", Command("Kill", q, lose, p, gain))
  /\ UNCHANGED due
-----------------------------------------------------------------------------
(***************************************************************************)
(* The statements of the command, in their order: SpendPoints, then what   *)
(* is paid for, or AddPoints, for a refund too.                            *)
(***************************************************************************)
FinishKeepingCommand(sv, label) ==  \* mutation: the command is not cleared
  /\ pc' = [pc EXCEPT ![sv] = label]
  /\ UNCHANGED <<cmd, online>>

Finish(sv, label) ==
  /\ pc' = [pc EXCEPT ![sv] = label]
  /\ cmd' = [cmd EXCEPT ![sv] = IF label = "idle" THEN NoEntry ELSE @]
  /\ UNCHANGED online

AfterSpend(op) ==
  CASE op \in Purchases -> "act"
    [] op = "Trade" -> "credit"
    [] OTHER -> "idle"

(* Trade looks for the receiver's account after it has read the balance. *)
Payable(c) == c.op = "Trade" => Known(c.payee)

Refuse(sv) ==
  /\ pc[sv] = "spend" /\ ~Payable(cmd[sv])
  /\ Finish(sv, "idle")
  /\ UNCHANGED <<points, faults, due>>

Spend(sv) ==
  LET c == cmd[sv]
      Deduct == points' = Plus(c.payer, -c.amount)
  IN
  /\ pc[sv] = "spend" /\ Payable(c)
  /\ \/ /\ Deduct /\ Finish(sv, AfterSpend(c.op))
        /\ due' = IF AfterSpend(c.op) = "idle" THEN Owe(c.payer, -c.amount) ELSE due
        /\ UNCHANGED faults
     \/ Fails("update") /\ Finish(sv, "idle") /\ UNCHANGED <<points, due>>
     \/ Fails("reply") /\ Deduct /\ Finish(sv, "idle") /\ UNCHANGED due

Deliver(sv) ==
  /\ pc[sv] = "act"
  /\ Finish(sv, "idle")
  /\ due' = Owe(cmd[sv].payer, -cmd[sv].amount)
  /\ UNCHANGED <<points, faults>>

(* ChangeKitAmount fails after BuyKit has been paid: its result is ignored. *)
LoseKit(sv) ==
  /\ pc[sv] = "act" /\ cmd[sv].op = "BuyKit" /\ Fails("update")
  /\ Finish(sv, "idle")
  /\ UNCHANGED <<points, due>>

GiveDinoFailsUnpaid(sv) ==  \* mutation: no refund
  /\ pc[sv] = "act" /\ cmd[sv].op = "BuyDino"
  /\ Finish(sv, "idle")
  /\ UNCHANGED <<points, faults, due>>

(* GiveDino may fail for reasons of the game; the price is paid back. *)
GiveDinoFails(sv) ==
  /\ pc[sv] = "act" /\ cmd[sv].op = "BuyDino"
  /\ Finish(sv, "credit")
  /\ UNCHANGED <<points, faults, due>>

(* A trade is settled when the receiver has the points; sold items and refunds
   were owed already. *)
Settled(c) ==
  CASE c.op = "Trade" -> [Owe(c.payer, -c.amount) EXCEPT ![c.payee] = @ + c.gain]
    [] c.op \in {"Grant", "Kill"} /\ Known(c.payee) -> Owe(c.payee, c.gain)
    [] OTHER -> due

AfterCreditIdle(c) == "idle"  \* mutation: the victim keeps its points

AfterCredit(c) == IF c.op = "Kill" /\ c.amount > 0 THEN "spend" ELSE "idle"

Credit(sv) ==
  LET c == cmd[sv]
      Add == points' = Plus(c.payee, c.gain) /\ due' = Settled(c)
  IN
  /\ pc[sv] = "credit"
  /\ \/ Add /\ Finish(sv, AfterCredit(c)) /\ UNCHANGED faults
     \/ Fails("update") /\ Finish(sv, "idle") /\ UNCHANGED <<points, due>>
     \/ Fails("reply") /\ Add /\ Finish(sv, "idle")
-----------------------------------------------------------------------------
(***************************************************************************)
(* The commands and hooks of one statement, and the world around them.     *)
(***************************************************************************)
SetPoints(sv, p, n) ==
  /\ "Set" \in Ops /\ pc[sv] = "idle" /\ Known(p) /\ Room(p, n - points[p])
  /\ points' = [points EXCEPT ![p] = n]
  /\ due' = Owe(p, n - points[p])
  /\ UNCHANGED <<online, pc, cmd, faults>>

ResetPoints(sv) ==
  /\ "Reset" \in Ops /\ pc[sv] = "idle"
  /\ points' = [p \in Players |-> IF Known(p) THEN 0 ELSE NoEntry]
  /\ due' = [p \in Players |-> IF Known(p) THEN due[p] - points[p] ELSE due[p]]
  /\ UNCHANGED <<online, pc, cmd, faults>>

(* A player without a row gets one at login, if the statement does not fail. *)
Login(sv, p) ==
  /\ pc[sv] = "idle" /\ online[p] = NoEntry
  /\ online' = [online EXCEPT ![p] = sv]
  /\ \/ points' = [points EXCEPT ![p] = IF Known(p) THEN @ ELSE 0] /\ UNCHANGED faults
     \/ Fails("insert") /\ ~Known(p) /\ UNCHANGED points
  /\ UNCHANGED <<pc, cmd, due>>

(* Every spawn tries again. *)
Spawn(sv, p) ==
  /\ pc[sv] = "idle" /\ Plays(p, sv) /\ ~Known(p)
  /\ points' = [points EXCEPT ![p] = 0]
  /\ UNCHANGED <<online, pc, cmd, faults, due>>

Logout(sv, p) ==
  /\ pc[sv] = "idle" /\ Plays(p, sv)
  /\ online' = [online EXCEPT ![p] = NoEntry]
  /\ UNCHANGED <<points, pc, cmd, faults, due>>

(* The process dies; the command it was in is forgotten. *)
Crash(sv) ==
  /\ Fails("crash")
  /\ pc' = [pc EXCEPT ![sv] = "idle"]
  /\ cmd' = [cmd EXCEPT ![sv] = NoEntry]
  /\ online' = [p \in Players |-> IF online[p] = sv THEN NoEntry ELSE online[p]]
  /\ UNCHANGED <<points, due>>

Player(sv) ==
  \E p \in Players :
    \/ Login(sv, p) \/ Spawn(sv, p) \/ Logout(sv, p)
    \/ \E n \in Amounts :
         \/ Buy(sv, p, n) \/ SellItem(sv, p, n) \/ Penalty(sv, p, n)
         \/ Grant(sv, p, n) \/ Charge(sv, p, n)
         \/ \E q \in Players : Trade(sv, p, q, n)
         \/ \E q \in Players, lose \in Amounts \cup {0} : Kill(sv, p, q, n, lose)
    \/ \E n \in Balances : SetPoints(sv, p, n)

Statement(sv) ==
  Refuse(sv) \/ Spend(sv) \/ Deliver(sv) \/ LoseKit(sv) \/ GiveDinoFails(sv) \/ Credit(sv)

Next == \E sv \in Servers : Player(sv) \/ ResetPoints(sv) \/ Statement(sv) \/ Crash(sv)

Spec == Init /\ [][Next]_vars
-----------------------------------------------------------------------------
(***************************************************************************)
(* Properties.                                                             *)
(***************************************************************************)
Cmd == [op : AllOps, payer : Players, amount : Amounts \cup {0},
        payee : Players, gain : Amounts]

(* The variables have their types, and a thread is idle exactly when it has
   no command. *)
TypeOK ==
  /\ points \in [Players -> Int \cup {NoEntry}]
  /\ online \in [Players -> Servers \cup {NoEntry}]
  /\ pc \in [Servers -> {"idle", "spend", "act", "credit"}]
  /\ DOMAIN cmd = Servers
  /\ \A sv \in Servers :
       IF pc[sv] = "idle" THEN cmd[sv] = NoEntry ELSE cmd[sv] \in Cmd /\ cmd[sv].op \in Ops
  /\ faults \in 0..MaxFaults
  /\ due \in [Players -> Int]

(* The command of sv has taken points or items from p and not yet delivered,
   paid back or sent on. *)
Holding(sv, p, ops) ==
  pc[sv] \in {"act", "credit"} /\ cmd[sv].payer = p /\ cmd[sv].op \in ops

Held(p, ops) ==
  IF online[p] \in Servers /\ Holding(online[p], p, ops) THEN cmd[online[p]].amount ELSE 0

Taking == Purchases \cup {"Trade", "Sell"}

Lost(p) == due[p] - points[p] - Held(p, Taking)

(* No operation creates points, and none loses any unless a statement failed
   or a server died: each failure costs at most the amount of one command.
   This covers every early return of Store.cpp, StoreSell.cpp, Kits.cpp and
   Points.cpp, the refund of BuyDino and the hooks of ShopRewards. *)
Conserved == \A p \in Players : Known(p) => Lost(p) >= 0 /\ Lost(p) <= faults * MaxAmount

(* No account falls below zero: the balance a command has read still covers
   what it spends when it spends it, although the UPDATE of SpendPoints does
   not look at the balance. *)
NoOverdraft == \A p \in Players : Known(p) => points[p] >= 0

(***************************************************************************)
(* The accounts as an abstract ledger: a command's points belong to its    *)
(* payer until it has delivered, and the payer of a command that holds     *)
(* points plays on the server of the command.                              *)
(***************************************************************************)
Balance == [p \in Players |-> IF Known(p) THEN points[p] + Held(p, Taking \ {"Sell"}) ELSE NoEntry]

Asked(sv) ==
  LET c == cmd[sv]
      Pay == [kind |-> "pay", player |-> c.payer, amount |-> c.amount]
      Earn == [kind |-> "earn", player |-> c.payee, amount |-> c.gain]
      Transfer == [kind |-> "transfer", player |-> c.payer, to |-> c.payee, amount |-> c.amount]
      Reward == [kind |-> "reward", player |-> c.payee, amount |-> c.gain,
                 from |-> c.payer, fine |-> c.amount]
  IN
  IF pc[sv] = "idle" THEN [kind |-> "none"]
  ELSE CASE c.op = "Trade" -> Transfer
         [] pc[sv] = "credit" /\ c.op \in {"Sell", "Grant"} -> Earn
         [] pc[sv] = "credit" /\ c.op = "Kill" -> IF c.amount > 0 THEN Reward ELSE Earn
         [] OTHER -> Pay

Ledger == INSTANCE PointsLedger WITH
  balance <- Balance, request <- [sv \in Servers |-> Asked(sv)], failures <- faults

(* Every command moves its points once or not at all, and a failure between
   two of its statements costs its payer the amount and nobody else: trades,
   refunds and kills are each two statements in no transaction. *)
ImplementsLedger == Ledger!Spec
=============================================================================
