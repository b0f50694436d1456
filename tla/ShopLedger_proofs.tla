-------------------------- MODULE ShopLedger_proofs --------------------------
(***************************************************************************)
(* Theorems about the points of ArkShop.                                   *)
(***************************************************************************)
EXTENDS ShopLedger, TLAPS

(* What a command is like at each of its steps. *)
Fits(label, c) ==
  /\ label = "spend" => c.op \in OwnOps \cup {"Charge", "Kill"} /\ c.amount \in Amounts
  /\ label = "act" => c.op \in Purchases
  /\ label = "credit" => c.op \in {"Trade", "Sell", "Grant", "Kill", "BuyDino"}
  /\ c.op # "Kill" => c.amount \in Amounts /\ c.gain = c.amount
  /\ c.op \in {"Trade", "Kill"} <=> c.payer # c.payee

(* Its accounts exist, and a player that pays plays on its server. *)
Placed(sv, label, c) ==
  /\ c.op # "Grant" => Known(c.payer)
  /\ label = "credit" /\ c.op = "Trade" => Known(c.payee)
  /\ c.op \in OwnOps \cup {"Sell"} => Plays(c.payer, sv)

Phase ==
  \A sv \in Servers :
    pc[sv] # "idle" => Fits(pc[sv], cmd[sv]) /\ Placed(sv, pc[sv], cmd[sv])

TypeInv == TypeOK /\ Phase
-----------------------------------------------------------------------------
(* Lemmas about the bookkeeping. *)

(* Adding to an account changes that account, and opens none. *)
LEMMA PlusFacts ==
  ASSUME TypeOK, NEW p \in Players, NEW n \in Int
  PROVE  /\ Plus(p, n) \in [Players -> Int \cup {NoEntry}]
         /\ \A q \in Players :
              Plus(p, n)[q] = IF q = p /\ Known(q) THEN points[q] + n ELSE points[q]
BY DEF TypeOK, Plus, Known

(* The same of what a player ought to own. *)
LEMMA OweFacts ==
  ASSUME TypeOK, NEW p \in Players, NEW n \in Int
  PROVE  /\ Owe(p, n) \in [Players -> Int]
         /\ \A q \in Players : Owe(p, n)[q] = IF q = p THEN due[q] + n ELSE due[q]
BY DEF TypeOK, Owe

(* Amounts are positive integers, an account's points an integer. *)
LEMMA Numbers ==
  ASSUME TypeOK
  PROVE  /\ NoEntry \notin Int /\ NoEntry \notin Servers
         /\ Amounts \subseteq Int /\ \A n \in Amounts : n > 0 /\ n <= MaxAmount
         /\ MaxAmount \in Nat
         /\ \A p \in Players : Known(p) => points[p] \in Int
         /\ \A p \in Players : due[p] \in Int
         /\ faults \in Nat
BY LedgerAssumption DEF TypeOK, Known

(* Settling a trade or a gift. *)
LEMMA SettledFacts ==
  ASSUME TypeOK, NEW c \in Cmd, c.op = "Trade" => c.payer # c.payee
  PROVE  /\ Settled(c) \in [Players -> Int]
         /\ \A q \in Players :
              Settled(c)[q] =
                IF c.op = "Trade"
                  THEN IF q = c.payer THEN due[q] - c.amount
                       ELSE IF q = c.payee THEN due[q] + c.gain ELSE due[q]
                  ELSE IF c.op \in {"Grant", "Kill"} /\ Known(c.payee) /\ q = c.payee
                         THEN due[q] + c.gain ELSE due[q]
<1>1. c.payer \in Players /\ c.payee \in Players /\ c.amount \in Int /\ c.gain \in Int
  BY Numbers DEF Cmd
<1>2. CASE c.op = "Trade"
  <2>1. Settled(c) = [Owe(c.payer, -c.amount) EXCEPT ![c.payee] = @ + c.gain]
    BY <1>2 DEF Settled
  <2>2. /\ Owe(c.payer, -c.amount) \in [Players -> Int]
        /\ \A q \in Players : Owe(c.payer, -c.amount)[q] =
                                IF q = c.payer THEN due[q] - c.amount ELSE due[q]
    <3>1. -c.amount \in Int
      BY <1>1
    <3> QED
      BY <1>1, <3>1, OweFacts, Numbers
  <2> QED
    BY <1>1, <1>2, <2>1, <2>2
<1>3. CASE c.op \in {"Grant", "Kill"} /\ Known(c.payee)
  <2>1. Settled(c) = Owe(c.payee, c.gain)
    BY <1>3 DEF Settled
  <2>2. /\ Owe(c.payee, c.gain) \in [Players -> Int]
        /\ \A q \in Players : Owe(c.payee, c.gain)[q] =
                                IF q = c.payee THEN due[q] + c.gain ELSE due[q]
    BY <1>1, OweFacts
  <2> QED
    BY <1>1, <1>3, <2>1, <2>2
<1>4. CASE c.op # "Trade" /\ ~(c.op \in {"Grant", "Kill"} /\ Known(c.payee))
  <2>1. Settled(c) = due
    BY <1>4 DEF Settled
  <2> QED
    BY <1>4, <2>1 DEF TypeOK
<1> QED
  BY <1>2, <1>3, <1>4
-----------------------------------------------------------------------------
(* Type correctness. *)

(* A failing step is counted. *)
LEMMA FailsType ==
  ASSUME TypeOK, NEW kind, Fails(kind)
  PROVE  faults' \in 0..MaxFaults
BY LedgerAssumption DEF Fails, TypeOK

(* The first part of a command. *)
LEMMA BeginType ==
  ASSUME TypeInv, NEW sv \in Servers, NEW label \in {"spend", "credit"}, NEW c \in Cmd,
         Begin(sv, label, c), Fits(label, c), Placed(sv, label, c), due' \in [Players -> Int]
  PROVE  TypeInv'
<1>1. points' = points /\ online' = online /\ faults' = faults
  BY DEF Begin
<1>2. pc' \in [Servers -> {"idle", "spend", "act", "credit"}] /\ DOMAIN cmd' = Servers
  BY DEF Begin, TypeInv, TypeOK
<1>3. pc'[sv] = label /\ cmd'[sv] = c /\ c.op \in Ops
  BY DEF Begin, TypeInv, TypeOK
<1>4. \A w \in Servers \ {sv} : pc'[w] = pc[w] /\ cmd'[w] = cmd[w]
  BY DEF Begin, TypeInv, TypeOK
<1>5. TypeOK'
  BY <1>1, <1>2, <1>3, <1>4 DEF TypeInv, TypeOK
<1>6. Phase'
  BY <1>1, <1>3, <1>4 DEF TypeInv, Phase, Placed, Known, Plays
<1> QED
  BY <1>5, <1>6 DEF TypeInv

(* The steps after it. *)
LEMMA FinishType ==
  ASSUME TypeInv, NEW sv \in Servers, NEW label \in {"idle", "spend", "credit", "act"},
         pc[sv] # "idle", Finish(sv, label),
         label # "idle" => Fits(label, cmd[sv]),
         label = "credit" /\ cmd[sv].op = "Trade" => Known(cmd[sv].payee),
         points' \in [Players -> Int \cup {NoEntry}], due' \in [Players -> Int],
         faults' \in 0..MaxFaults, \A p \in Players : Known(p) => Known(p)'
  PROVE  TypeInv'
<1>1. pc' \in [Servers -> {"idle", "spend", "act", "credit"}] /\ DOMAIN cmd' = Servers
  BY DEF Finish, TypeInv, TypeOK
<1>2. pc'[sv] = label /\ cmd'[sv] = IF label = "idle" THEN NoEntry ELSE cmd[sv]
  BY DEF Finish, TypeInv, TypeOK
<1>3. online' = online /\ \A w \in Servers \ {sv} : pc'[w] = pc[w] /\ cmd'[w] = cmd[w]
  BY DEF Finish, TypeInv, TypeOK
<1>4. TypeOK'
  BY <1>1, <1>2, <1>3 DEF TypeInv, TypeOK
<1>5. \A w \in Servers : pc[w] # "idle" => cmd[w].payer \in Players /\ cmd[w].payee \in Players
  BY DEF TypeInv, TypeOK, Cmd
<1>6. ASSUME NEW w \in Servers, pc'[w] # "idle"
      PROVE  Fits(pc'[w], cmd'[w]) /\ Placed(w, pc[w], cmd[w])'
  <2>1. pc[w] # "idle" /\ cmd'[w] = cmd[w] /\ Fits(pc[w], cmd[w]) /\ Placed(w, pc[w], cmd[w])
    BY <1>2, <1>3, <1>6 DEF TypeInv, Phase
  <2>2. Fits(pc'[w], cmd'[w])
    BY <1>2, <1>3, <1>6, <2>1
  <2>3. cmd[w].op # "Grant" => Known(cmd[w].payer)'
    BY <1>5, <2>1 DEF Placed
  <2>4. pc'[w] = "credit" /\ cmd[w].op = "Trade" => Known(cmd[w].payee)'
    BY <1>2, <1>3, <1>5, <2>1 DEF Placed
  <2> QED
    BY <1>3, <2>1, <2>2, <2>3, <2>4 DEF Placed, Plays, Known
<1> QED
  BY <1>4, <1>6 DEF TypeInv, Phase

(* The first parts of all commands. *)
LEMMA CommandType ==
  ASSUME TypeInv, NEW sv \in Servers, NEW p \in Players, NEW q \in Players,
         NEW n \in Amounts, NEW lose \in Amounts \cup {0},
         \/ Buy(sv, p, n) \/ Trade(sv, p, q, n) \/ Penalty(sv, p, n) \/ Charge(sv, p, n)
         \/ SellItem(sv, p, n) \/ Grant(sv, p, n) \/ Kill(sv, p, q, n, lose)
  PROVE  TypeInv'
<1> USE DEF Command, Fits, Placed, Has, Purchases, OwnOps, AllOps
<1>1. due \in [Players -> Int] /\ Owe(p, n) \in [Players -> Int]
  BY Numbers, OweFacts DEF TypeInv, TypeOK
<1>2. \A op \in AllOps : Command(op, p, n, p, n) \in Cmd /\ Command(op, p, n, q, n) \in Cmd
                           /\ Command(op, q, lose, p, n) \in Cmd
  BY DEF Cmd
<1>3. CASE Buy(sv, p, n)
  <2>1. PICK op \in Purchases : Begin(sv, "spend", Command(op, p, n, p, n))
    BY <1>3 DEF Buy
  <2> QED
    BY <1>1, <1>2, <1>3, <2>1, BeginType DEF Buy
<1>4. CASE Trade(sv, p, q, n)
  BY <1>1, <1>2, <1>4, BeginType DEF Trade
<1>5. CASE Penalty(sv, p, n)
  BY <1>1, <1>2, <1>5, BeginType DEF Penalty
<1>6. CASE Charge(sv, p, n)
  BY <1>1, <1>2, <1>6, BeginType DEF Charge
<1>7. CASE SellItem(sv, p, n)
  BY <1>1, <1>2, <1>7, BeginType DEF SellItem
<1>8. CASE Grant(sv, p, n)
  BY <1>1, <1>2, <1>8, BeginType DEF Grant
<1>9. CASE Kill(sv, p, q, n, lose)
  BY <1>1, <1>2, <1>9, BeginType DEF Kill
<1> QED
  BY <1>3, <1>4, <1>5, <1>6, <1>7, <1>8, <1>9

(* The statements of a command. *)
LEMMA StatementType ==
  ASSUME TypeInv, NEW sv \in Servers, Statement(sv)
  PROVE  TypeInv' /\ pc[sv] # "idle" /\ \A p \in Players : Known(p) => Known(p)'
<1> DEFINE c == cmd[sv]
<1>1. pc[sv] # "idle"
  BY DEF Statement, Refuse, Spend, Deliver, LoseKit, GiveDinoFails, Credit
<1>2. c \in Cmd /\ Fits(pc[sv], c) /\ Placed(sv, pc[sv], c)
  BY <1>1 DEF TypeInv, TypeOK, Phase
<1>3. c.payer \in Players /\ c.payee \in Players /\ c.amount \in Int /\ c.gain \in Int
  BY <1>2, Numbers DEF Cmd, TypeInv
<1>4. -c.amount \in Int
  BY <1>3
<1>5. \A p \in Players, n \in Int : Owe(p, n) \in [Players -> Int]
  BY OweFacts DEF TypeInv
<1>6. /\ points \in [Players -> Int \cup {NoEntry}] /\ due \in [Players -> Int]
      /\ faults \in 0..MaxFaults
  BY DEF TypeInv, TypeOK
<1>7. ASSUME NEW p \in Players, NEW n \in Int, points' = Plus(p, n)
      PROVE  /\ points' \in [Players -> Int \cup {NoEntry}]
             /\ \A q \in Players : Known(q) => Known(q)'
  <2>1. \A q \in Players : Known(q) => points[q] + n # NoEntry
    BY Numbers DEF TypeInv
  <2> QED
    BY <1>7, <2>1, PlusFacts DEF TypeInv, Known
<1>8. UNCHANGED points => \A q \in Players : Known(q) => Known(q)'
  BY DEF Known
<1>9. CASE Refuse(sv)
  BY <1>1, <1>6, <1>8, <1>9, FinishType DEF Refuse
<1>10. CASE Spend(sv)
  <2>1. c.op \in OwnOps \cup {"Charge", "Kill"} /\ c.amount \in Amounts
    BY <1>2, <1>10 DEF Spend, Fits
  <2>2. points' = Plus(c.payer, -c.amount) \/ UNCHANGED points
    BY <1>10 DEF Spend
  <2>3. /\ points' \in [Players -> Int \cup {NoEntry}]
        /\ \A q \in Players : Known(q) => Known(q)'
    BY <1>3, <1>4, <1>6, <1>7, <1>8, <2>2
  <2>4. due' \in [Players -> Int]
    BY <1>3, <1>4, <1>5, <1>6, <1>10 DEF Spend
  <2>5. faults' \in 0..MaxFaults
    BY <1>6, <1>10, FailsType DEF Spend, TypeInv
  <2>6. CASE Finish(sv, "idle")
    BY <1>1, <2>3, <2>4, <2>5, <2>6, FinishType
  <2>7. CASE Finish(sv, AfterSpend(c.op))
    <3>1. AfterSpend(c.op) \in {"act", "credit", "idle"}
      BY DEF AfterSpend
    <3>2. AfterSpend(c.op) = "act" => c.op \in Purchases
      BY DEF AfterSpend, Purchases
    <3>3. AfterSpend(c.op) = "credit" => c.op = "Trade"
      BY DEF AfterSpend, Purchases
    <3>4. AfterSpend(c.op) # "idle" => Fits(AfterSpend(c.op), c)
      BY <1>2, <3>1, <3>2, <3>3 DEF Fits
    <3>5. c.op = "Trade" => Known(c.payee)
      BY <1>10 DEF Spend, Payable
    <3> QED
      BY <1>1, <2>3, <2>4, <2>5, <2>7, <3>1, <3>4, <3>5, FinishType
  <2> QED
    BY <1>10, <2>3, <2>6, <2>7 DEF Spend
<1>11. CASE Deliver(sv)
  <2>1. due' \in [Players -> Int]
    BY <1>3, <1>4, <1>5, <1>11 DEF Deliver
  <2> QED
    BY <1>1, <1>6, <1>8, <1>11, <2>1, FinishType DEF Deliver
<1>12. CASE LoseKit(sv)
  <2>1. faults' \in 0..MaxFaults
    BY <1>12, FailsType DEF LoseKit, TypeInv
  <2> QED
    BY <1>1, <1>6, <1>8, <1>12, <2>1, FinishType DEF LoseKit
<1>13. CASE GiveDinoFails(sv)
  <2>1. Fits("credit", c) /\ c.op # "Trade"
    BY <1>2, <1>13 DEF GiveDinoFails, Fits
  <2> QED
    BY <1>1, <1>6, <1>8, <1>13, <2>1, FinishType DEF GiveDinoFails
<1>14. CASE Credit(sv)
  <2>1. c.op \in {"Trade", "Sell", "Grant", "Kill", "BuyDino"}
    BY <1>2, <1>14 DEF Credit, Fits
  <2>2. Settled(c) \in [Players -> Int]
    BY <1>2, SettledFacts DEF Fits, TypeInv
  <2>3. points' = Plus(c.payee, c.gain) \/ UNCHANGED points
    BY <1>14 DEF Credit
  <2>4. /\ points' \in [Players -> Int \cup {NoEntry}]
        /\ \A q \in Players : Known(q) => Known(q)'
    BY <1>3, <1>6, <1>7, <1>8, <2>3
  <2>5. due' \in [Players -> Int]
    BY <1>6, <1>14, <2>2 DEF Credit
  <2>6. faults' \in 0..MaxFaults
    BY <1>6, <1>14, FailsType DEF Credit, TypeInv
  <2>7. CASE Finish(sv, "idle")
    BY <1>1, <2>4, <2>5, <2>6, <2>7, FinishType
  <2>8. CASE Finish(sv, AfterCredit(c)) /\ AfterCredit(c) # "idle"
    <3>1. AfterCredit(c) = "spend" /\ c.op = "Kill" /\ c.amount > 0
      BY <2>8 DEF AfterCredit
    <3>2. Fits("spend", c)
      BY <1>2, <3>1 DEF Fits, Cmd
    <3> QED
      BY <1>1, <2>4, <2>5, <2>6, <2>8, <3>1, <3>2, FinishType
  <2> QED
    BY <1>14, <2>4, <2>7, <2>8 DEF Credit
<1> QED
  BY <1>1, <1>8, <1>9, <1>10, <1>11, <1>12, <1>13, <1>14
     DEF Statement, Refuse, Deliver, LoseKit, GiveDinoFails

(* Steps that keep every command and move no player away from one. *)
LEMMA WorldKeeps ==
  ASSUME TypeInv, UNCHANGED <<pc, cmd>>,
         points' \in [Players -> Int \cup {NoEntry}], due' \in [Players -> Int],
         online' \in [Players -> Servers \cup {NoEntry}], faults' \in 0..MaxFaults,
         \A p \in Players : Known(p) => Known(p)',
         \A p \in Players, sv \in Servers :
           pc[sv] # "idle" /\ Plays(p, sv) => Plays(p, sv)'
  PROVE  TypeInv'
<1>1. TypeOK'
  BY DEF TypeInv, TypeOK
<1>2. ASSUME NEW sv \in Servers, pc[sv] # "idle"
      PROVE  Fits(pc[sv], cmd[sv]) /\ Placed(sv, pc[sv], cmd[sv])'
  <2>1. cmd[sv].payer \in Players /\ cmd[sv].payee \in Players
    BY <1>2 DEF TypeInv, TypeOK, Cmd
  <2>2. Fits(pc[sv], cmd[sv]) /\ Placed(sv, pc[sv], cmd[sv])
    BY <1>2 DEF TypeInv, Phase
  <2> QED
    BY <1>2, <2>1, <2>2 DEF Placed
<1> QED
  BY <1>1, <1>2 DEF TypeInv, Phase

(* Every step is the first part of a command, a statement of one, or one of
   the world's. *)
First(sv) ==
  \E p \in Players, q \in Players, n \in Amounts, lose \in Amounts \cup {0} :
    \/ Buy(sv, p, n) \/ Trade(sv, p, q, n) \/ Penalty(sv, p, n) \/ Charge(sv, p, n)
    \/ SellItem(sv, p, n) \/ Grant(sv, p, n) \/ Kill(sv, p, q, n, lose)

World(sv) ==
  \/ ResetPoints(sv) \/ Crash(sv)
  \/ \E p \in Players : \/ \E n \in Balances : SetPoints(sv, p, n)
                        \/ Login(sv, p) \/ Spawn(sv, p) \/ Logout(sv, p)

(* Every step is the beginning of a command, a statement, or the world's. *)
LEMMA Steps ==
  ASSUME Next
  PROVE  \E sv \in Servers : First(sv) \/ Statement(sv) \/ World(sv)
<1>1. PICK sv \in Servers : Player(sv) \/ ResetPoints(sv) \/ Statement(sv) \/ Crash(sv)
  BY DEF Next
<1>2. CASE Player(sv)
  BY <1>2 DEF Player, First, World
<1> QED
  BY <1>1, <1>2 DEF World

(* The operators' corrections, logins, spawns and logouts, and crashes. *)
LEMMA WorldType ==
  ASSUME TypeInv, NEW sv \in Servers, World(sv)
  PROVE  TypeInv' /\ \A q \in Players : Known(q) => Known(q)'
<1> DEFINE Kept == TypeInv' /\ \A q \in Players : Known(q) => Known(q)'
<1> USE Numbers, LedgerAssumption DEF TypeInv
<1>1. /\ points \in [Players -> Int \cup {NoEntry}] /\ due \in [Players -> Int]
      /\ online \in [Players -> Servers \cup {NoEntry}] /\ faults \in 0..MaxFaults
  BY DEF TypeOK
<1>2. ASSUME NEW p \in Players, NEW n \in Balances, SetPoints(sv, p, n) PROVE Kept
  <2>1. SetPoints(sv, p, n)
    BY <1>2
  <2>2. n \in Int /\ n - points[p] \in Int
    BY <2>1 DEF SetPoints
  <2>3. due' \in [Players -> Int] /\ points' \in [Players -> Int \cup {NoEntry}]
    BY <1>1, <2>1, <2>2, OweFacts DEF SetPoints
  <2>4. \A q \in Players : Known(q) => Known(q)'
    BY <1>1, <2>1, <2>2 DEF SetPoints, Known
  <2> QED
    BY <1>1, <2>1, <2>3, <2>4, WorldKeeps DEF SetPoints, Plays
<1>3. CASE ResetPoints(sv)
  <2>1. due' \in [Players -> Int] /\ points' \in [Players -> Int \cup {NoEntry}]
    BY <1>1, <1>3 DEF ResetPoints
  <2>2. \A q \in Players : Known(q) => Known(q)'
    BY <1>1, <1>3 DEF ResetPoints, Known
  <2> QED
    BY <1>1, <1>3, <2>1, <2>2, WorldKeeps DEF ResetPoints, Plays
<1>4. ASSUME NEW p \in Players, Login(sv, p) PROVE Kept
  <2>1. online' \in [Players -> Servers \cup {NoEntry}]
    BY <1>1, <1>4 DEF Login
  <2>2. points' \in [Players -> Int \cup {NoEntry}] /\ \A q \in Players : Known(q) => Known(q)'
    BY <1>1, <1>4 DEF Login, Known
  <2>3. faults' \in 0..MaxFaults
    BY <1>1, <1>4, FailsType DEF Login
  <2>4. \A q \in Players, w \in Servers : Plays(q, w) => Plays(q, w)'
    BY <1>1, <1>4 DEF Login, Plays
  <2> QED
    BY <1>1, <1>4, <2>1, <2>2, <2>3, <2>4, WorldKeeps DEF Login
<1>5. ASSUME NEW p \in Players, Spawn(sv, p) PROVE Kept
  <2>1. points' \in [Players -> Int \cup {NoEntry}] /\ \A q \in Players : Known(q) => Known(q)'
    BY <1>1, <1>5 DEF Spawn, Known
  <2> QED
    BY <1>1, <1>5, <2>1, WorldKeeps DEF Spawn, Plays
<1>6. ASSUME NEW p \in Players, Logout(sv, p) PROVE Kept
  <2>1. online' \in [Players -> Servers \cup {NoEntry}]
    BY <1>1, <1>6 DEF Logout
  <2>2. \A q \in Players, w \in Servers : pc[w] # "idle" /\ Plays(q, w) => Plays(q, w)'
    BY <1>1, <1>6 DEF Logout, Plays
  <2>3. \A q \in Players : Known(q) => Known(q)'
    BY <1>6 DEF Logout, Known
  <2> QED
    BY <1>1, <1>6, <2>1, <2>2, <2>3, WorldKeeps DEF Logout
<1>7. CASE Crash(sv)
  <2>1. /\ online' \in [Players -> Servers \cup {NoEntry}]
        /\ pc' \in [Servers -> {"idle", "spend", "act", "credit"}] /\ DOMAIN cmd' = Servers
    BY <1>1, <1>7 DEF Crash, TypeOK
  <2>2. pc'[sv] = "idle" /\ cmd'[sv] = NoEntry
    BY <1>7 DEF Crash, TypeOK
  <2>3. \A w \in Servers \ {sv} : /\ pc'[w] = pc[w] /\ cmd'[w] = cmd[w]
                                  /\ \A q \in Players : Plays(q, w) => Plays(q, w)'
    BY <1>1, <1>7 DEF Crash, TypeOK, Plays
  <2>4. UNCHANGED <<points, due>> /\ \A q \in Players : Known(q) => Known(q)'
    BY <1>7 DEF Crash, Known
  <2>5. faults' \in 0..MaxFaults
    BY <1>7, FailsType DEF Crash
  <2>6. TypeOK'
    BY <1>1, <2>1, <2>2, <2>3, <2>4, <2>5 DEF TypeOK
  <2>7. ASSUME NEW w \in Servers, pc'[w] # "idle"
        PROVE  (Fits(pc[w], cmd[w]) /\ Placed(w, pc[w], cmd[w]))'
    <3>1. w # sv /\ cmd'[w] = cmd[w] /\ pc'[w] = pc[w]
      BY <2>2, <2>3, <2>7
    <3>2. cmd[w].payer \in Players /\ cmd[w].payee \in Players
      BY <2>7, <3>1 DEF TypeOK, Cmd
    <3>3. Fits(pc[w], cmd[w]) /\ Placed(w, pc[w], cmd[w])
      BY <2>7, <3>1 DEF Phase
    <3>4. cmd[w].op \in OwnOps \cup {"Sell"} => Plays(cmd[w].payer, w)'
      BY <2>3, <3>1, <3>2, <3>3 DEF Placed
    <3> QED
      BY <2>4, <3>1, <3>2, <3>3, <3>4 DEF Placed, Fits
  <2> QED
    BY <2>4, <2>6, <2>7 DEF Phase
<1> QED
  BY <1>2, <1>3, <1>4, <1>5, <1>6, <1>7 DEF World, ResetPoints, Crash, Known

(* The invariant of the types holds in every behaviour. *)
THEOREM TypeCorrect == Spec => [](TypeOK /\ Phase)
<1>1. Init => TypeInv
  BY LedgerAssumption DEF Init, TypeInv, TypeOK, Phase
<1>2. TypeInv /\ [Next]_vars => TypeInv'
  <2>1. ASSUME TypeInv, Next PROVE TypeInv'
    BY <2>1, Steps, CommandType, StatementType, WorldType DEF First
  <2>2. ASSUME TypeInv, UNCHANGED vars PROVE TypeInv'
    BY <2>2 DEF vars, TypeInv, TypeOK, Phase, Placed, Known, Plays
  <2> QED
    BY <2>1, <2>2
<1> QED
  BY <1>1, <1>2, PTL DEF Spec, TypeInv
-----------------------------------------------------------------------------
(* Conservation. *)

(* Nobody has lost more than the failures explain, and a player without an
   account is owed nothing. *)
Books == \A p \in Players : IF Known(p) THEN Lost(p) >= 0 /\ Lost(p) <= faults * MaxAmount
                                        ELSE due[p] = 0

(* What a step may do to the books of p. *)
Balanced(p) ==
  /\ faults' \in {faults, faults + 1}
  /\ Known(p) => /\ Lost(p)' >= Lost(p)
                 /\ Lost(p)' <= Lost(p) + (IF faults' = faults THEN 0 ELSE MaxAmount)
  /\ ~Known(p) => due'[p] = due[p] /\ (Known(p)' => points'[p] = 0 /\ Held(p, Taking)' = 0)

(* What is held is an amount. *)
LEMMA HeldRange ==
  ASSUME TypeInv, NEW p \in Players, NEW ops
  PROVE  Held(p, ops) \in Int /\ 0 <= Held(p, ops) /\ Held(p, ops) <= MaxAmount
<1> USE Numbers DEF TypeInv
<1>1. CASE online[p] \in Servers /\ Holding(online[p], p, ops)
  <2>1. cmd[online[p]].amount \in Amounts \cup {0}
    BY <1>1 DEF Holding, TypeOK, Cmd
  <2> QED
    BY <1>1, <2>1 DEF Held
<1> QED
  BY <1>1 DEF Held

(* A step of the thread of sv concerns what it holds of one player. *)
LEMMA HeldFinish ==
  ASSUME TypeInv, NEW sv \in Servers, NEW label, Finish(sv, label), NEW p \in Players, NEW ops
  PROVE  /\ Held(p, ops)' =
              IF p = cmd[sv].payer /\ Plays(p, sv)
                THEN IF label \in {"act", "credit"} /\ cmd[sv].op \in ops
                       THEN cmd[sv].amount ELSE 0
                ELSE Held(p, ops)
         /\ p = cmd[sv].payer /\ Plays(p, sv)
              => Held(p, ops) = IF pc[sv] \in {"act", "credit"} /\ cmd[sv].op \in ops
                                  THEN cmd[sv].amount ELSE 0
<1>1. online' = online /\ \A w \in Servers \ {sv} : pc'[w] = pc[w] /\ cmd'[w] = cmd[w]
  BY DEF Finish, TypeInv, TypeOK
<1>2. pc'[sv] = label /\ (label # "idle" => cmd'[sv] = cmd[sv])
  BY DEF Finish, TypeInv, TypeOK
<1>3. CASE Plays(p, sv)
  BY <1>1, <1>2, <1>3 DEF Held, Holding, Plays
<1>4. CASE ~Plays(p, sv)
  BY <1>1, <1>4 DEF Held, Holding, Plays
<1> QED
  BY <1>3, <1>4

(* The same for the step that begins a command. *)
LEMMA HeldBegin ==
  ASSUME TypeInv, NEW sv \in Servers, NEW label, NEW c, Begin(sv, label, c),
         NEW p \in Players, NEW ops
  PROVE  /\ Held(p, ops)' =
              IF p = c.payer /\ Plays(p, sv) /\ label \in {"act", "credit"} /\ c.op \in ops
                THEN c.amount ELSE Held(p, ops)
         /\ Plays(p, sv) => Held(p, ops) = 0
<1>1. online' = online /\ \A w \in Servers \ {sv} : pc'[w] = pc[w] /\ cmd'[w] = cmd[w]
  BY DEF Begin, TypeInv, TypeOK
<1>2. pc'[sv] = label /\ cmd'[sv] = c /\ pc[sv] = "idle"
  BY DEF Begin, TypeInv, TypeOK
<1>3. CASE Plays(p, sv)
  BY <1>1, <1>2, <1>3 DEF Held, Holding, Plays
<1>4. CASE ~Plays(p, sv)
  BY <1>1, <1>4 DEF Held, Holding, Plays
<1> QED
  BY <1>3, <1>4

(* Beginning a command costs nothing. *)
LEMMA FirstBalanced ==
  ASSUME TypeInv, NEW sv \in Servers, First(sv), NEW r \in Players
  PROVE  Balanced(r)
<1> USE Numbers DEF TypeInv
<1>1. PICK p \in Players, q \in Players, n \in Amounts, lose \in Amounts \cup {0} :
        \/ Buy(sv, p, n) \/ Trade(sv, p, q, n) \/ Penalty(sv, p, n) \/ Charge(sv, p, n)
        \/ SellItem(sv, p, n) \/ Grant(sv, p, n) \/ Kill(sv, p, q, n, lose)
  BY DEF First
<1>2. n \in Int /\ Held(r, Taking) \in Int
  BY HeldRange
<1>3. ASSUME NEW label, NEW c, Begin(sv, label, c), label = "spend" \/ c.op \notin Taking,
             UNCHANGED due
      PROVE  Balanced(r)
  <2>1. Held(r, Taking)' = Held(r, Taking)
    BY <1>3, HeldBegin
  <2>2. UNCHANGED <<points, faults>>
    BY <1>3 DEF Begin
  <2> QED
    BY <1>2, <1>3, <2>1, <2>2 DEF Balanced, Lost, Known
<1>4. CASE SellItem(sv, p, n)
  <2> DEFINE c == Command("Sell", p, n, p, n)
  <2>1. Begin(sv, "credit", c) /\ Plays(p, sv) /\ Known(p)
    BY <1>4 DEF SellItem
  <2>2. c.payer = p /\ c.amount = n /\ c.op \in Taking
    BY DEF Command, Taking
  <2>3. Held(r, Taking)' = (IF r = p THEN n ELSE Held(r, Taking)) /\ Held(p, Taking) = 0
    BY <2>1, <2>2, HeldBegin
  <2>4. due'[r] = IF r = p THEN due[r] + n ELSE due[r]
    BY <1>2, <1>4, OweFacts DEF SellItem
  <2>5. UNCHANGED <<points, faults>>
    BY <2>1 DEF Begin
  <2> QED
    BY <1>2, <2>1, <2>3, <2>4, <2>5 DEF Balanced, Lost, Known
<1>5. CASE Buy(sv, p, n)
  BY <1>3, <1>5 DEF Buy
<1>6. CASE Trade(sv, p, q, n)
  BY <1>3, <1>6 DEF Trade
<1>7. CASE Penalty(sv, p, n)
  BY <1>3, <1>7 DEF Penalty
<1>8. CASE Charge(sv, p, n)
  BY <1>3, <1>8 DEF Charge
<1>9. CASE Grant(sv, p, n)
  BY <1>3, <1>9 DEF Grant, Command, Taking, Purchases
<1>10. CASE Kill(sv, p, q, n, lose)
  BY <1>3, <1>10 DEF Kill, Command, Taking, Purchases
<1> QED
  BY <1>1, <1>4, <1>5, <1>6, <1>7, <1>8, <1>9, <1>10

(* The amount of a command is lost at the step that fails, and only there. *)
LEMMA StatementBalanced ==
  ASSUME TypeInv, NEW sv \in Servers, Statement(sv), NEW p \in Players
  PROVE  Balanced(p)
<1> DEFINE c == cmd[sv]
           held == Held(p, Taking)
<1> USE Numbers DEF TypeInv
<1>1. pc[sv] # "idle"
  BY DEF Statement, Refuse, Spend, Deliver, LoseKit, GiveDinoFails, Credit
<1>2. c \in Cmd /\ Fits(pc[sv], c) /\ Placed(sv, pc[sv], c)
  BY <1>1 DEF TypeOK, Phase
<1>3. /\ c.payer \in Players /\ c.payee \in Players
      /\ c.amount \in Int /\ 0 <= c.amount /\ c.amount <= MaxAmount /\ -c.amount \in Int
      /\ c.gain \in Int
  BY <1>2 DEF Cmd
<1>4. held \in Int /\ 0 <= held /\ held <= MaxAmount
  BY HeldRange
<1>5. c.op \in Taking => Plays(c.payer, sv)
  BY <1>2 DEF Placed, Taking, OwnOps
<1>6. Known(p) => points[p] \in Int /\ due[p] \in Int
  OBVIOUS
<1>7. ASSUME NEW label, Finish(sv, label)
      PROVE  IF p = c.payer /\ Plays(p, sv)
               THEN /\ held' = (IF label \in {"act", "credit"} /\ c.op \in Taking THEN c.amount ELSE 0)
                    /\ held = (IF pc[sv] \in {"act", "credit"} /\ c.op \in Taking THEN c.amount ELSE 0)
               ELSE held' = held
  BY <1>7, HeldFinish
<1>8. ASSUME NEW q \in Players, NEW n \in Int
      PROVE  /\ points' = Plus(q, n) =>
                  points'[p] = IF p = q /\ Known(p) THEN points[p] + n ELSE points[p]
             /\ due' = Owe(q, n) => due'[p] = IF p = q THEN due[p] + n ELSE due[p]
  BY PlusFacts, OweFacts
<1>9. Known(p) => Known(p)'
  BY StatementType
<1>10. CASE Refuse(sv)
  <2>1. pc[sv] = "spend" /\ Finish(sv, "idle") /\ UNCHANGED <<points, faults, due>>
    BY <1>10 DEF Refuse
  <2> QED
    BY <1>4, <1>6, <1>7, <2>1 DEF Balanced, Lost, Known
<1>11. CASE Spend(sv)
  <2>1. pc[sv] = "spend" /\ c.op \in OwnOps \cup {"Charge", "Kill"} /\ Known(c.payer)
    BY <1>2, <1>11 DEF Spend, Fits, Placed, OwnOps, Purchases
  <2>2. CASE /\ points' = Plus(c.payer, -c.amount) /\ Finish(sv, AfterSpend(c.op))
             /\ due' = IF AfterSpend(c.op) = "idle" THEN Owe(c.payer, -c.amount) ELSE due
             /\ UNCHANGED faults
    <3>1. points'[p] = IF p = c.payer THEN points[p] - c.amount ELSE points[p]
      BY <1>3, <1>6, <1>8, <2>1, <2>2
    <3>2. CASE AfterSpend(c.op) = "idle"
      <4>1. due'[p] = IF p = c.payer THEN due[p] - c.amount ELSE due[p]
        BY <1>3, <1>8, <2>2, <3>2
      <4>2. held' = held
        BY <1>7, <2>1, <2>2, <3>2
      <4> QED
        BY <1>3, <1>4, <1>6, <2>1, <2>2, <3>1, <4>1, <4>2 DEF Balanced, Lost, Known
    <3>3. CASE AfterSpend(c.op) # "idle"
      <4>1. c.op \in Taking /\ AfterSpend(c.op) \in {"act", "credit"}
        BY <3>3 DEF AfterSpend, Taking
      <4>2. held' = IF p = c.payer THEN c.amount ELSE held
        BY <1>5, <1>7, <2>2, <4>1
      <4>3. p = c.payer => held = 0
        BY <1>5, <1>7, <2>1, <2>2, <4>1
      <4> QED
        BY <1>3, <1>4, <1>6, <2>1, <2>2, <3>1, <3>3, <4>2, <4>3 DEF Balanced, Lost, Known
    <3> QED
      BY <3>2, <3>3
  <2>3. CASE faults' = faults + 1 /\ Finish(sv, "idle") /\ UNCHANGED <<points, due>>
    <3>1. held' = held
      BY <1>7, <2>1, <2>3
    <3> QED
      BY <1>4, <1>6, <2>3, <3>1 DEF Balanced, Lost, Known
  <2>4. CASE /\ faults' = faults + 1 /\ points' = Plus(c.payer, -c.amount)
             /\ Finish(sv, "idle") /\ UNCHANGED due
    <3>1. held' = held
      BY <1>7, <2>1, <2>4
    <3>2. points'[p] = IF p = c.payer THEN points[p] - c.amount ELSE points[p]
      BY <1>3, <1>6, <1>8, <2>1, <2>4
    <3> QED
      BY <1>3, <1>4, <1>6, <2>1, <2>4, <3>1, <3>2 DEF Balanced, Lost, Known
  <2> QED
    BY <1>11, <2>2, <2>3, <2>4 DEF Spend, Fails
<1>12. CASE Deliver(sv)
  <2>1. c.op \in Taking /\ pc[sv] = "act" /\ Known(c.payer)
    BY <1>2, <1>12 DEF Deliver, Fits, Placed, Taking, Purchases
  <2>2. Finish(sv, "idle") /\ UNCHANGED <<points, faults>> /\ due' = Owe(c.payer, -c.amount)
    BY <1>12 DEF Deliver
  <2>3. due'[p] = IF p = c.payer THEN due[p] - c.amount ELSE due[p]
    BY <1>3, <1>8, <2>2
  <2>4. held' = IF p = c.payer THEN held - c.amount ELSE held
    BY <1>3, <1>5, <1>7, <2>1, <2>2
  <2> QED
    BY <1>3, <1>4, <1>6, <2>1, <2>2, <2>3, <2>4 DEF Balanced, Lost, Known
<1>13. CASE LoseKit(sv)
  <2>1. Finish(sv, "idle") /\ UNCHANGED <<points, due>> /\ faults' = faults + 1
    BY <1>13 DEF LoseKit, Fails
  <2>2. held' \in {0, held}
    BY <1>7, <2>1
  <2> QED
    BY <1>4, <1>6, <2>1, <2>2 DEF Balanced, Lost, Known
<1>14. CASE GiveDinoFails(sv)
  <2>1. Finish(sv, "credit") /\ UNCHANGED <<points, faults, due>> /\ pc[sv] = "act"
    BY <1>14 DEF GiveDinoFails
  <2>2. held' = held
    BY <1>7, <2>1
  <2> QED
    BY <1>4, <1>6, <2>1, <2>2 DEF Balanced, Lost, Known
<1>15. CASE Credit(sv)
  <2>1. pc[sv] = "credit"
    BY <1>15 DEF Credit
  <2>2. \E label \in {"idle", "spend"} : Finish(sv, label)
    BY <1>15 DEF Credit, AfterCredit
  <2>3. held' = IF p = c.payer /\ c.op \in Taking THEN 0 ELSE held
    BY <1>5, <1>7, <2>1, <2>2
  <2>4. p = c.payer /\ c.op \in Taking => held = c.amount
    BY <1>5, <1>7, <2>1, <2>2
  <2>5. CASE faults' = faults + 1 /\ UNCHANGED <<points, due>>
    BY <1>3, <1>4, <1>6, <2>3, <2>5 DEF Balanced, Lost, Known
  <2>6. CASE points' = Plus(c.payee, c.gain) /\ due' = Settled(c) /\ faults' \in {faults, faults + 1}
    <3>1. points'[p] = IF p = c.payee /\ Known(p) THEN points[p] + c.gain ELSE points[p]
      BY <1>3, <1>8, <2>6
    <3>2. c.op \in {"Trade", "Sell", "Grant", "Kill", "BuyDino"}
      BY <1>2, <2>1 DEF Fits
    <3>3. Known(p) => points'[p] \in Int
      BY <1>3, <1>6, <3>1
    <3>4. CASE c.op = "Trade"
      <4>1. c.op \in Taking /\ c.payer # c.payee /\ c.gain = c.amount
        BY <1>2, <3>4 DEF Taking, Fits
      <4>2. Known(c.payer) /\ Known(c.payee)
        BY <1>2, <2>1, <3>4 DEF Placed
      <4>3. due'[p] = IF p = c.payer THEN due[p] - c.amount
                      ELSE IF p = c.payee THEN due[p] + c.gain ELSE due[p]
        BY <1>2, <2>6, <3>4, <4>1, SettledFacts
      <4> QED
        BY <1>3, <1>4, <1>6, <2>3, <2>4, <2>6, <3>1, <4>1, <4>2, <4>3 DEF Balanced, Lost, Known
    <3>5. CASE c.op \in {"Sell", "BuyDino"}
      <4>1. c.op \in Taking /\ c.payer = c.payee /\ c.gain = c.amount
        BY <1>2, <3>5 DEF Taking, Purchases, Fits
      <4>2. Known(c.payer)
        BY <1>2, <3>5 DEF Placed
      <4>3. UNCHANGED due
        BY <2>6, <3>5 DEF Settled
      <4> QED
        BY <1>3, <1>4, <1>6, <2>3, <2>4, <2>6, <3>1, <4>1, <4>2, <4>3 DEF Balanced, Lost, Known
    <3>6. CASE c.op \in {"Grant", "Kill"}
      <4>1. c.op \notin Taking
        BY <3>6 DEF Taking, Purchases
      <4>2. due'[p] = IF Known(c.payee) /\ p = c.payee THEN due[p] + c.gain ELSE due[p]
        BY <1>2, <2>6, <3>6, SettledFacts
      <4>3. held' = held
        BY <2>3, <4>1
      <4> QED
        BY <1>3, <1>4, <1>6, <2>6, <3>1, <4>2, <4>3 DEF Balanced, Lost, Known
    <3> QED
      BY <3>2, <3>4, <3>5, <3>6
  <2> QED
    BY <1>15, <2>5, <2>6 DEF Credit, Fails
<1> QED
  BY <1>10, <1>11, <1>12, <1>13, <1>14, <1>15 DEF Statement

(* Corrections are booked, a login opens an empty account, and a crash costs
   each player at most what one command held. *)
LEMMA WorldBalanced ==
  ASSUME TypeInv, NEW sv \in Servers, World(sv), NEW p \in Players
  PROVE  Balanced(p)
<1> DEFINE held == Held(p, Taking)
<1> USE Numbers DEF TypeInv
<1>1. held \in Int /\ 0 <= held /\ held <= MaxAmount
  BY HeldRange
<1>2. UNCHANGED <<pc, cmd, online>> => held' = held
  BY DEF Held, Holding
<1>3. ~Known(p) => held = 0
  BY DEF Held, Holding, TypeOK, Phase, Placed, Taking, Purchases
<1>4. ASSUME NEW q \in Players, NEW n \in Balances, SetPoints(sv, q, n) PROVE Balanced(p)
  <2>1. n \in Int /\ points[q] \in Int
    BY <1>4, LedgerAssumption DEF SetPoints
  <2>2. points'[p] = IF p = q THEN n ELSE points[p]
    BY <1>4 DEF SetPoints, TypeOK
  <2>3. n - points[q] \in Int
    BY <2>1
  <2>4. due'[p] = IF p = q THEN due[p] + (n - points[q]) ELSE due[p]
    BY <1>4, <2>3, OweFacts DEF SetPoints
  <2>5. UNCHANGED faults /\ held' = held /\ Known(q)
    BY <1>2, <1>4 DEF SetPoints
  <2> QED
    BY <1>1, <2>1, <2>2, <2>4, <2>5 DEF Balanced, Lost, Known
<1>5. CASE ResetPoints(sv)
  <2>1. UNCHANGED faults /\ held' = held
    BY <1>2, <1>5 DEF ResetPoints
  <2>2. /\ points'[p] = IF Known(p) THEN 0 ELSE NoEntry
        /\ due'[p] = IF Known(p) THEN due[p] - points[p] ELSE due[p]
    BY <1>5 DEF ResetPoints
  <2> QED
    BY <1>1, <2>1, <2>2 DEF Balanced, Lost, Known
<1>6. ASSUME NEW q \in Players, Login(sv, q) PROVE Balanced(p)
  <2>1. held' = held
    BY <1>6 DEF Login, Held, Holding, TypeOK
  <2>2. points'[p] = points[p] \/ (~Known(p) /\ points'[p] = 0)
    BY <1>6 DEF Login, TypeOK, Known
  <2>3. faults' \in {faults, faults + 1} /\ UNCHANGED due
    BY <1>6 DEF Login, Fails
  <2> QED
    BY <1>1, <1>3, <2>1, <2>2, <2>3 DEF Balanced, Lost, Known
<1>7. ASSUME NEW q \in Players, Spawn(sv, q) PROVE Balanced(p)
  <2>1. held' = held
    BY <1>2, <1>7 DEF Spawn
  <2>2. points'[p] = points[p] \/ (~Known(p) /\ points'[p] = 0)
    BY <1>7 DEF Spawn, TypeOK, Known
  <2>3. UNCHANGED <<faults, due>>
    BY <1>7 DEF Spawn
  <2> QED
    BY <1>1, <1>3, <2>1, <2>2, <2>3 DEF Balanced, Lost, Known
<1>8. ASSUME NEW q \in Players, Logout(sv, q) PROVE Balanced(p)
  <2>1. held' = held
    BY <1>8 DEF Logout, Held, Holding, Plays, TypeOK
  <2>2. UNCHANGED <<points, faults, due>>
    BY <1>8 DEF Logout
  <2> QED
    BY <1>1, <2>1, <2>2 DEF Balanced, Lost, Known
<1>9. CASE Crash(sv)
  <2>1. UNCHANGED <<points, due>> /\ faults' = faults + 1
    BY <1>9 DEF Crash, Fails
  <2>2. CASE Plays(p, sv)
    <3>1. held' = 0
      BY <1>9, <2>2 DEF Crash, Plays, Held
    <3> QED
      BY <1>1, <2>1, <3>1 DEF Balanced, Lost, Known
  <2>3. CASE ~Plays(p, sv)
    <3>1. online'[p] = online[p] /\ online[p] # sv
      BY <1>9, <2>3 DEF Crash, Plays
    <3>2. \A w \in Servers \ {sv} : pc'[w] = pc[w] /\ cmd'[w] = cmd[w]
      BY <1>9 DEF Crash, TypeOK
    <3>3. held' = held
      BY <3>1, <3>2 DEF Held, Holding
    <3> QED
      BY <1>1, <2>1, <3>3 DEF Balanced, Lost, Known
  <2> QED
    BY <2>2, <2>3
<1> QED
  BY <1>4, <1>5, <1>6, <1>7, <1>8, <1>9 DEF World

(* A product of natural numbers is not negative. *)
LEMMA Product == \A a, b \in Nat : 0 <= a * b
OBVIOUS

(* For every set of servers, players and prices, and all operations: no     *)
(* points are created, and a player's loss is at most the amount of one     *)
(* command for each failure.                                                *)
THEOREM Conservation == Spec => []Conserved
<1> DEFINE Inv == TypeInv /\ Books
<1>1. Init => Inv
  BY LedgerAssumption DEF Init, TypeInv, TypeOK, Phase, Books, Known
<1>2. Inv /\ [Next]_vars => Inv'
  <2>1. ASSUME Inv, Next PROVE Inv'
    <3>1. PICK sv \in Servers : First(sv) \/ Statement(sv) \/ World(sv)
      BY <2>1, Steps
    <3>2. TypeInv' /\ \A p \in Players : Known(p) => Known(p)'
      <4>1. First(sv) => points' = points
        BY DEF First, Buy, Trade, Penalty, Charge, SellItem, Grant, Kill, Begin
      <4> QED
        BY <2>1, <3>1, <4>1, CommandType, StatementType, WorldType DEF First, Known
    <3>3. ASSUME NEW p \in Players
          PROVE  IF Known(p)' THEN Lost(p)' >= 0 /\ Lost(p)' <= faults' * MaxAmount
                              ELSE due'[p] = 0
      <4>1. Balanced(p)
        BY <2>1, <3>1, FirstBalanced, StatementBalanced, WorldBalanced
      <4>2. /\ MaxAmount \in Nat /\ faults \in Nat /\ faults' \in Nat
            /\ Known(p) => Lost(p) \in Int
            /\ Known(p)' => Lost(p)' \in Int /\ points'[p] \in Int /\ due'[p] \in Int
        <5>1. Held(p, Taking) \in Int
          BY <2>1, HeldRange
        <5>2. Held(p, Taking)' \in Int
          <6>1. Held(p, Taking)' \in Amounts \cup {0}
            BY <3>2 DEF Held, Holding, TypeInv, TypeOK, Cmd
          <6> QED
            BY <2>1, <6>1, Numbers DEF TypeInv
        <5>3. Known(p)' => points'[p] \in Int /\ due'[p] \in Int
          BY <3>2 DEF Known, TypeInv, TypeOK
        <5> QED
          BY <2>1, <3>2, <5>1, <5>2, <5>3, Numbers DEF Lost, TypeInv, TypeOK
      <4>3. (faults + 1) * MaxAmount = faults * MaxAmount + MaxAmount
        BY <4>2
      <4>4. CASE Known(p)
        <5>1. Lost(p) >= 0 /\ Lost(p) <= faults * MaxAmount
          BY <2>1, <4>4 DEF Books
        <5>2. faults * MaxAmount \in Int
          BY <4>2
        <5>3. Known(p)'
          BY <3>2, <4>4
        <5>4. Lost(p)' >= 0
          BY <4>1, <4>2, <4>4, <5>1, <5>3 DEF Balanced
        <5>5. CASE faults' = faults
          BY <4>1, <4>2, <4>4, <5>1, <5>2, <5>3, <5>4, <5>5 DEF Balanced
        <5>6. CASE faults' = faults + 1
          BY <4>1, <4>2, <4>3, <4>4, <5>1, <5>2, <5>3, <5>4, <5>6 DEF Balanced
        <5> QED
          BY <4>1, <5>5, <5>6 DEF Balanced
      <4>5. CASE ~Known(p)
        <5>1. due'[p] = 0 /\ (Known(p)' => points'[p] = 0 /\ Held(p, Taking)' = 0)
          BY <2>1, <4>1, <4>5 DEF Balanced, Books
        <5>2. Known(p)' => Lost(p)' = 0
          BY <5>1 DEF Lost
        <5>3. 0 <= faults' * MaxAmount
          BY <4>2, Product
        <5> QED
          BY <5>1, <5>2, <5>3
      <4> QED
        BY <4>4, <4>5
    <3> QED
      BY <3>2, <3>3 DEF Books
  <2>2. ASSUME Inv, UNCHANGED vars PROVE Inv'
    BY <2>2 DEF vars, TypeInv, TypeOK, Phase, Placed, Known, Plays, Books, Lost, Held, Holding
  <2> QED
    BY <2>1, <2>2
<1>3. Inv => Conserved
  BY DEF Books, Conserved
<1> QED
  BY <1>1, <1>2, <1>3, PTL DEF Spec
-----------------------------------------------------------------------------
(* Balances. *)

(* What the plugins need to keep balances above zero: no operator charges a
   player, and what is read of a balance stays true until it is spent,
   because there is one server, or because only the player itself, on the
   server it plays on, takes from it. *)
Solo == \A s, t \in Servers : s = t

Guarded ==
  /\ "Charge" \notin Ops /\ Balances \subseteq Nat
  /\ Solo \/ (Ops \cap {"Kill", "Set", "Reset"} = {})

Spending(sv) == pc[sv] = "spend" \/ (pc[sv] = "credit" /\ cmd[sv].op = "Kill")

Backed ==
  \A sv \in Servers : Spending(sv) => points[cmd[sv].payer] >= cmd[sv].amount

DebtInv == TypeInv /\ NoOverdraft /\ Backed

(* A command begins with a balance that covers it. *)
LEMMA FirstBacked ==
  ASSUME Guarded, DebtInv, NEW sv \in Servers, First(sv)
  PROVE  (NoOverdraft /\ Backed)'
<1>1. PICK p \in Players, q \in Players, n \in Amounts, lose \in Amounts \cup {0} :
        \/ Buy(sv, p, n) \/ Trade(sv, p, q, n) \/ Penalty(sv, p, n) \/ Charge(sv, p, n)
        \/ SellItem(sv, p, n) \/ Grant(sv, p, n) \/ Kill(sv, p, q, n, lose)
  BY DEF First
<1>2. ASSUME NEW label, NEW c, Begin(sv, label, c),
             label = "spend" \/ (label = "credit" /\ c.op = "Kill") => points[c.payer] >= c.amount
      PROVE  (NoOverdraft /\ Backed)'
  <2>1. points' = points
    BY <1>2 DEF Begin
  <2>2. /\ pc'[sv] = label /\ cmd'[sv] = c
        /\ \A w \in Servers \ {sv} : pc'[w] = pc[w] /\ cmd'[w] = cmd[w]
    BY <1>2 DEF Begin, DebtInv, TypeInv, TypeOK
  <2>3. NoOverdraft'
    BY <2>1 DEF DebtInv, NoOverdraft, Known
  <2>4. Backed'
    BY <1>2, <2>1, <2>2 DEF DebtInv, Backed, Spending
  <2> QED
    BY <2>3, <2>4
<1>3. CASE Buy(sv, p, n)
  BY <1>2, <1>3 DEF Buy, Has, Command
<1>4. CASE Trade(sv, p, q, n)
  BY <1>2, <1>4 DEF Trade, Has, Command
<1>5. CASE Penalty(sv, p, n)
  BY <1>2, <1>5 DEF Penalty, Has, Command
<1>6. CASE Charge(sv, p, n)
  BY <1>6 DEF Charge, Begin, Command, Guarded
<1>7. CASE SellItem(sv, p, n)
  BY <1>2, <1>7 DEF SellItem, Command
<1>8. CASE Grant(sv, p, n)
  BY <1>2, <1>8 DEF Grant, Command
<1>9. CASE Kill(sv, p, q, n, lose)
  <2>1. points[q] \in Int /\ lose \in Int /\ points[q] > lose
    BY <1>9, Numbers DEF Kill, DebtInv, TypeInv
  <2> QED
    BY <1>2, <1>9, <2>1 DEF Kill, Command
<1> QED
  BY <1>1, <1>3, <1>4, <1>5, <1>6, <1>7, <1>8, <1>9

(* Nobody else takes from the balance a command has read. *)
LEMMA StatementBacked ==
  ASSUME Guarded, DebtInv, NEW sv \in Servers, Statement(sv)
  PROVE  (NoOverdraft /\ Backed)'
<1> DEFINE c == cmd[sv]
<1> USE Numbers DEF DebtInv, TypeInv
<1>1. pc[sv] # "idle"
  BY DEF Statement, Refuse, Spend, Deliver, LoseKit, GiveDinoFails, Credit
<1>2. c \in Cmd /\ Fits(pc[sv], c) /\ Placed(sv, pc[sv], c) /\ c.op \in Ops
  BY <1>1 DEF TypeOK, Phase
<1>3. c.payer \in Players /\ c.payee \in Players /\ c.amount \in Int /\ c.gain \in Int /\ c.gain > 0
  BY <1>2 DEF Cmd
<1>4. \A p \in Players : Known(p) => Known(p)'
  BY StatementType
<1>5. \A w \in Servers : pc[w] # "idle" => cmd[w] \in Cmd /\ cmd[w].op \in Ops
                                             /\ Fits(pc[w], cmd[w]) /\ Placed(w, pc[w], cmd[w])
  BY DEF TypeOK, Phase
<1>6. \A w \in Servers : Spending(w) =>
        /\ cmd[w].payer \in Players /\ cmd[w].amount \in Int
        /\ Known(cmd[w].payer) /\ points[cmd[w].payer] \in Int
        /\ cmd[w].op \in OwnOps \cup {"Kill"}
  <2> TAKE w \in Servers
  <2> HAVE Spending(w)
  <2>1. pc[w] # "idle" /\ cmd[w].op # "Grant" /\ cmd[w].op \in OwnOps \cup {"Kill"}
    BY <1>5 DEF Spending, Fits, Guarded, OwnOps, Purchases
  <2> QED
    BY <1>5, <2>1 DEF Placed, Cmd
<1>7. UNCHANGED online /\ \A w \in Servers \ {sv} : pc'[w] = pc[w] /\ cmd'[w] = cmd[w]
  BY DEF Statement, Refuse, Spend, Deliver, LoseKit, GiveDinoFails, Credit, Finish, TypeOK
<1>8. ASSUME \A p \in Players : Known(p) => points'[p] \in Int /\ points'[p] >= points[p],
             \A p \in Players : ~Known(p) => points'[p] = points[p],
             Spending(sv)' => Spending(sv) /\ cmd'[sv] = cmd[sv]
      PROVE  (NoOverdraft /\ Backed)'
  <2>1. NoOverdraft'
    BY <1>8 DEF NoOverdraft, Known
  <2>2. ASSUME NEW w \in Servers, Spending(w)'
        PROVE  points'[cmd'[w].payer] >= cmd'[w].amount
    <3>1. Spending(w) /\ cmd'[w] = cmd[w]
      BY <1>7, <1>8, <2>2 DEF Spending
    <3> QED
      BY <1>6, <1>8, <3>1 DEF Backed
  <2> QED
    BY <2>1, <2>2 DEF Backed
<1>9. UNCHANGED points => /\ \A p \in Players : Known(p) => points'[p] \in Int /\ points'[p] >= points[p]
                          /\ \A p \in Players : ~Known(p) => points'[p] = points[p]
  OBVIOUS
<1>10. CASE Refuse(sv) \/ Deliver(sv) \/ LoseKit(sv) \/ GiveDinoFails(sv)
  <2>1. UNCHANGED points /\ pc'[sv] \in {"idle", "credit"} /\ (pc'[sv] = "credit" => c.op = "BuyDino")
    BY <1>10 DEF Refuse, Deliver, LoseKit, GiveDinoFails, Finish, TypeOK
  <2>2. pc'[sv] = "credit" => cmd'[sv] = c
    BY <1>10 DEF Refuse, Deliver, LoseKit, GiveDinoFails, Finish, TypeOK
  <2>3. ~Spending(sv)'
    BY <2>1, <2>2 DEF Spending
  <2> QED
    BY <1>8, <1>9, <2>1, <2>3
<1>11. CASE Spend(sv)
  <2>1. Spending(sv) /\ c.op \in OwnOps \cup {"Kill"}
    BY <1>6, <1>11 DEF Spend, Spending
  <2>2. pc'[sv] \in {"idle", "act", "credit"} /\ (pc'[sv] = "credit" => cmd'[sv] = c /\ c.op = "Trade")
    BY <1>11 DEF Spend, Finish, AfterSpend, TypeOK
  <2>3. ~Spending(sv)'
    BY <2>2 DEF Spending
  <2>4. CASE UNCHANGED points
    BY <1>8, <1>9, <2>3, <2>4
  <2>5. CASE points' = Plus(c.payer, -c.amount)
    <3>1. \A p \in Players :
            points'[p] = IF p = c.payer THEN points[p] - c.amount ELSE points[p]
      <4>1. -c.amount \in Int
        BY <1>3
      <4> QED
        BY <1>3, <1>6, <2>1, <2>5, <4>1, PlusFacts
    <3>2. NoOverdraft'
      <4>1. points[c.payer] >= c.amount /\ points[c.payer] \in Int
        BY <1>6, <2>1 DEF Backed
      <4> QED
        BY <1>3, <3>1, <4>1 DEF NoOverdraft, Known
    <3>3. ASSUME NEW w \in Servers, Spending(w)'
          PROVE  points'[cmd'[w].payer] >= cmd'[w].amount
      <4>1. w # sv /\ Spending(w) /\ cmd'[w] = cmd[w]
        BY <1>7, <2>3, <3>3 DEF Spending
      <4>2. ~Solo
        BY <4>1 DEF Solo
      <4>3. "Kill" \notin Ops
        BY <4>2 DEF Guarded
      <4>4. pc[w] # "idle" /\ cmd[w].op \in OwnOps /\ c.op \in OwnOps
        BY <1>2, <1>5, <1>6, <2>1, <4>1, <4>3 DEF Spending
      <4>5. Plays(cmd[w].payer, w) /\ Plays(c.payer, sv)
        BY <1>2, <1>5, <4>4 DEF Placed
      <4>6. cmd[w].payer # c.payer
        BY <4>1, <4>5 DEF Plays
      <4> QED
        BY <1>6, <3>1, <4>1, <4>6 DEF Backed
    <3> QED
      BY <3>2, <3>3 DEF Backed
  <2> QED
    BY <1>11, <2>4, <2>5 DEF Spend
<1>12. CASE Credit(sv)
  <2>1. pc'[sv] = "idle" \/ (pc'[sv] = "spend" /\ c.op = "Kill" /\ cmd'[sv] = c)
    BY <1>12 DEF Credit, AfterCredit, Finish, TypeOK
  <2>2. Spending(sv)' => Spending(sv) /\ cmd'[sv] = cmd[sv]
    BY <1>12, <2>1 DEF Spending, Credit
  <2>3. CASE UNCHANGED points
    BY <1>8, <1>9, <2>2, <2>3
  <2>4. CASE points' = Plus(c.payee, c.gain)
    <3>1. \A p \in Players :
            points'[p] = IF p = c.payee /\ Known(p) THEN points[p] + c.gain ELSE points[p]
      BY <1>3, <2>4, PlusFacts
    <3>2. \A p \in Players : Known(p) => points'[p] \in Int /\ points'[p] >= points[p]
      BY <1>3, <3>1
    <3> QED
      BY <1>8, <2>2, <3>1, <3>2
  <2> QED
    BY <1>12, <2>3, <2>4 DEF Credit
<1> QED
  BY <1>10, <1>11, <1>12 DEF Statement

(* Corrections happen between commands, on the only server. *)
LEMMA WorldBacked ==
  ASSUME Guarded, DebtInv, NEW sv \in Servers, World(sv)
  PROVE  (NoOverdraft /\ Backed)'
<1> USE Numbers DEF DebtInv, TypeInv
<1>1. \A w \in Servers : Spending(w) => cmd[w].payer \in Players /\ Known(cmd[w].payer)
  <2> TAKE w \in Servers
  <2> HAVE Spending(w)
  <2>1. pc[w] # "idle" /\ cmd[w].op # "Grant"
    BY DEF Spending, Phase, Fits, OwnOps, Purchases
  <2> QED
    BY <2>1 DEF TypeOK, Phase, Placed, Cmd
<1>2. ASSUME UNCHANGED <<pc, cmd>>, \A p \in Players : Known(p) => points'[p] = points[p],
             \A p \in Players : ~Known(p) => points'[p] \in {points[p], 0}
      PROVE  (NoOverdraft /\ Backed)'
  <2>1. NoOverdraft'
    BY <1>2 DEF NoOverdraft, Known
  <2>2. Backed'
    BY <1>1, <1>2 DEF Backed, Spending
  <2> QED
    BY <2>1, <2>2
<1>3. ASSUME Ops \cap {"Set", "Reset"} # {}, pc[sv] = "idle", UNCHANGED <<pc, cmd>>,
             \A p \in Players : Known(p)' => points'[p] >= 0
      PROVE  (NoOverdraft /\ Backed)'
  <2>1. \A w \in Servers : w = sv
    BY <1>3 DEF Guarded, Solo
  <2>2. Backed'
    BY <1>3, <2>1 DEF Backed, Spending
  <2> QED
    BY <1>3, <2>2 DEF NoOverdraft
<1>4. ASSUME NEW p \in Players, NEW n \in Balances, SetPoints(sv, p, n)
      PROVE  (NoOverdraft /\ Backed)'
  <2>1. n >= 0
    BY DEF Guarded
  <2>2. \A q \in Players : Known(q)' => points'[q] >= 0
    BY <1>4, <2>1 DEF SetPoints, TypeOK, NoOverdraft, Known
  <2> QED
    BY <1>3, <1>4, <2>2 DEF SetPoints
<1>5. CASE ResetPoints(sv)
  BY <1>3, <1>5 DEF ResetPoints, Known
<1>6. ASSUME NEW p \in Players, Login(sv, p) \/ Spawn(sv, p) \/ Logout(sv, p)
      PROVE  (NoOverdraft /\ Backed)'
  <2>1. UNCHANGED <<pc, cmd>>
    BY <1>6 DEF Login, Spawn, Logout
  <2>2. \A q \in Players : points'[q] = points[q] \/ (~Known(q) /\ points'[q] = 0)
    BY <1>6 DEF Login, Spawn, Logout, Known, TypeOK
  <2> QED
    BY <1>2, <2>1, <2>2 DEF Known
<1>7. CASE Crash(sv)
  <2>1. UNCHANGED points /\ pc'[sv] = "idle"
        /\ \A w \in Servers \ {sv} : pc'[w] = pc[w] /\ cmd'[w] = cmd[w]
    BY <1>7 DEF Crash, TypeOK
  <2> QED
    BY <2>1 DEF NoOverdraft, Known, Backed, Spending
<1> QED
  BY <1>4, <1>5, <1>6, <1>7 DEF World

(* The three parts of the invariant are inductive. *)
LEMMA DebtInvariant ==
  ASSUME Guarded
  PROVE  Spec => []DebtInv
<1>1. Init => DebtInv
  BY LedgerAssumption DEF Init, DebtInv, TypeInv, TypeOK, Phase, NoOverdraft, Backed, Spending, Known
<1>2. DebtInv /\ [Next]_vars => DebtInv'
  <2>1. ASSUME DebtInv, Next PROVE DebtInv'
    <3>1. PICK sv \in Servers : First(sv) \/ Statement(sv) \/ World(sv)
      BY <2>1, Steps
    <3>2. TypeInv'
      BY <2>1, <3>1, CommandType, StatementType, WorldType DEF First, DebtInv
    <3> QED
      BY <2>1, <3>1, <3>2, FirstBacked, StatementBacked, WorldBacked DEF DebtInv
  <2>2. ASSUME DebtInv, UNCHANGED vars PROVE DebtInv'
    BY <2>2 DEF vars, DebtInv, TypeInv, TypeOK, Phase, Placed, Known, Plays, NoOverdraft,
       Backed, Spending
  <2> QED
    BY <2>1, <2>2
<1> QED
  BY <1>1, <1>2, PTL DEF Spec

(* On one server, or in a cluster where only the players themselves take    *)
(* from their accounts, no account ever falls below zero, although the      *)
(* UPDATE that spends does not look at the balance.                         *)
THEOREM NoDebt ==
  ASSUME Guarded
  PROVE  Spec => []NoOverdraft
BY DebtInvariant, PTL DEF DebtInv
-----------------------------------------------------------------------------
(* The abstract ledger. *)

Proper == Guarded /\ Ops \cap {"Set", "Reset"} = {}

Own == Taking \ {"Sell"}

Requests == [sv \in Servers |-> Asked(sv)]

(* The balance of a player is a number that covers what is held of it. *)
LEMMA BalanceFacts ==
  ASSUME DebtInv, NEW p \in Players, Known(p)
  PROVE  /\ Balance[p] \in Int /\ Balance[p] # NoEntry /\ Balance[p] = points[p] + Held(p, Own)
         /\ points[p] \in Int /\ points[p] >= 0 /\ Held(p, Own) \in Int /\ Held(p, Own) >= 0
<1>1. points[p] \in Int /\ points[p] >= 0 /\ NoEntry \notin Int
  BY Numbers DEF DebtInv, TypeInv, NoOverdraft
<1>2. Held(p, Own) \in Int /\ Held(p, Own) >= 0
  BY HeldRange DEF DebtInv
<1> QED
  BY <1>1, <1>2 DEF Balance, Own

(* A step of one server changes the request of that server. *)
LEMMA RequestsStep ==
  ASSUME NEW sv \in Servers,
         \A w \in Servers \ {sv} : pc'[w] = pc[w] /\ cmd'[w] = cmd[w]
  PROVE  Requests' = [Requests EXCEPT ![sv] = Asked(sv)']
<1>1. \A w \in Servers \ {sv} : Asked(w)' = Asked(w)
  BY DEF Asked
<1> QED
  BY <1>1 DEF Requests

(* Between commands, a server serves no request. *)
LEMMA RequestsNow ==
  ASSUME NEW sv \in Servers
  PROVE  Requests[sv] = Asked(sv) /\ (pc[sv] = "idle" => Asked(sv) = [kind |-> "none"])
<1>1. pc[sv] = "idle" => Asked(sv) = [kind |-> "none"]
  BY DEF Asked
<1> QED
  BY <1>1 DEF Requests

(* A command begins: a request is received. *)
LEMMA FirstReceives ==
  ASSUME Proper, DebtInv, NEW sv \in Servers, First(sv)
  PROVE  Ledger!Next
<1> USE Numbers DEF DebtInv, TypeInv
<1>1. PICK p \in Players, q \in Players, n \in Amounts, lose \in Amounts \cup {0} :
        \/ Buy(sv, p, n) \/ Trade(sv, p, q, n) \/ Penalty(sv, p, n) \/ Charge(sv, p, n)
        \/ SellItem(sv, p, n) \/ Grant(sv, p, n) \/ Kill(sv, p, q, n, lose)
  BY DEF First
<1>2. ASSUME NEW label \in {"spend", "credit"}, NEW c, Begin(sv, label, c),
             label = "spend" \/ c.op \notin Own, Asked(sv)' \in Ledger!Request
      PROVE  Ledger!Next
  <2>1. UNCHANGED <<points, faults>> /\ pc[sv] = "idle"
        /\ \A w \in Servers \ {sv} : pc'[w] = pc[w] /\ cmd'[w] = cmd[w]
    BY <1>2 DEF Begin, TypeOK
  <2>2. \A r \in Players : Held(r, Own)' = Held(r, Own)
    BY <1>2, HeldBegin
  <2>3. UNCHANGED Balance
    BY <2>1, <2>2 DEF Balance, Known, Own
  <2>4. Requests[sv] = [kind |-> "none"]
    BY <2>1, RequestsNow
  <2>5. Requests' = [Requests EXCEPT ![sv] = Asked(sv)']
    BY <2>1, RequestsStep
  <2>6. Ledger!Receive(sv)
    BY <1>2, <2>3, <2>4, <2>5 DEF Ledger!Receive, Ledger!NoRequest, Requests
  <2> QED
    BY <2>1, <2>6, Numbers DEF Ledger!Next
<1>3. ASSUME NEW label, NEW c, Begin(sv, label, c)
      PROVE  pc'[sv] = label /\ cmd'[sv] = c
  BY <1>3 DEF Begin, TypeOK
<1> USE DEF Command, Asked, Own, Taking, Purchases, Ledger!Request
<1>4. CASE Buy(sv, p, n)
  BY <1>2, <1>3, <1>4 DEF Buy
<1>5. CASE Trade(sv, p, q, n)
  BY <1>2, <1>3, <1>5 DEF Trade
<1>6. CASE Penalty(sv, p, n)
  BY <1>2, <1>3, <1>6 DEF Penalty
<1>7. CASE Charge(sv, p, n)
  BY <1>7 DEF Charge, Begin, Proper, Guarded
<1>8. CASE SellItem(sv, p, n)
  BY <1>2, <1>3, <1>8 DEF SellItem
<1>9. CASE Grant(sv, p, n)
  BY <1>2, <1>3, <1>9 DEF Grant
<1>10. CASE Kill(sv, p, q, n, lose)
  <2>1. lose > 0 => lose \in Amounts
    OBVIOUS
  <2> QED
    BY <1>2, <1>3, <1>10, <2>1 DEF Kill
<1> QED
  BY <1>1, <1>4, <1>5, <1>6, <1>7, <1>8, <1>9, <1>10

(* What the command of sv holds at one of its steps. *)
Taken(sv, label) ==
  IF label \in {"act", "credit"} /\ cmd[sv].op \in Own THEN cmd[sv].amount ELSE 0

Change(sv, label, x, n) ==
  [p \in Players |->
    IF Known(p)
      THEN Balance[p] + (IF p = x THEN n ELSE 0)
             + (IF p = cmd[sv].payer THEN Taken(sv, label) - Taken(sv, pc[sv]) ELSE 0)
      ELSE NoEntry]

(* A step of a command changes the balance of its payer by what it takes or  *)
(* lets go, and that of x by what it writes to the table.                    *)
LEMMA Served ==
  ASSUME Proper, DebtInv, NEW sv \in Servers, NEW label \in {"idle", "spend", "act", "credit"},
         pc[sv] # "idle", Finish(sv, label), NEW x \in Players, NEW n \in Int,
         points' = Plus(x, n) \/ (points' = points /\ n = 0)
  PROVE  /\ Balance' = Change(sv, label, x, n)
         /\ Requests[sv] = Asked(sv) /\ Requests' = [Requests EXCEPT ![sv] = Asked(sv)']
         /\ label = "idle" => Asked(sv)' = [kind |-> "none"]
         /\ pc'[sv] = label /\ (label # "idle" => cmd'[sv] = cmd[sv])
<1> USE Numbers DEF DebtInv, TypeInv
<1>1. /\ pc'[sv] = label /\ (label # "idle" => cmd'[sv] = cmd[sv])
      /\ \A w \in Servers \ {sv} : pc'[w] = pc[w] /\ cmd'[w] = cmd[w]
  BY DEF Finish, TypeOK
<1>2. Requests[sv] = Asked(sv) /\ Requests' = [Requests EXCEPT ![sv] = Asked(sv)']
  BY <1>1, RequestsNow, RequestsStep
<1>3. label = "idle" => Asked(sv)' = [kind |-> "none"]
  BY <1>1 DEF Asked
<1>4. \A p \in Players :
        points'[p] = IF Known(p) THEN points[p] + (IF p = x THEN n ELSE 0) ELSE points[p]
  <2>1. CASE points' = Plus(x, n)
    BY <2>1, PlusFacts
  <2>2. CASE points' = points /\ n = 0
    BY <2>2
  <2> QED
    BY <2>1, <2>2
<1>5. cmd[sv] \in Cmd /\ (cmd[sv].op \in Own => Plays(cmd[sv].payer, sv))
  BY DEF TypeOK, Phase, Placed, Own, Taking, OwnOps, Purchases
<1>6. cmd[sv].payer \in Players /\ cmd[sv].amount \in Int
  BY <1>5 DEF Cmd
<1>7. Taken(sv, label) \in Int /\ Taken(sv, pc[sv]) \in Int
  BY <1>6 DEF Taken
<1>8. ASSUME NEW p \in Players
      PROVE  Held(p, Own)' = Held(p, Own)
               + (IF p = cmd[sv].payer THEN Taken(sv, label) - Taken(sv, pc[sv]) ELSE 0)
  <2>1. Held(p, Own) \in Int
    BY HeldRange
  <2>2. CASE p = cmd[sv].payer /\ Plays(p, sv)
    BY <1>6, <2>2, HeldFinish DEF Taken
  <2>3. CASE p = cmd[sv].payer /\ ~Plays(p, sv)
    BY <1>5, <1>6, <2>1, <2>3, HeldFinish DEF Taken
  <2>4. CASE p # cmd[sv].payer
    BY <2>1, <2>4, HeldFinish
  <2> QED
    BY <2>2, <2>3, <2>4
<1>9. ASSUME NEW p \in Players
      PROVE  Balance'[p] = Change(sv, label, x, n)[p]
  <2>1. CASE Known(p)
    <3>1. Held(p, Own) \in Int /\ points[p] \in Int
      BY <2>1, HeldRange
    <3>2. Known(p)' /\ points'[p] = points[p] + (IF p = x THEN n ELSE 0)
      BY <1>4, <2>1, <3>1 DEF Known
    <3>3. Balance'[p] = points'[p] + Held(p, Own)' /\ Balance[p] = points[p] + Held(p, Own)
      BY <2>1, <3>2 DEF Balance, Own
    <3> QED
      BY <1>7, <1>8, <2>1, <3>1, <3>2, <3>3 DEF Change
  <2>2. CASE ~Known(p)
    BY <1>4, <2>2 DEF Balance, Change, Known
  <2> QED
    BY <2>1, <2>2
<1>10. Balance' = Change(sv, label, x, n)
  BY <1>9 DEF Balance, Change
<1> QED
  BY <1>1, <1>2, <1>3, <1>10

(* What such a step does to the accounts of the ledger. *)
LEMMA Moves ==
  ASSUME DebtInv, NEW sv \in Servers, NEW label, pc[sv] # "idle",
         NEW x \in Players, NEW n \in Int, NEW b, b = Change(sv, label, x, n)
  PROVE  LET c == cmd[sv]
             T == Taken(sv, label) - Taken(sv, pc[sv])
         IN
         /\ x = c.payer /\ n + T = 0 => b = Balance
         /\ x = c.payer /\ Known(x) /\ n + T = -c.amount => b = [Balance EXCEPT ![c.payer] = @ - c.amount]
         /\ T = 0 => b = [Balance EXCEPT ![x] = IF @ = NoEntry THEN NoEntry ELSE @ + n]
         /\ x # c.payer /\ Known(x) /\ Known(c.payer) /\ T = -c.amount
              => b = [Balance EXCEPT ![c.payer] = @ - c.amount, ![x] = @ + n]
<1> DEFINE c == cmd[sv]
           T == Taken(sv, label) - Taken(sv, pc[sv])
<1>1. c.payer \in Players /\ c.amount \in Int
  BY Numbers DEF DebtInv, TypeInv, TypeOK, Cmd
<1>2. T \in Int
  BY <1>1 DEF Taken
<1>3. \A p \in Players : IF Known(p) THEN Balance[p] \in Int /\ Balance[p] # NoEntry
                                     ELSE Balance[p] = NoEntry
  BY BalanceFacts DEF Balance
<1>4. Balance = [p \in Players |-> Balance[p]]
  BY DEF Balance
<1>5. b = [p \in Players |->
            IF Known(p) THEN Balance[p] + (IF p = x THEN n ELSE 0) + (IF p = c.payer THEN T ELSE 0)
                        ELSE NoEntry]
  BY DEF Change
<1> HIDE DEF c, T
<1>6. x = c.payer /\ n + T = 0 => b = Balance
  BY <1>1, <1>2, <1>3, <1>4, <1>5
<1>7. x = c.payer /\ Known(x) /\ n + T = -c.amount => b = [Balance EXCEPT ![c.payer] = @ - c.amount]
  BY <1>1, <1>2, <1>3, <1>4, <1>5
<1>8. T = 0 => b = [Balance EXCEPT ![x] = IF @ = NoEntry THEN NoEntry ELSE @ + n]
  BY <1>1, <1>2, <1>3, <1>4, <1>5
<1>9. x # c.payer /\ Known(x) /\ Known(c.payer) /\ T = -c.amount
        => b = [Balance EXCEPT ![c.payer] = @ - c.amount, ![x] = @ + n]
  BY <1>1, <1>2, <1>3, <1>4, <1>5
<1> QED
  BY <1>6, <1>7, <1>8, <1>9 DEF c, T

(* The ledger has what a command is going to spend, or has taken. *)
LEMMA PayerAffords ==
  ASSUME Proper, DebtInv, NEW sv \in Servers,
         Spending(sv) \/ (pc[sv] \in {"act", "credit"} /\ cmd[sv].op \in Own)
  PROVE  LET c == cmd[sv] IN
         /\ c.payer \in Players /\ c.amount \in Int /\ Known(c.payer)
         /\ Balance[c.payer] # NoEntry /\ Balance[c.payer] \in Int /\ Balance[c.payer] >= c.amount
<1> DEFINE c == cmd[sv]
<1> USE Numbers DEF DebtInv, TypeInv
<1>1. c \in Cmd /\ Fits(pc[sv], c) /\ Placed(sv, pc[sv], c)
  BY DEF TypeOK, Phase, Spending
<1>2. c.payer \in Players /\ c.amount \in Int
  BY <1>1 DEF Cmd
<1>3. Known(c.payer)
  BY <1>1 DEF Fits, Placed, Spending, OwnOps, Purchases, Own, Taking
<1>4. Balance[c.payer] = points[c.payer] + Held(c.payer, Own) /\ Held(c.payer, Own) \in Int
      /\ points[c.payer] \in Int /\ points[c.payer] >= 0 /\ Held(c.payer, Own) >= 0
      /\ Balance[c.payer] # NoEntry /\ Balance[c.payer] \in Int
  BY <1>2, <1>3, BalanceFacts
<1>5. CASE Spending(sv)
  BY <1>2, <1>3, <1>4, <1>5 DEF Backed
<1>6. CASE pc[sv] \in {"act", "credit"} /\ c.op \in Own
  <2>1. Plays(c.payer, sv)
    BY <1>1, <1>6 DEF Placed, Own, Taking, OwnOps, Purchases
  <2>2. Held(c.payer, Own) = c.amount
    BY <1>6, <2>1 DEF Held, Holding, Plays
  <2> QED
    BY <1>2, <1>3, <1>4, <2>2
<1> QED
  BY <1>5, <1>6

(* What a server asks of the ledger. *)
LEMMA AskedFacts ==
  ASSUME NEW sv \in Servers, pc[sv] # "idle"
  PROVE  LET c == cmd[sv] IN
         /\ c.op = "Trade"
              => Asked(sv) = [kind |-> "transfer", player |-> c.payer, to |-> c.payee, amount |-> c.amount]
         /\ pc[sv] = "credit" /\ (c.op \in {"Sell", "Grant"} \/ (c.op = "Kill" /\ ~(c.amount > 0)))
              => Asked(sv) = [kind |-> "earn", player |-> c.payee, amount |-> c.gain]
         /\ pc[sv] = "credit" /\ c.op = "Kill" /\ c.amount > 0
              => Asked(sv) = [kind |-> "reward", player |-> c.payee, amount |-> c.gain,
                              from |-> c.payer, fine |-> c.amount]
         /\ c.op # "Trade" /\ ~(pc[sv] = "credit" /\ c.op \in {"Sell", "Grant", "Kill"})
              => Asked(sv) = [kind |-> "pay", player |-> c.payer, amount |-> c.amount]
BY DEF Asked

(* Spending serves a request, keeps its points for it, or refuses it. *)
LEMMA SpendRefines ==
  ASSUME Proper, DebtInv, NEW sv \in Servers, Refuse(sv) \/ Spend(sv)
  PROVE  Ledger!Next
<1> DEFINE c == cmd[sv]
<1> USE DEF DebtInv, TypeInv
<1>1. pc[sv] = "spend" /\ Spending(sv)
  BY DEF Refuse, Spend, Spending
<1>2. Fits(pc[sv], c) /\ c \in Cmd /\ c.op \in OwnOps \cup {"Kill"}
  <2>1. c.op \in Ops /\ c \in Cmd /\ Fits(pc[sv], c)
    BY <1>1 DEF TypeOK, Phase
  <2> QED
    BY <1>1, <2>1 DEF Fits, Proper, Guarded
<1>3. /\ c.payer \in Players /\ c.amount \in Int /\ Known(c.payer)
      /\ Balance[c.payer] # NoEntry /\ Balance[c.payer] >= c.amount
  BY <1>1, PayerAffords
<1>4. Taken(sv, pc[sv]) = 0 /\ Taken(sv, "idle") = 0
      /\ (AfterSpend(c.op) # "idle" => Taken(sv, AfterSpend(c.op)) = c.amount)
  BY <1>1, <1>2 DEF Taken, AfterSpend, Own, Taking, OwnOps, Purchases
<1>5. AfterSpend(c.op) = IF c.op \in Purchases THEN "act" ELSE IF c.op = "Trade" THEN "credit" ELSE "idle"
  BY DEF AfterSpend, Purchases
<1>6. Asked(sv) = IF c.op = "Trade"
                    THEN [kind |-> "transfer", player |-> c.payer, to |-> c.payee, amount |-> c.amount]
                    ELSE [kind |-> "pay", player |-> c.payer, amount |-> c.amount]
  BY <1>1, AskedFacts
<1>7. -c.amount \in Int /\ -c.amount + (Taken(sv, "idle") - Taken(sv, pc[sv])) = -c.amount
  BY <1>3, <1>4
<1>8. CASE Refuse(sv) \/ (Fails("update") /\ Finish(sv, "idle") /\ UNCHANGED points)
  <2>1. Finish(sv, "idle") /\ points' = points /\ faults' \in {faults, faults + 1}
    BY <1>8 DEF Refuse, Fails
  <2>2. /\ Balance' = Change(sv, "idle", c.payer, 0)
        /\ Requests' = [Requests EXCEPT ![sv] = [kind |-> "none"]]
    BY <1>1, <1>3, <1>7, <2>1, Served
  <2>3. UNCHANGED Balance
    BY <1>1, <1>3, <1>4, <1>7, <2>2, Moves
  <2>4. Ledger!Refuse(sv)
    BY <2>2, <2>3 DEF Requests, Ledger!Refuse, Ledger!Finish, Ledger!NoRequest
  <2> QED
    BY <2>1, <2>4 DEF Ledger!Next
<1>9. ASSUME points' = Plus(c.payer, -c.amount), Finish(sv, "idle"), c.op # "Trade",
             faults' \in {faults, faults + 1}
      PROVE  Ledger!Next
  <2>1. /\ Balance' = Change(sv, "idle", c.payer, -c.amount) /\ Requests[sv] = Asked(sv)
        /\ Requests' = [Requests EXCEPT ![sv] = [kind |-> "none"]]
    BY <1>1, <1>3, <1>7, <1>9, Served
  <2>2. Balance' = [Balance EXCEPT ![c.payer] = @ - c.amount]
    BY <1>1, <1>3, <1>4, <1>7, <2>1, Moves
  <2>3. /\ Requests[sv].kind = "pay"
        /\ Requests[sv].player = c.payer /\ Requests[sv].amount = c.amount
    BY <1>6, <1>9, <2>1
  <2>4. Ledger!Pay(sv)
    BY <1>3, <2>1, <2>2, <2>3
    DEF Requests, Ledger!Pay, Ledger!Affords, Ledger!Finish, Ledger!NoRequest
  <2> QED
    BY <1>9, <2>4 DEF Ledger!Next
<1>10. ASSUME points' = Plus(c.payer, -c.amount), Finish(sv, "idle"), faults' = faults + 1
       PROVE  Ledger!Next
  <2>1. /\ Balance' = Change(sv, "idle", c.payer, -c.amount) /\ Requests[sv] = Asked(sv)
        /\ Requests' = [Requests EXCEPT ![sv] = [kind |-> "none"]]
    BY <1>1, <1>3, <1>7, <1>10, Served
  <2>2. Balance' = [Balance EXCEPT ![c.payer] = @ - c.amount]
    BY <1>1, <1>3, <1>4, <1>7, <2>1, Moves
  <2>3. /\ Requests[sv].kind \in {"pay", "transfer"}
        /\ Requests[sv].player = c.payer /\ Requests[sv].amount = c.amount
    BY <1>6, <2>1
  <2>4. Ledger!Forfeit(sv)
    BY <1>3, <1>10, <2>1, <2>2, <2>3
    DEF Requests, Ledger!Forfeit, Ledger!Affords, Ledger!Finish, Ledger!NoRequest
  <2> QED
    BY <1>10, <2>4 DEF Ledger!Next
<1>11. ASSUME points' = Plus(c.payer, -c.amount), Finish(sv, AfterSpend(c.op)), UNCHANGED faults,
              AfterSpend(c.op) # "idle"
       PROVE  Ledger!Next
  <2>1. /\ Balance' = Change(sv, AfterSpend(c.op), c.payer, -c.amount)
        /\ Requests[sv] = Asked(sv) /\ Requests' = [Requests EXCEPT ![sv] = Asked(sv)']
        /\ pc'[sv] = AfterSpend(c.op) /\ cmd'[sv] = c
    BY <1>1, <1>3, <1>5, <1>7, <1>11, Served
  <2>2. UNCHANGED Balance
    BY <1>1, <1>3, <1>4, <1>7, <1>11, <2>1, Moves
  <2>3. Asked(sv)' = Asked(sv)
    BY <1>1, <1>5, <1>11, <2>1 DEF Asked, Purchases
  <2>4. UNCHANGED Requests
    BY <2>1, <2>3 DEF Requests
  <2> QED
    BY <1>11, <2>2, <2>4 DEF Ledger!Next, Requests
<1> QED
  BY <1>5, <1>8, <1>9, <1>10, <1>11 DEF Spend, Fails

(* Delivering what was bought settles the request; losing it forfeits the points. *)
LEMMA ActRefines ==
  ASSUME Proper, DebtInv, NEW sv \in Servers, Deliver(sv) \/ LoseKit(sv) \/ GiveDinoFails(sv)
  PROVE  Ledger!Next
<1> DEFINE c == cmd[sv]
<1> USE DEF DebtInv, TypeInv
<1>1. pc[sv] = "act" /\ c.op \in Purchases /\ c.op \in Own
  BY DEF Deliver, LoseKit, GiveDinoFails, TypeOK, Phase, Fits, Own, Taking, Purchases
<1>2. /\ c.payer \in Players /\ c.amount \in Int /\ Known(c.payer)
      /\ Balance[c.payer] # NoEntry /\ Balance[c.payer] >= c.amount
  BY <1>1, PayerAffords
<1>3. Taken(sv, pc[sv]) = c.amount /\ Taken(sv, "idle") = 0 /\ Taken(sv, "credit") = c.amount
  BY <1>1 DEF Taken
<1>4. /\ 0 + (Taken(sv, "idle") - Taken(sv, pc[sv])) = -c.amount
      /\ 0 + (Taken(sv, "credit") - Taken(sv, pc[sv])) = 0
  BY <1>2, <1>3
<1>5. Asked(sv) = [kind |-> "pay", player |-> c.payer, amount |-> c.amount]
  BY <1>1, AskedFacts DEF Purchases
<1>6. CASE Deliver(sv) \/ LoseKit(sv)
  <2>1. Finish(sv, "idle") /\ points' = points /\ faults' \in {faults, faults + 1}
    BY <1>6 DEF Deliver, LoseKit, Fails
  <2>2. /\ Balance' = Change(sv, "idle", c.payer, 0) /\ Requests[sv] = Asked(sv)
        /\ Requests' = [Requests EXCEPT ![sv] = [kind |-> "none"]]
    BY <1>1, <1>2, <2>1, Served
  <2>3. Balance' = [Balance EXCEPT ![c.payer] = @ - c.amount]
    BY <1>1, <1>2, <1>4, <2>2, Moves
  <2>4. /\ Requests[sv].kind = "pay"
        /\ Requests[sv].player = c.payer /\ Requests[sv].amount = c.amount
    BY <1>5, <2>2
  <2>5. Ledger!Pay(sv)
    BY <1>2, <2>2, <2>3, <2>4
    DEF Requests, Ledger!Pay, Ledger!Affords, Ledger!Finish, Ledger!NoRequest
  <2> QED
    BY <2>1, <2>5 DEF Ledger!Next
<1>7. CASE GiveDinoFails(sv)
  <2>1. Finish(sv, "credit") /\ points' = points /\ UNCHANGED faults /\ c.op = "BuyDino"
    BY <1>7 DEF GiveDinoFails
  <2>2. /\ Balance' = Change(sv, "credit", c.payer, 0)
        /\ Requests[sv] = Asked(sv) /\ Requests' = [Requests EXCEPT ![sv] = Asked(sv)']
        /\ pc'[sv] = "credit" /\ cmd'[sv] = c
    BY <1>1, <1>2, <2>1, Served
  <2>3. UNCHANGED Balance
    BY <1>1, <1>2, <1>4, <2>2, Moves
  <2>4. Asked(sv)' = Asked(sv)
    BY <1>1, <2>1, <2>2 DEF Asked
  <2>5. UNCHANGED Requests
    BY <2>2, <2>4 DEF Requests
  <2> QED
    BY <2>1, <2>3, <2>5 DEF Ledger!Next, Requests
<1> QED
  BY <1>6, <1>7

(* Adding points completes a request, or the price goes back to its payer. *)
LEMMA CreditRefines ==
  ASSUME Proper, DebtInv, NEW sv \in Servers, Credit(sv)
  PROVE  Ledger!Next
<1> DEFINE c == cmd[sv]
<1> USE DEF DebtInv, TypeInv
<1>1. pc[sv] = "credit" /\ faults' \in {faults, faults + 1}
      /\ c \in Cmd /\ Fits(pc[sv], c) /\ Placed(sv, pc[sv], c)
  BY DEF Credit, Fails, TypeOK, Phase
<1>2. /\ c.payer \in Players /\ c.payee \in Players /\ c.amount \in Int /\ c.gain \in Int
      /\ c.op \in {"Trade", "Sell", "Grant", "Kill", "BuyDino"}
      /\ c.op \in {"Trade", "BuyDino"} <=> c.op \in Own
  BY <1>1, Numbers DEF Cmd, Fits, Own, Taking, Purchases
<1>3. c.op \in Own => /\ Known(c.payer) /\ Balance[c.payer] # NoEntry
                      /\ Balance[c.payer] >= c.amount
  BY <1>1, PayerAffords
<1>4. Taken(sv, "idle") - Taken(sv, pc[sv]) = IF c.op \in Own THEN -c.amount ELSE 0
  BY <1>1, <1>2 DEF Taken
<1>5. ASSUME points' = points, Finish(sv, "idle"), faults' = faults + 1
      PROVE  Ledger!Next
  <2>1. /\ Balance' = Change(sv, "idle", c.payer, 0) /\ Requests[sv] = Asked(sv)
        /\ Requests' = [Requests EXCEPT ![sv] = [kind |-> "none"]]
    BY <1>1, <1>2, <1>5, Served
  <2>2. CASE c.op \in Own
    <3>1. 0 + (Taken(sv, "idle") - Taken(sv, pc[sv])) = -c.amount
      BY <1>2, <1>4, <2>2
    <3>2. Balance' = [Balance EXCEPT ![c.payer] = @ - c.amount]
      BY <1>1, <1>2, <1>3, <2>1, <2>2, <3>1, Moves
    <3>3. /\ Requests[sv].kind \in {"pay", "transfer"}
          /\ Requests[sv].player = c.payer /\ Requests[sv].amount = c.amount
      BY <1>1, <1>2, <2>1, <2>2, AskedFacts
    <3>4. Ledger!Forfeit(sv)
      BY <1>2, <1>3, <1>5, <2>1, <2>2, <3>2, <3>3
      DEF Requests, Ledger!Forfeit, Ledger!Affords, Ledger!Finish, Ledger!NoRequest
    <3> QED
      BY <1>5, <3>4 DEF Ledger!Next
  <2>3. CASE c.op \notin Own
    <3>1. 0 + (Taken(sv, "idle") - Taken(sv, pc[sv])) = 0
      BY <1>2, <1>4, <2>3
    <3>2. UNCHANGED Balance
      BY <1>1, <1>2, <2>1, <3>1, Moves
    <3>3. Ledger!Refuse(sv)
      BY <2>1, <3>2 DEF Requests, Ledger!Refuse, Ledger!Finish, Ledger!NoRequest
    <3> QED
      BY <1>5, <3>3 DEF Ledger!Next
  <2> QED
    BY <2>2, <2>3
<1>6. ASSUME points' = Plus(c.payee, c.gain), Finish(sv, "idle"),
             c.op = "Kill" /\ c.amount > 0 => faults' = faults + 1
      PROVE  Ledger!Next
  <2>1. /\ Balance' = Change(sv, "idle", c.payee, c.gain) /\ Requests[sv] = Asked(sv)
        /\ Requests' = [Requests EXCEPT ![sv] = [kind |-> "none"]]
    BY <1>1, <1>2, <1>6, Served
  <2>2. CASE c.op = "Trade"
    <3>1. c.payer # c.payee /\ Known(c.payee) /\ c.gain = c.amount
      BY <1>1, <2>2 DEF Fits, Placed
    <3>2. Balance' = [Balance EXCEPT ![c.payer] = @ - c.amount, ![c.payee] = @ + c.gain]
      BY <1>1, <1>2, <1>3, <1>4, <2>1, <2>2, <3>1, Moves
    <3>3. /\ Requests[sv].kind = "transfer" /\ Requests[sv].to = c.payee
          /\ Requests[sv].player = c.payer /\ Requests[sv].amount = c.amount
      BY <1>1, <2>1, <2>2, AskedFacts
    <3>4. Balance[c.payee] # NoEntry
      BY <1>2, <3>1, BalanceFacts
    <3>5. Ledger!Transfer(sv)
      BY <1>2, <1>3, <2>1, <2>2, <3>1, <3>2, <3>3, <3>4
      DEF Requests, Ledger!Transfer, Ledger!Affords, Ledger!Finish, Ledger!NoRequest
    <3> QED
      BY <1>1, <3>5 DEF Ledger!Next
  <2>3. CASE c.op = "BuyDino"
    <3>1. c.payee = c.payer /\ c.gain = c.amount
      BY <1>1, <2>3 DEF Fits
    <3>2. c.gain + (Taken(sv, "idle") - Taken(sv, pc[sv])) = 0
      BY <1>2, <1>4, <2>3, <3>1
    <3>3. UNCHANGED Balance
      BY <1>1, <1>2, <2>1, <3>1, <3>2, Moves
    <3>4. Ledger!Refuse(sv)
      BY <2>1, <3>3 DEF Requests, Ledger!Refuse, Ledger!Finish, Ledger!NoRequest
    <3> QED
      BY <1>1, <3>4 DEF Ledger!Next
  <2>4. CASE c.op \in {"Sell", "Grant", "Kill"}
    <3>1. Balance' = [Balance EXCEPT ![c.payee] = IF @ = NoEntry THEN NoEntry ELSE @ + c.gain]
      BY <1>1, <1>2, <1>4, <2>1, <2>4, Moves
    <3>2. /\ Requests[sv].kind = IF c.op = "Kill" /\ c.amount > 0 THEN "reward" ELSE "earn"
          /\ Requests[sv].player = c.payee /\ Requests[sv].amount = c.gain
      BY <1>1, <2>1, <2>4, AskedFacts
    <3>3. CASE c.op = "Kill" /\ c.amount > 0
      <4>1. Ledger!Reward(sv) /\ faults' = faults + 1
        BY <1>2, <1>6, <2>1, <3>1, <3>2, <3>3
        DEF Requests, Ledger!Reward, Ledger!Plus, Ledger!Finish, Ledger!NoRequest
      <4> QED
        BY <4>1 DEF Ledger!Next
    <3>4. CASE ~(c.op = "Kill" /\ c.amount > 0)
      <4>1. Ledger!Earn(sv)
        BY <1>2, <2>1, <3>1, <3>2, <3>4
        DEF Requests, Ledger!Earn, Ledger!Plus, Ledger!Finish, Ledger!NoRequest
      <4> QED
        BY <1>1, <4>1 DEF Ledger!Next
    <3> QED
      BY <3>3, <3>4
  <2> QED
    BY <1>2, <2>2, <2>3, <2>4
<1>7. ASSUME points' = Plus(c.payee, c.gain), Finish(sv, "spend"), c.op = "Kill", c.amount > 0
      PROVE  Ledger!Next
  <2>1. /\ Balance' = Change(sv, "spend", c.payee, c.gain) /\ Requests[sv] = Asked(sv)
        /\ Requests' = [Requests EXCEPT ![sv] = Asked(sv)']
        /\ pc'[sv] = "spend" /\ cmd'[sv] = c
    BY <1>1, <1>2, <1>7, Served
  <2>2. Taken(sv, "spend") - Taken(sv, pc[sv]) = 0
    BY <1>1, <1>2, <1>7 DEF Taken
  <2>3. Balance' = [Balance EXCEPT ![c.payee] = IF @ = NoEntry THEN NoEntry ELSE @ + c.gain]
    BY <1>1, <1>2, <2>1, <2>2, Moves
  <2>4. /\ Requests[sv].kind = "reward" /\ Requests[sv].player = c.payee
        /\ Requests[sv].amount = c.gain /\ Requests[sv].from = c.payer
        /\ Requests[sv].fine = c.amount
    BY <1>1, <1>7, <2>1, AskedFacts
  <2>5. Asked(sv)' = [kind |-> "pay", player |-> c.payer, amount |-> c.amount]
    BY <1>7, <2>1 DEF Asked
  <2>6. Ledger!Reward(sv)
    BY <1>2, <2>1, <2>3, <2>4, <2>5 DEF Requests, Ledger!Reward, Ledger!Plus
  <2> QED
    BY <1>1, <2>6 DEF Ledger!Next
<1> QED
  BY <1>5, <1>6, <1>7 DEF Credit, Fails, AfterCredit

(* Players come and go, and a crash refuses the request of its server, or    *)
(* forfeits what its command holds.                                          *)
LEMMA WorldRefines ==
  ASSUME Proper, DebtInv, NEW sv \in Servers, World(sv)
  PROVE  Ledger!Next
<1> USE Numbers DEF DebtInv, TypeInv
<1>1. ASSUME NEW p \in Players, Login(sv, p) \/ Spawn(sv, p) \/ Logout(sv, p)
      PROVE  Ledger!Next
  <2>1. UNCHANGED <<pc, cmd>> /\ faults' \in {faults, faults + 1} /\ pc[sv] = "idle"
    BY <1>1 DEF Login, Spawn, Logout, Fails
  <2>2. UNCHANGED Requests
    BY <2>1 DEF Requests, Asked
  <2>3. \A q \in Players : Held(q, Own)' = Held(q, Own)
    BY <1>1 DEF Login, Spawn, Logout, Held, Holding, Plays, TypeOK
  <2>4. CASE UNCHANGED points
    <3>1. UNCHANGED Balance
      BY <2>3, <2>4 DEF Balance, Known, Own
    <3> QED
      BY <2>1, <2>2, <3>1 DEF Ledger!Next, Requests
  <2>5. CASE ~Known(p) /\ points' = [points EXCEPT ![p] = 0]
    <3>1. \A w \in Servers : ~(pc[w] # "idle" /\ cmd[w].op \in Own /\ cmd[w].payer = p)
      BY <2>5 DEF Phase, Placed, Own, Taking, Purchases
    <3>2. Held(p, Own) = 0
      BY <3>1 DEF Held, Holding
    <3>3. \A q \in Players : Balance'[q] = IF q = p THEN 0 ELSE Balance[q]
      <4> TAKE q \in Players
      <4>1. CASE q = p
        <5>1. points'[q] = 0 /\ Known(q)' /\ Held(q, Own)' = 0
          BY <2>3, <2>5, <3>2, <4>1 DEF Known, TypeOK
        <5> QED
          BY <4>1, <5>1 DEF Balance, Own
      <4>2. CASE q # p
        <5>1. points'[q] = points[q] /\ Held(q, Own)' = Held(q, Own)
          BY <2>3, <2>5, <4>2
        <5> QED
          BY <4>2, <5>1 DEF Balance, Known, Own
      <4> QED
        BY <4>1, <4>2
    <3>4. Balance' = [Balance EXCEPT ![p] = 0] /\ Balance[p] = NoEntry
      BY <2>5, <3>3 DEF Balance
    <3>5. Ledger!Open(p)
      BY <2>2, <3>4 DEF Ledger!Open, Requests
    <3> QED
      BY <2>1, <3>5 DEF Ledger!Next
  <2> QED
    BY <1>1, <2>4, <2>5 DEF Login, Spawn, Logout, Known, TypeOK
<1>2. CASE Crash(sv)
  <2> DEFINE c == cmd[sv]
  <2>1. /\ faults' = faults + 1 /\ UNCHANGED points /\ pc'[sv] = "idle"
        /\ \A w \in Servers \ {sv} : pc'[w] = pc[w] /\ cmd'[w] = cmd[w]
        /\ online' = [p \in Players |-> IF Plays(p, sv) THEN NoEntry ELSE online[p]]
    BY <1>2 DEF Crash, Fails, Plays, TypeOK
  <2>2. Asked(sv)' = [kind |-> "none"] /\ Requests[sv] = Asked(sv)
    BY <2>1, RequestsNow DEF Asked
  <2>3. Requests' = [Requests EXCEPT ![sv] = [kind |-> "none"]]
    BY <2>1, <2>2, RequestsStep
  <2>4. ASSUME NEW p \in Players
        PROVE  Held(p, Own)' = IF Plays(p, sv) THEN 0 ELSE Held(p, Own)
    <3>1. CASE Plays(p, sv)
      BY <2>1, <3>1 DEF Held
    <3>2. CASE ~Plays(p, sv)
      BY <2>1, <3>2 DEF Held, Holding, Plays
    <3> QED
      BY <3>1, <3>2
  <2>5. CASE pc[sv] \in {"act", "credit"} /\ c.op \in Own
    <3>1. /\ c.payer \in Players /\ c.amount \in Int /\ Known(c.payer)
          /\ Balance[c.payer] # NoEntry /\ Balance[c.payer] >= c.amount
      BY <2>5, PayerAffords
    <3>2. Plays(c.payer, sv)
      BY <2>5 DEF Phase, Placed, Own, Taking, OwnOps, Purchases
    <3>3. \A p \in Players : Plays(p, sv) => Held(p, Own) = IF p = c.payer THEN c.amount ELSE 0
      BY <2>5 DEF Held, Holding, Plays
    <3>4. \A p \in Players :
            Balance'[p] = IF p = c.payer THEN Balance[p] - c.amount ELSE Balance[p]
      <4> TAKE p \in Players
      <4>1. CASE Known(p)
        <5>1. points[p] \in Int /\ Held(p, Own) \in Int /\ Balance[p] = points[p] + Held(p, Own)
          BY <4>1, BalanceFacts
        <5>2. Balance'[p] = points[p] + Held(p, Own)'
          BY <2>1, <4>1 DEF Balance, Known, Own
        <5> QED
          BY <2>4, <3>1, <3>2, <3>3, <5>1, <5>2
      <4>2. CASE ~Known(p)
        BY <2>1, <3>1, <4>2 DEF Balance, Known
      <4> QED
        BY <4>1, <4>2
    <3>5. Balance' = [Balance EXCEPT ![c.payer] = @ - c.amount]
      BY <3>4 DEF Balance
    <3>6. /\ Requests[sv].kind \in {"pay", "transfer"}
          /\ Requests[sv].player = c.payer /\ Requests[sv].amount = c.amount
      BY <2>2, <2>5, AskedFacts DEF Own, Taking, Purchases
    <3>7. Ledger!Forfeit(sv)
      BY <2>1, <2>3, <3>1, <3>5, <3>6
      DEF Requests, Ledger!Forfeit, Ledger!Affords, Ledger!Finish, Ledger!NoRequest
    <3> QED
      BY <2>1, <3>7 DEF Ledger!Next
  <2>6. CASE ~(pc[sv] \in {"act", "credit"} /\ c.op \in Own)
    <3>1. \A p \in Players : Plays(p, sv) => Held(p, Own) = 0
      BY <2>6 DEF Held, Holding, Plays
    <3>2. \A p \in Players : Held(p, Own)' = Held(p, Own)
      BY <2>4, <3>1
    <3>3. UNCHANGED Balance
      BY <2>1, <3>2 DEF Balance, Known, Own
    <3>4. Ledger!Refuse(sv)
      BY <2>3, <3>3 DEF Requests, Ledger!Refuse, Ledger!Finish, Ledger!NoRequest
    <3> QED
      BY <2>1, <3>4 DEF Ledger!Next
  <2> QED
    BY <2>5, <2>6
<1> QED
  BY <1>1, <1>2 DEF World, SetPoints, ResetPoints, Proper

(* Where only players take from their own accounts, or there is one server,  *)
(* and no operator overwrites balances, every command moves its points once  *)
(* or not at all, and what fails costs nobody but the payer of its command.  *)
THEOREM Refinement ==
  ASSUME Proper
  PROVE  Spec => ImplementsLedger
<1>1. Init => Ledger!Init
  BY DEF Init, Ledger!Init, Ledger!NoRequest, Balance, Asked, Known
<1>2. DebtInv /\ [Next]_vars => [Ledger!Next]_<<Balance, Requests, faults>>
  <2>1. ASSUME DebtInv, Next PROVE Ledger!Next
    <3>1. PICK sv \in Servers : First(sv) \/ Statement(sv) \/ World(sv)
      BY <2>1, Steps
    <3> QED
      BY <2>1, <3>1, FirstReceives, SpendRefines, ActRefines, CreditRefines, WorldRefines
      DEF Statement
  <2>2. ASSUME DebtInv, UNCHANGED vars PROVE UNCHANGED <<Balance, Requests, faults>>
    <3>1. UNCHANGED Requests
      BY <2>2 DEF vars, Requests, Asked
    <3>2. UNCHANGED Balance
      BY <2>2 DEF vars, Balance, Known, Held, Holding
    <3> QED
      BY <2>2, <3>1, <3>2 DEF vars
  <2> QED
    BY <2>1, <2>2
<1>3. Spec => []DebtInv
  BY DebtInvariant DEF Proper
<1> QED
  BY <1>1, <1>2, <1>3, PTL DEF Spec, ImplementsLedger, Ledger!Spec, Requests
=============================================================================
