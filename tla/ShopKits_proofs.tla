--------------------------- MODULE ShopKits_proofs ---------------------------
(***************************************************************************)
(* Theorems about the kits of ArkShop, for any servers, players, kits,     *)
(* amounts and numbers of failures.  Neither promise is inductive by       *)
(* itself: that a kit is used up rests on the document a command writes    *)
(* back being the one in the row, and that on no other command having the  *)
(* same player.                                                            *)
(***************************************************************************)
EXTENDS ShopKits, TLAPS

(* Operators write documents of players who play elsewhere; what ShopKits
   promises then, it promises of a single server only. *)
Guarded == Ops \subseteq OwnOps \/ \A s, t \in Servers : s = t

(* What a command is like at each of its steps: its player plays on its
   server unless an operator typed it. *)
Fits(sv) ==
  LET c == cmd[sv] IN
  /\ c.op \in {"Redeem", "Buy", "Change", "Show"}
  /\ pc[sv] = "give" => c.op = "Redeem"
  /\ c.op = "Redeem" => c.n = -1
  /\ c.op = "Show" => c.n = 0
  /\ c.op = "Buy" => c.n > 0
  /\ c.op \in OwnOps => online[c.player] = sv

Phase == \A sv \in Servers : pc[sv] # "idle" => Fits(sv)

TypeInv == TypeOK /\ Phase

(* What a failed read of a player's document cannot spoil. *)
Sound(p, k) == p \notin unread \/ DefaultAmount[k] = 0

(* The document to be written back is the one in the row, and the row has the
   kit that is about to be redeemed. *)
Current(sv) ==
  LET c == cmd[sv] IN
  /\ pc[sv] = "save" => c.doc = kits[c.player] \/ (c.doc = Empty /\ c.player \in unread)
  /\ pc[sv] # "give" /\ c.op = "Redeem" /\ Sound(c.player, c.kit) =>
       Amount(kits[c.player], c.kit) > 0

Backed == \A sv \in Servers : pc[sv] # "idle" => Current(sv)

Books == \A p \in Players, k \in Kits : Sound(p, k) => Lost(p, k) >= 0

IInv == TypeInv /\ Backed /\ Books /\ KitsConserved

Dues == [Players -> [Kits -> Int]]
-----------------------------------------------------------------------------
(* Lemmas about numbers. *)

(* Amounts are integers of at most MaxAmount; what a document says of a kit is
   a natural number. *)
LEMMA Numbers ==
  /\ NoEntry \notin Int /\ NoEntry \notin Servers
  /\ MaxAmount \in Nat /\ MaxAmount >= 1 /\ MaxFaults \in Nat
  /\ \A n \in Amounts \cup {-1, 0} : n \in Int /\ n <= MaxAmount
  /\ Empty \in Docs
  /\ \A doc \in Docs, k \in Kits : Amount(doc, k) \in Nat
  /\ \A k \in Kits : Amount(Empty, k) = DefaultAmount[k] /\ DefaultAmount[k] \in Nat
<1>1. /\ NoEntry \notin Int /\ NoEntry \notin Servers
      /\ MaxAmount \in Nat /\ MaxAmount >= 1 /\ MaxFaults \in Nat
      /\ \A n \in Amounts \cup {-1, 0} : n \in Int /\ n <= MaxAmount
      /\ DefaultAmount \in [Kits -> Nat]
  BY KitsAssumption
<1> QED
  BY <1>1 DEF Empty, Docs, Amount

(* The new amount of a command is not negative. *)
LEMMA NewAmountFacts ==
  ASSUME NEW c \in Cmd
  PROVE  /\ NewAmount(c) \in Nat
         /\ LET n == Amount(c.doc, c.kit) + c.n IN NewAmount(c) = IF n >= 0 THEN n ELSE 0
<1>1. Amount(c.doc, c.kit) \in Nat /\ c.n \in Int
  BY Numbers DEF Cmd
<1> QED
  BY <1>1 DEF NewAmount

(* Adding to what a player ought to own changes that entry only. *)
LEMMA OweFacts ==
  ASSUME due \in Dues
  PROVE  \A p \in Players, k \in Kits, n \in Int :
           /\ Owe(p, k, n) \in Dues
           /\ \A q \in Players, j \in Kits :
                Owe(p, k, n)[q][j] = IF q = p /\ j = k THEN due[q][j] + n ELSE due[q][j]
<1>1. TAKE p \in Players, k \in Kits, n \in Int
<1>2. Owe(p, k, n) = [due EXCEPT ![p] = [due[p] EXCEPT ![k] = due[p][k] + n]]
  BY DEF Owe
<1>3. due[p] \in [Kits -> Int] /\ due[p][k] + n \in Int
  BY DEF Dues
<1>4. [due[p] EXCEPT ![k] = due[p][k] + n] \in [Kits -> Int]
  BY <1>3
<1> QED
  BY <1>2, <1>3, <1>4 DEF Dues

(* A command's documents stay documents. *)
LEMMA WriteFacts ==
  ASSUME TypeOK, NEW c \in Cmd, Write(c), c.op = "Show" => c.n = 0
  PROVE  /\ kits' \in [Players -> Docs] /\ due' \in Dues
         /\ \A q \in Players : q # c.player => kits'[q] = kits[q]
         /\ kits'[c.player][c.kit] = NewAmount(c)
         /\ \A k \in Kits : k # c.kit => Amount(kits'[c.player], k) = Amount(c.doc, k)
         /\ \A q \in Players, k \in Kits :
              due'[q][k] = IF c.op = "Change" /\ q = c.player /\ k = c.kit
                           THEN due[q][k] + (NewAmount(c) - Amount(c.doc, c.kit)) ELSE due[q][k]
<1>1. c.player \in Players /\ c.kit \in Kits /\ c.doc \in Docs
  BY DEF Cmd
<1>2. NewAmount(c) \in Nat /\ Amount(c.doc, c.kit) \in Nat
  BY <1>1, NewAmountFacts, Numbers
<1>3. NewAmount(c) - Amount(c.doc, c.kit) \in Int
  BY <1>2
<1>4. /\ Changed(c) \in Docs /\ Changed(c)[c.kit] = NewAmount(c)
      /\ \A k \in Kits : k # c.kit => Amount(Changed(c), k) = Amount(c.doc, k)
  <2>1. CASE c.op = "Show"
    <3>1. NewAmount(c) = Amount(c.doc, c.kit)
      BY <1>2, <2>1 DEF NewAmount
    <3>2. \A k \in Kits : Amount(c.doc, k) \in Nat /\ Amount(c.doc, k) # NoEntry
      BY <1>1, Numbers
    <3>3. Changed(c) = [k \in Kits |-> Amount(c.doc, k)]
      BY <2>1 DEF Changed
    <3>4. Changed(c) \in Docs /\ \A k \in Kits : Changed(c)[k] = Amount(c.doc, k)
      BY <3>2, <3>3 DEF Docs
    <3>5. \A k \in Kits : Amount(Changed(c), k) = Amount(c.doc, k)
      <4>1. TAKE k \in Kits
      <4>2. Changed(c)[k] = Amount(c.doc, k) /\ Amount(c.doc, k) # NoEntry
        BY <3>2, <3>4
      <4>3. Amount(Changed(c), k) = Changed(c)[k]
        BY <4>2 DEF Amount
      <4> QED
        BY <4>2, <4>3
    <3> QED
      BY <1>1, <3>1, <3>4, <3>5
  <2>2. CASE c.op # "Show"
    BY <1>1, <1>2, <2>2 DEF Changed, Docs, Amount
  <2> QED
    BY <2>1, <2>2
<1>5. /\ kits' \in [Players -> Docs]
      /\ \A q \in Players : q # c.player => kits'[q] = kits[q]
      /\ kits'[c.player][c.kit] = NewAmount(c)
      /\ \A k \in Kits : k # c.kit => Amount(kits'[c.player], k) = Amount(c.doc, k)
  <2>1. kits' = [kits EXCEPT ![c.player] = Changed(c)] /\ kits \in [Players -> Docs]
    BY DEF Write, TypeOK
  <2>2. kits'[c.player] = Changed(c)
    BY <1>1, <2>1
  <2> QED
    BY <1>1, <1>4, <2>1, <2>2
<1>6. due \in Dues
  BY DEF TypeOK, Dues
<1>7. /\ due' \in Dues
      /\ \A q \in Players, k \in Kits :
              due'[q][k] = IF c.op = "Change" /\ q = c.player /\ k = c.kit
                           THEN due[q][k] + (NewAmount(c) - Amount(c.doc, c.kit)) ELSE due[q][k]
  <2> DEFINE d == NewAmount(c) - Amount(c.doc, c.kit)
  <2>1. CASE c.op = "Change"
    <3>1. due' = Owe(c.player, c.kit, d)
      BY <2>1 DEF Write
    <3>2. /\ Owe(c.player, c.kit, d) \in Dues
          /\ \A q \in Players, k \in Kits :
               Owe(c.player, c.kit, d)[q][k] =
                 IF q = c.player /\ k = c.kit THEN due[q][k] + d ELSE due[q][k]
      <4> HIDE DEF d
      <4>1. d \in Int
        BY <1>3 DEF d
      <4> QED
        BY <1>1, <1>6, <4>1, OweFacts
    <3> QED
      BY <2>1, <3>1, <3>2
  <2>2. CASE c.op # "Change"
    BY <1>6, <2>2 DEF Write
  <2> QED
    BY <2>1, <2>2
<1> QED
  BY <1>5, <1>7
-----------------------------------------------------------------------------
(* Type correctness. *)

(* A failing step is counted. *)
LEMMA FailsType ==
  ASSUME TypeOK, NEW kind, Fails(kind)
  PROVE  faults' \in 0..MaxFaults /\ faults' = faults + 1
BY Numbers DEF Fails, TypeOK

(* Whether it fails or not, a read changes only the record of failures. *)
LEMMA ReadType ==
  ASSUME TypeOK, NEW p \in Players, NEW doc, Read(p, doc)
  PROVE  /\ doc \in Docs /\ faults' \in 0..MaxFaults /\ faults' >= faults
         /\ unread \subseteq unread' /\ unread' \subseteq Players
         /\ doc = kits[p] \/ (doc = Empty /\ p \in unread')
BY FailsType, Numbers DEF Read, TypeOK

(* A command begins. *)
LEMMA BeginType ==
  ASSUME TypeInv, NEW sv \in Servers, NEW op \in {"Redeem", "Buy", "Change", "Show"},
         NEW p \in Players, NEW k \in Kits, NEW n \in Amounts \cup {-1, 0}, Begin(sv, op, p, k, n),
         op = "Redeem" => n = -1, op = "Show" => n = 0, op = "Buy" => n > 0, op \in OwnOps => online[p] = sv,
         faults' \in 0..MaxFaults, unread' \subseteq Players, due' \in Dues
  PROVE  /\ TypeInv' /\ cmd'[sv].op = op /\ cmd'[sv].player = p /\ cmd'[sv].kit = k
         /\ cmd'[sv].n = n /\ pc[sv] = "idle" /\ pc'[sv] = "load"
         /\ \A w \in Servers \ {sv} : pc'[w] = pc[w] /\ cmd'[w] = cmd[w]
<1> DEFINE c == [op |-> op, player |-> p, kit |-> k, n |-> n, doc |-> Empty]
<1>1. c \in Cmd
  BY Numbers DEF Begin, Cmd
<1>2. /\ pc' \in [Servers -> {"idle", "load", "save", "give"}] /\ DOMAIN cmd' = Servers
      /\ pc'[sv] = "load" /\ cmd'[sv] = c /\ pc[sv] = "idle"
      /\ \A w \in Servers \ {sv} : pc'[w] = pc[w] /\ cmd'[w] = cmd[w]
  BY DEF Begin, GoTo, TypeInv, TypeOK, Dues
<1>3. TypeOK'
  BY <1>1, <1>2 DEF Begin, TypeInv, TypeOK, Dues
<1>4. Fits(sv)'
  BY <1>2 DEF Fits, Begin
<1>5. \A w \in Servers \ {sv} : pc[w] # "idle" => Fits(w)'
  BY <1>2 DEF Begin, TypeInv, Phase, Fits
<1> QED
  BY <1>2, <1>3, <1>4, <1>5 DEF TypeInv, Phase

(* A command goes on, with the document it has read or the one it had. *)
LEMMA GoOnType ==
  ASSUME TypeInv, NEW sv \in Servers, NEW label \in {"save", "give"}, NEW doc \in Docs,
         pc[sv] # "idle", label = "give" => cmd[sv].op = "Redeem", GoTo(sv, label),
         \/ cmd' = [cmd EXCEPT ![sv].doc = doc] \/ UNCHANGED cmd,
         UNCHANGED online, kits' \in [Players -> Docs],
         faults' \in 0..MaxFaults, unread' \subseteq Players, due' \in Dues
  PROVE  /\ TypeInv' /\ pc'[sv] = label
         /\ cmd'[sv].op = cmd[sv].op /\ cmd'[sv].player = cmd[sv].player
         /\ cmd'[sv].kit = cmd[sv].kit /\ cmd'[sv].n = cmd[sv].n
         /\ cmd' # cmd => cmd'[sv].doc = doc
         /\ \A w \in Servers \ {sv} : pc'[w] = pc[w] /\ cmd'[w] = cmd[w]
<1>1. cmd[sv] \in Cmd /\ Fits(sv)
  BY DEF TypeInv, TypeOK, Dues, Phase
<1>2. [cmd[sv] EXCEPT !.doc = doc] \in Cmd
  BY <1>1 DEF Cmd
<1>3. cmd'[sv] = [cmd[sv] EXCEPT !.doc = doc] \/ cmd' = cmd
  BY DEF TypeInv, TypeOK, Dues
<1>4. cmd'[sv] \in Cmd
  BY <1>1, <1>2, <1>3
<1>5. /\ cmd'[sv].op = cmd[sv].op /\ cmd'[sv].player = cmd[sv].player
      /\ cmd'[sv].kit = cmd[sv].kit /\ cmd'[sv].n = cmd[sv].n
      /\ cmd' # cmd => cmd'[sv].doc = doc
  BY <1>1, <1>3 DEF Cmd
<1>6. /\ pc' \in [Servers -> {"idle", "load", "save", "give"}] /\ DOMAIN cmd' = Servers
      /\ pc'[sv] = label
      /\ \A w \in Servers \ {sv} : pc'[w] = pc[w] /\ cmd'[w] = cmd[w]
  BY DEF GoTo, TypeInv, TypeOK, Dues
<1>7. TypeOK'
  BY <1>4, <1>6 DEF TypeInv, TypeOK, Dues
<1>8. Fits(sv)'
  BY <1>1, <1>5, <1>6 DEF Fits
<1>9. \A w \in Servers \ {sv} : pc[w] # "idle" => Fits(w)'
  BY <1>6 DEF TypeInv, Phase, Fits
<1> QED
  BY <1>5, <1>6, <1>7, <1>8, <1>9 DEF TypeInv, Phase

(* A command ends, or dies with its server. *)
LEMMA FinishType ==
  ASSUME TypeInv, NEW sv \in Servers, Finish(sv),
         online' \in [Players -> Servers \cup {NoEntry}],
         \A p \in Players : online[p] # sv => online'[p] = online[p],
         kits' \in [Players -> Docs],
         faults' \in 0..MaxFaults, unread' \subseteq Players, due' \in Dues
  PROVE  /\ TypeInv' /\ pc'[sv] = "idle"
         /\ \A w \in Servers \ {sv} : pc'[w] = pc[w] /\ cmd'[w] = cmd[w]
<1>1. /\ pc' \in [Servers -> {"idle", "load", "save", "give"}] /\ DOMAIN cmd' = Servers
      /\ pc'[sv] = "idle" /\ cmd'[sv] = NoEntry
      /\ \A w \in Servers \ {sv} : pc'[w] = pc[w] /\ cmd'[w] = cmd[w]
  BY DEF Finish, GoTo, TypeInv, TypeOK, Dues
<1>2. TypeOK'
  BY <1>1 DEF TypeInv, TypeOK, Dues
<1>3. ASSUME NEW w \in Servers \ {sv}, pc[w] # "idle"
      PROVE  Fits(w)'
  <2>1. Fits(w) /\ cmd[w].player \in Players
    BY <1>3 DEF TypeInv, TypeOK, Dues, Phase, Cmd
  <2> QED
    BY <1>1, <2>1 DEF Fits
<1> QED
  BY <1>1, <1>2, <1>3 DEF TypeInv, Phase

(* No command begins, goes on or ends. *)
LEMMA StayType ==
  ASSUME TypeInv, UNCHANGED <<pc, cmd, faults, unread>>, kits' \in [Players -> Docs],
         due' \in Dues, online' \in [Players -> Servers \cup {NoEntry}],
         \A sv \in Servers, p \in Players : pc[sv] # "idle" /\ online[p] = sv => online'[p] = sv
  PROVE  TypeInv'
<1>1. TypeOK'
  BY DEF TypeInv, TypeOK, Dues
<1>2. \A sv \in Servers : pc[sv] # "idle" => cmd[sv].player \in Players
  BY DEF TypeInv, TypeOK, Dues, Cmd
<1> QED
  BY <1>1, <1>2 DEF TypeInv, Phase, Fits

(* Every step preserves the type invariant. *)
LEMMA NextType == TypeInv /\ [Next]_vars => TypeInv'
<1> SUFFICES ASSUME TypeInv, [Next]_vars PROVE TypeInv'
  OBVIOUS
<1>1. /\ kits \in [Players -> Docs] /\ due \in Dues
      /\ online \in [Players -> Servers \cup {NoEntry}]
      /\ faults \in 0..MaxFaults /\ unread \subseteq Players
      /\ \A sv \in Servers : pc[sv] # "idle" => cmd[sv] \in Cmd /\ Fits(sv)
  BY DEF TypeInv, TypeOK, Dues, Phase
<1>2. ASSUME NEW sv \in Servers, NEW p \in Players, NEW k \in Kits, Redeem(sv, p, k)
      PROVE  TypeInv'
  <2>1. PICK doc \in {kits[p], Empty} : Read(p, doc)
    BY <1>2 DEF Redeem
  <2>2. faults' \in 0..MaxFaults /\ unread' \subseteq Players
    BY <2>1, ReadType DEF TypeInv
  <2> QED
    BY <1>1, <1>2, <2>2, BeginType DEF Redeem
<1>3. ASSUME NEW sv \in Servers, NEW p \in Players, NEW k \in Kits, NEW n \in Amounts,
             Buy(sv, p, k, n)
      PROVE  TypeInv'
  <2>1. due' \in Dues
    BY <1>1, <1>3, OweFacts, Numbers DEF Buy
  <2> QED
    BY <1>1, <1>3, <2>1, BeginType DEF Buy
<1>4. ASSUME NEW sv \in Servers, NEW p \in Players, NEW k \in Kits, NEW n \in Amounts,
             Change(sv, p, k, n)
      PROVE  TypeInv'
  BY <1>1, <1>4, BeginType DEF Change, OwnOps
<1>5. ASSUME NEW sv \in Servers, Load(sv)
      PROVE  TypeInv'
  <2>1. PICK doc \in {kits[cmd[sv].player], Empty} :
          Read(cmd[sv].player, doc) /\ cmd' = [cmd EXCEPT ![sv].doc = doc]
    BY <1>5 DEF Load
  <2>2. cmd[sv].player \in Players
    BY <1>1, <1>5 DEF Load, Cmd
  <2>3. doc \in Docs /\ faults' \in 0..MaxFaults /\ unread' \subseteq Players
    BY <2>1, <2>2, ReadType DEF TypeInv
  <2> QED
    BY <1>1, <1>5, <2>1, <2>3, GoOnType DEF Load
<1>6. ASSUME NEW sv \in Servers, Save(sv)
      PROVE  TypeInv'
  <2>1. cmd[sv] \in Cmd /\ pc[sv] = "save" /\ UNCHANGED <<online, unread>>
    BY <1>1, <1>6 DEF Save
  <2>2. faults' \in 0..MaxFaults
    BY <1>1, <1>6, FailsType DEF Save, TypeInv
  <2>3. kits' \in [Players -> Docs] /\ due' \in Dues
    BY <1>1, <1>6, <2>1, WriteFacts DEF Save, TypeInv, Fits
  <2>4. CASE Finish(sv)
    BY <1>1, <2>1, <2>2, <2>3, <2>4, FinishType
  <2>5. CASE cmd[sv].op = "Redeem" /\ GoTo(sv, "give") /\ UNCHANGED cmd
    BY <1>1, <2>1, <2>2, <2>3, <2>5, GoOnType, Numbers
  <2> QED
    BY <1>6, <2>4, <2>5 DEF Save
<1>7. ASSUME NEW sv \in Servers, Give(sv)
      PROVE  TypeInv'
  <2>1. cmd[sv].player \in Players /\ cmd[sv].kit \in Kits
    BY <1>1, <1>7 DEF Give, Cmd
  <2>2. due' \in Dues
    BY <1>1, <1>7, <2>1, OweFacts DEF Give
  <2> QED
    BY <1>1, <1>7, <2>2, FinishType DEF Give
<1>8. ASSUME NEW sv \in Servers, Reset(sv)
      PROVE  TypeInv'
  <2>1. kits' \in [Players -> Docs] /\ due' \in Dues
    <3>1. Empty \in Docs /\ DefaultAmount \in [Kits -> Int]
      BY Numbers, KitsAssumption
    <3> QED
      BY <1>8, <3>1 DEF Reset, Dues
  <2> QED
    BY <1>1, <1>8, <2>1, StayType DEF Reset
<1>9. ASSUME NEW sv \in Servers, NEW p \in Players, Login(sv, p) \/ Logout(sv, p)
      PROVE  TypeInv'
  <2>1. /\ online' \in [Players -> Servers \cup {NoEntry}]
        /\ \A w \in Servers, q \in Players : pc[w] # "idle" /\ online[q] = w => online'[q] = w
    BY <1>1, <1>9, Numbers DEF Login, Logout
  <2> QED
    BY <1>1, <1>9, <2>1, StayType DEF Login, Logout
<1>10. ASSUME NEW sv \in Servers, Crash(sv)
       PROVE  TypeInv'
  <2>1. faults' \in 0..MaxFaults
    BY <1>10, FailsType DEF Crash, TypeInv
  <2>2. /\ online' \in [Players -> Servers \cup {NoEntry}]
        /\ \A p \in Players : online[p] # sv => online'[p] = online[p]
    BY <1>1, <1>10 DEF Crash
  <2> QED
    BY <1>1, <1>10, <2>1, <2>2, FinishType DEF Crash
<1>11. CASE UNCHANGED vars
  BY <1>1, <1>11, StayType DEF vars
<1>12. ASSUME NEW sv \in Servers, NEW p \in Players, InitKitData(sv, p)
       PROVE  TypeInv'
  <2>1. (CHOOSE k \in Kits : TRUE) \in Kits
    BY <1>12 DEF InitKitData
  <2> QED
    BY <1>1, <1>12, <2>1, BeginType DEF InitKitData
<1> QED
  BY <1>2, <1>3, <1>4, <1>5, <1>6, <1>7, <1>8, <1>9, <1>10, <1>11, <1>12 DEF Next, Ask

LEMMA InitType == Init => TypeInv
<1> SUFFICES ASSUME Init PROVE TypeInv
  OBVIOUS
<1>1. Empty \in Docs /\ DefaultAmount \in [Kits -> Int] /\ MaxFaults \in Nat
  BY Numbers, KitsAssumption
<1> QED
  BY <1>1 DEF Init, TypeInv, TypeOK, Phase
-----------------------------------------------------------------------------
(* Lemmas about the books. *)

(* No two commands have the same player: its own run where it plays, and
   operators' run alone. *)
LEMMA Alone ==
  ASSUME TypeInv, Guarded, NEW sv \in Servers, NEW w \in Servers,
         pc[sv] # "idle", pc[w] # "idle", cmd[sv].player = cmd[w].player
  PROVE  sv = w
<1>1. Fits(sv) /\ Fits(w) /\ cmd[sv].op \in Ops /\ cmd[w].op \in Ops
  BY DEF TypeInv, TypeOK, Phase, Cmd
<1> QED
  BY <1>1 DEF Guarded, Fits

(* What a command holds is a natural number of kits, at most MaxAmount. *)
LEMMA HeldFacts ==
  ASSUME TypeInv, NEW p \in Players, NEW k \in Kits
  PROVE  Held(p, k) \in Nat /\ Held(p, k) <= MaxAmount
<1>1. \A sv \in Servers : pc[sv] # "idle" => cmd[sv] \in Cmd /\ Fits(sv)
  BY DEF TypeInv, TypeOK, Phase
<1>2. ASSUME NEW sv \in Servers
      PROVE  HeldBy(sv, p, k) \in Nat /\ HeldBy(sv, p, k) <= MaxAmount
  BY <1>1, <1>2, Numbers DEF HeldBy, Fits, Cmd
<1> QED
  BY <1>2, Numbers DEF Held

(* What is lost is an integer. *)
LEMMA LostFacts ==
  ASSUME TypeInv, NEW p \in Players, NEW k \in Kits
  PROVE  /\ Lost(p, k) \in Int /\ due[p][k] \in Int /\ Amount(kits[p], k) \in Nat
         /\ Lost(p, k) = due[p][k] - Amount(kits[p], k) - Held(p, k)
<1>1. kits[p] \in Docs /\ due[p][k] \in Int
  BY DEF TypeInv, TypeOK
<1>2. Amount(kits[p], k) \in Nat /\ Held(p, k) \in Nat
  BY <1>1, Numbers, HeldFacts
<1> QED
  BY <1>1, <1>2 DEF Lost

(* The same after a step. *)
LEMMA NextLost ==
  ASSUME TypeInv', NEW p \in Players, NEW k \in Kits
  PROVE  /\ Lost(p, k)' \in Int /\ due'[p][k] \in Int /\ Amount(kits'[p], k) \in Nat
         /\ Held(p, k)' \in Int
         /\ Lost(p, k)' = due'[p][k] - Amount(kits'[p], k) - Held(p, k)'
<1>1. kits'[p] \in Docs /\ due'[p][k] \in Int
  BY DEF TypeInv, TypeOK
<1>2. Amount(kits'[p], k) \in Nat
  BY <1>1, Numbers
<1>3. Held(p, k)' \in Int
  <2>1. \A sv \in Servers : pc'[sv] # "idle" => cmd'[sv] \in Cmd
    BY DEF TypeInv, TypeOK
  <2>2. \A sv \in Servers : HeldBy(sv, p, k)' \in Int
    BY <2>1, Numbers DEF HeldBy, Cmd
  <2> QED
    BY <2>2 DEF Held
<1> QED
  BY <1>1, <1>2, <1>3 DEF Lost

(* What is held for a player by another server, or for other kits, stays. *)
LEMMA HeldStays ==
  ASSUME TypeInv, NEW sv \in Servers, NEW p \in Players, NEW k \in Kits,
         online'[p] = online[p], online[p] = sv => HeldBy(sv, p, k)' = HeldBy(sv, p, k),
         \A w \in Servers \ {sv} : pc'[w] = pc[w] /\ cmd'[w] = cmd[w]
  PROVE  Held(p, k)' = Held(p, k)
BY DEF Held, HeldBy

(* A step on one of whose sides the books are kept keeps them on the other: it
   loses nothing, or at most MaxAmount when it fails, of each kit of a player
   whose document could be read. *)
Balanced(p, k) ==
  /\ unread \subseteq unread' /\ faults' >= faults
  /\ Sound(p, k)' => Lost(p, k)' >= Lost(p, k)
  /\ p \notin unread' =>
       \/ Lost(p, k)' = Lost(p, k)
       \/ faults' = faults + 1 /\ Lost(p, k)' <= Lost(p, k) + MaxAmount

LEMMA BooksKept ==
  ASSUME TypeInv, TypeInv', Books, KitsConserved,
         \A p \in Players, k \in Kits : Balanced(p, k)
  PROVE  Books' /\ KitsConserved'
<1>1. MaxAmount \in Nat /\ faults \in Nat /\ faults' \in Nat
  BY Numbers DEF TypeInv, TypeOK
<1>2. ASSUME NEW p \in Players, NEW k \in Kits
      PROVE  Lost(p, k) \in Int /\ Lost(p, k)' \in Int
  BY LostFacts, NextLost
<1>3. Books'
  <2> SUFFICES ASSUME NEW p \in Players, NEW k \in Kits, Sound(p, k)'
               PROVE  Lost(p, k)' >= 0
    BY DEF Books
  <2>1. Balanced(p, k) /\ Lost(p, k)' >= Lost(p, k) /\ Sound(p, k)
    BY DEF Balanced, Sound
  <2>2. Lost(p, k) >= 0
    BY <2>1 DEF Books
  <2> QED
    BY <1>2, <2>1, <2>2
<1>4. KitsConserved'
  <2> SUFFICES ASSUME NEW p \in Players, p \notin unread', NEW k \in Kits
               PROVE  Lost(p, k)' >= 0 /\ Lost(p, k)' <= faults' * MaxAmount
    BY DEF KitsConserved
  <2>1. Balanced(p, k)
    OBVIOUS
  <2>2. p \notin unread /\ Sound(p, k)'
    BY <2>1 DEF Balanced, Sound
  <2>3. Lost(p, k)' >= 0
    BY <1>3, <2>2 DEF Books
  <2>4. Lost(p, k) <= faults * MaxAmount
    BY <2>2 DEF KitsConserved
  <2>5. \A a, b \in Nat : (a + 1) * b = a * b + b
    OBVIOUS
  <2>6. \A a, c, b \in Nat : a >= c => a * b >= c * b
    <3>1. TAKE a, c, b \in Nat
    <3>2. HAVE a >= c
    <3>3. PICK d \in Nat : a = c + d
      <4>1. a - c \in Nat /\ a = c + (a - c)
        BY <3>2
      <4> QED
        BY <4>1
    <3>4. a * b = c * b + d * b /\ d * b \in Nat /\ c * b \in Nat
      BY <3>3
    <3> QED
      BY <3>4
  <2>7. faults * MaxAmount \in Nat /\ faults' * MaxAmount \in Nat
    <3>1. \A a, b \in Nat : a * b \in Nat
      OBVIOUS
    <3> QED
      BY <1>1, <3>1
  <2>8. CASE Lost(p, k)' = Lost(p, k)
    <3>1. faults' * MaxAmount >= faults * MaxAmount
      BY <1>1, <2>1, <2>6 DEF Balanced
    <3> QED
      BY <1>2, <2>3, <2>4, <2>7, <2>8, <3>1
  <2>9. CASE faults' = faults + 1 /\ Lost(p, k)' <= Lost(p, k) + MaxAmount
    <3>1. faults' * MaxAmount = faults * MaxAmount + MaxAmount
      BY <1>1, <2>5, <2>9
    <3> QED
      BY <1>1, <1>2, <2>3, <2>4, <2>7, <2>9, <3>1
  <2> QED
    BY <2>1, <2>2, <2>8, <2>9 DEF Balanced
<1> QED
  BY <1>3, <1>4

(* The document of a command is not touched by a step of another player's. *)
LEMMA BackedElsewhere ==
  ASSUME TypeInv, Backed, NEW w \in Servers, pc[w] # "idle",
         pc'[w] = pc[w], cmd'[w] = cmd[w],
         kits'[cmd[w].player] = kits[cmd[w].player], unread \subseteq unread'
  PROVE  Current(w)'
BY DEF Backed, Current, Sound

(* The first parts of commands. *)
LEMMA BeginKeeps ==
  ASSUME IInv, TypeInv', NEW sv \in Servers, NEW p \in Players, NEW k \in Kits,
         \/ Redeem(sv, p, k) \/ \E n \in Amounts : Buy(sv, p, k, n) \/ Change(sv, p, k, n)
         \/ InitKitData(sv, p) /\ k = CHOOSE j \in Kits : TRUE
  PROVE  Backed' /\ \A q \in Players, j \in Kits : Balanced(q, j)
<1>1. PICK op \in {"Redeem", "Buy", "Change", "Show"}, n \in Amounts \cup {-1, 0} :
        /\ Begin(sv, op, p, k, n)
        /\ op = "Redeem" => Redeem(sv, p, k)
        /\ op = "Buy" => Buy(sv, p, k, n)
        /\ op = "Change" => Change(sv, p, k, n)
        /\ op = "Show" => InitKitData(sv, p)
  BY DEF Redeem, Buy, Change, InitKitData
<1>2. /\ cmd'[sv].op = op /\ cmd'[sv].player = p /\ cmd'[sv].kit = k /\ cmd'[sv].n = n
      /\ pc[sv] = "idle" /\ pc'[sv] = "load"
      /\ \A w \in Servers \ {sv} : pc'[w] = pc[w] /\ cmd'[w] = cmd[w]
      /\ kits' = kits /\ online' = online
  BY <1>1 DEF Begin, GoTo, IInv, TypeInv, TypeOK
<1>3. faults' >= faults /\ unread \subseteq unread' /\ n \in Int
  <2>1. faults \in Nat
    BY Numbers DEF IInv, TypeInv, TypeOK
  <2>2. op = "Redeem" => faults' >= faults /\ unread \subseteq unread'
    BY <1>1, ReadType DEF Redeem, IInv, TypeInv
  <2>3. op # "Redeem" => faults' = faults /\ unread' = unread
    BY <1>1 DEF Buy, Change, InitKitData
  <2> QED
    BY <2>1, <2>2, <2>3, Numbers
<1>4. ASSUME op = "Redeem", Sound(p, k)'
      PROVE  Amount(kits[p], k) > 0
  <2>1. PICK doc \in {kits[p], Empty} : Read(p, doc) /\ Amount(doc, k) > 0
    BY <1>1, <1>4 DEF Redeem
  <2>2. doc = kits[p] \/ (doc = Empty /\ p \in unread')
    BY <2>1, ReadType DEF IInv, TypeInv
  <2>3. doc = Empty /\ p \in unread' => FALSE
    BY <1>4, <2>1, Numbers DEF Sound
  <2> QED
    BY <2>1, <2>2, <2>3
<1>5. Backed'
  <2>1. Current(sv)'
    BY <1>2, <1>4 DEF Current, Sound
  <2>2. \A w \in Servers \ {sv} : pc[w] # "idle" => Current(w)'
    BY <1>2, <1>3, BackedElsewhere DEF IInv
  <2> QED
    BY <1>2, <2>1, <2>2 DEF Backed
<1>6. ASSUME NEW q \in Players, NEW j \in Kits
      PROVE  Lost(q, j)' = Lost(q, j)
  <2>1. due'[q][j] = IF op = "Buy" /\ q = p /\ j = k THEN due[q][j] + n ELSE due[q][j]
    <3>1. due \in Dues
      BY DEF IInv, TypeInv, TypeOK, Dues
    <3>2. CASE op = "Buy"
      BY <1>1, <1>3, <3>1, <3>2, OweFacts DEF Buy
    <3>3. CASE op # "Buy"
      BY <1>1, <3>3 DEF Redeem, Change, InitKitData
    <3> QED
      BY <3>2, <3>3
  <2>2. Held(q, j)' = IF op = "Buy" /\ q = p /\ j = k THEN Held(q, j) + n ELSE Held(q, j)
    <3>1. CASE online[q] = sv
      <4>1. Held(q, j) = 0
        BY <1>2, <3>1 DEF Held, HeldBy
      <4>2. Held(q, j)' = HeldBy(sv, q, j)'
        BY <1>2, <3>1 DEF Held
      <4>3. HeldBy(sv, q, j)' = IF op = "Buy" /\ q = p /\ j = k THEN n ELSE 0
        BY <1>2, <3>1 DEF HeldBy
      <4> QED
        BY <1>3, <4>1, <4>2, <4>3
    <3>2. CASE online[q] # sv
      <4>1. ~(op = "Buy" /\ q = p)
        BY <1>1, <3>2 DEF Buy
      <4>2. Held(q, j)' = Held(q, j)
        BY <1>2, <3>2, HeldStays DEF IInv
      <4> QED
        BY <4>1, <4>2
    <3> QED
      BY <3>1, <3>2
  <2>3. /\ due[q][j] \in Int /\ Amount(kits[q], j) \in Int /\ Held(q, j) \in Int
        /\ Lost(q, j) = due[q][j] - Amount(kits[q], j) - Held(q, j)
        /\ Lost(q, j)' = due'[q][j] - Amount(kits[q], j) - Held(q, j)'
    BY <1>2, LostFacts, HeldFacts, NextLost DEF IInv
  <2> QED
    BY <1>3, <2>1, <2>2, <2>3
<1>7. \A q \in Players, j \in Kits : Lost(q, j) \in Int
  BY LostFacts DEF IInv
<1> QED
  BY <1>3, <1>5, <1>6, <1>7 DEF Balanced

(* ChangeKitAmount reads the document. *)
LEMMA LoadKeeps ==
  ASSUME IInv, TypeInv', NEW sv \in Servers, Load(sv)
  PROVE  Backed' /\ \A q \in Players, j \in Kits : Balanced(q, j)
<1> DEFINE c == cmd[sv]
<1>1. c \in Cmd /\ pc[sv] = "load" /\ Current(sv)
  BY DEF Load, IInv, TypeInv, TypeOK, Backed
<1>2. c.player \in Players /\ c.kit \in Kits
  BY <1>1 DEF Cmd
<1>3. PICK doc \in {kits[c.player], Empty} :
        Read(c.player, doc) /\ cmd' = [cmd EXCEPT ![sv].doc = doc]
  BY DEF Load
<1>4. /\ faults' >= faults /\ unread \subseteq unread'
      /\ doc = kits[c.player] \/ (doc = Empty /\ c.player \in unread')
  BY <1>2, <1>3, ReadType DEF IInv, TypeInv
<1>5. /\ pc'[sv] = "save" /\ kits' = kits /\ online' = online /\ due' = due
      /\ \A w \in Servers \ {sv} : pc'[w] = pc[w] /\ cmd'[w] = cmd[w]
      /\ cmd'[sv] = [c EXCEPT !.doc = doc]
  BY <1>3 DEF Load, GoTo, IInv, TypeInv, TypeOK
<1>6. /\ cmd'[sv].op = c.op /\ cmd'[sv].player = c.player /\ cmd'[sv].kit = c.kit
      /\ cmd'[sv].n = c.n /\ cmd'[sv].doc = doc
  BY <1>1, <1>5 DEF Cmd
<1>7. Backed'
  <2>1. Current(sv)'
    BY <1>1, <1>4, <1>5, <1>6 DEF Current, Sound
  <2>2. \A w \in Servers \ {sv} : pc[w] # "idle" => Current(w)'
    BY <1>4, <1>5, BackedElsewhere DEF IInv
  <2> QED
    BY <1>5, <2>1, <2>2 DEF Backed
<1>8. ASSUME NEW q \in Players, NEW j \in Kits
      PROVE  Lost(q, j)' = Lost(q, j)
  <2>1. HeldBy(sv, q, j)' = HeldBy(sv, q, j)
    BY <1>1, <1>5, <1>6 DEF HeldBy
  <2>2. Held(q, j)' = Held(q, j)
    BY <1>5, <2>1, HeldStays DEF IInv
  <2> QED
    BY <1>5, <2>2, LostFacts, NextLost DEF IInv
<1> QED
  BY <1>4, <1>7, <1>8, LostFacts DEF Balanced, IInv

(* ... and writes it back. *)
LEMMA SaveKeeps ==
  ASSUME IInv, TypeInv', Guarded, NEW sv \in Servers, Save(sv)
  PROVE  Backed' /\ \A q \in Players, j \in Kits : Balanced(q, j)
<1> DEFINE c == cmd[sv]
           p == c.player
<1>1. c \in Cmd /\ pc[sv] = "save" /\ Current(sv) /\ Fits(sv)
  BY DEF Save, IInv, TypeInv, TypeOK, Phase, Backed
<1>2. p \in Players /\ c.kit \in Kits /\ c.doc \in Docs /\ c.n \in Int /\ c.n <= MaxAmount
  BY <1>1, Numbers DEF Cmd
<1>3. /\ online' = online /\ unread' = unread
      /\ \A w \in Servers \ {sv} : pc'[w] = pc[w] /\ cmd'[w] = cmd[w]
      /\ pc'[sv] = "idle" \/ (pc'[sv] = "give" /\ cmd' = cmd /\ c.op = "Redeem")
  BY <1>1 DEF Save, Finish, GoTo, IInv, TypeInv, TypeOK
<1>4. \/ Write(c) /\ faults' = faults /\ pc'[sv] = (IF c.op = "Redeem" THEN "give" ELSE "idle")
      \/ Write(c) /\ faults' = faults + 1 /\ pc'[sv] = "idle"
      \/ kits' = kits /\ due' = due /\ faults' = faults + 1 /\ pc'[sv] = "idle"
  BY <1>1 DEF Save, Finish, GoTo, Fails, IInv, TypeInv, TypeOK
<1>5. faults \in Nat /\ MaxAmount \in Nat /\ MaxAmount >= 1
  BY Numbers DEF IInv, TypeInv, TypeOK
<1>6. /\ Write(c) => /\ \A q \in Players : q # p => kits'[q] = kits[q]
                     /\ kits'[p][c.kit] = NewAmount(c)
                     /\ \A k \in Kits : k # c.kit => Amount(kits'[p], k) = Amount(c.doc, k)
                     /\ \A q \in Players, k \in Kits :
                          due'[q][k] = IF c.op = "Change" /\ q = p /\ k = c.kit
                           THEN due[q][k] + (NewAmount(c) - Amount(c.doc, c.kit)) ELSE due[q][k]
  BY <1>1, WriteFacts DEF IInv, TypeInv, Fits
<1>7. Backed'
  <2>1. pc'[sv] # "idle" => Current(sv)'
    BY <1>3 DEF Current
  <2>2. ASSUME NEW w \in Servers \ {sv}, pc[w] # "idle"
        PROVE  Current(w)'
    <3>1. cmd[w].player # p
      BY <1>1, <2>2, Alone DEF IInv
    <3>2. cmd[w].player \in Players
      BY <2>2 DEF IInv, TypeInv, TypeOK, Cmd
    <3>3. kits'[cmd[w].player] = kits[cmd[w].player]
      BY <1>4, <1>6, <3>1, <3>2
    <3> QED
      BY <1>3, <2>2, <3>3, BackedElsewhere DEF IInv
  <2> QED
    BY <1>3, <2>1, <2>2 DEF Backed
<1>8. ASSUME NEW q \in Players, NEW j \in Kits, q # p
      PROVE  Lost(q, j)' = Lost(q, j)
  <2>1. HeldBy(sv, q, j)' = HeldBy(sv, q, j)
    BY <1>1, <1>3, <1>8 DEF HeldBy
  <2>2. Held(q, j)' = Held(q, j)
    BY <1>3, <2>1, HeldStays DEF IInv
  <2>3. kits'[q] = kits[q] /\ due'[q][j] = due[q][j]
    BY <1>4, <1>6, <1>8
  <2> QED
    BY <2>2, <2>3, LostFacts, NextLost DEF IInv
<1>9. ASSUME NEW q \in Players, NEW j \in Kits, q = p, j # c.kit
      PROVE  /\ Sound(q, j) => Lost(q, j)' >= Lost(q, j)
             /\ q \notin unread => Lost(q, j)' = Lost(q, j)
  <2>1. HeldBy(sv, q, j)' = HeldBy(sv, q, j)
    BY <1>1, <1>3, <1>9 DEF HeldBy
  <2>2. Held(q, j)' = Held(q, j)
    BY <1>9, <1>2, <1>3, <2>1, HeldStays DEF IInv
  <2>3. due'[q][j] = due[q][j]
    BY <1>2, <1>4, <1>6, <1>9
  <2>4. Amount(kits'[q], j) = Amount(kits[q], j) \/ Amount(kits'[q], j) = Amount(c.doc, j)
    BY <1>2, <1>4, <1>6, <1>9
  <2>5. c.doc = kits[q] \/ (c.doc = Empty /\ q \in unread)
    BY <1>9, <1>1 DEF Current
  <2>6. Amount(Empty, j) = DefaultAmount[j] /\ Amount(kits[q], j) \in Nat
    BY <1>9, <1>2, Numbers, LostFacts DEF IInv
  <2>7. /\ Sound(q, j) => Amount(kits'[q], j) <= Amount(kits[q], j)
        /\ q \notin unread => Amount(kits'[q], j) = Amount(kits[q], j)
    BY <1>9, <2>4, <2>5, <2>6 DEF Sound
  <2>8. /\ due[q][j] \in Int /\ Amount(kits[q], j) \in Int /\ Amount(kits'[q], j) \in Int
        /\ Held(q, j) \in Int
        /\ Lost(q, j) = due[q][j] - Amount(kits[q], j) - Held(q, j)
        /\ Lost(q, j)' = due'[q][j] - Amount(kits'[q], j) - Held(q, j)'
    BY <1>9, <1>2, LostFacts, HeldFacts, NextLost DEF IInv
  <2> QED
    BY <1>9, <2>2, <2>3, <2>7, <2>8
<1>10. ASSUME NEW q \in Players, NEW k \in Kits, q = p, k = c.kit
       PROVE  /\ Sound(q, k) => Lost(q, k)' >= Lost(q, k)
              /\ q \notin unread =>
                   \/ Lost(q, k)' = Lost(q, k)
                   \/ faults' = faults + 1 /\ Lost(q, k)' <= Lost(q, k) + MaxAmount
  <2> DEFINE a == Amount(kits[q], k)
             b == Amount(c.doc, k)
             m == NewAmount(c)
  <2>1. /\ due[q][k] \in Int /\ a \in Nat /\ Amount(kits'[q], k) \in Int /\ Held(q, k) \in Int
        /\ Lost(q, k) \in Int
        /\ Lost(q, k) = due[q][k] - a - Held(q, k)
        /\ Lost(q, k)' = due'[q][k] - Amount(kits'[q], k) - Held(q, k)'
    BY <1>10, <1>2, LostFacts, HeldFacts, NextLost DEF IInv
  <2>2. b \in Nat /\ m \in Nat /\ (m = IF b + c.n >= 0 THEN b + c.n ELSE 0)
    BY <1>10, <1>1, <1>2, Numbers, NewAmountFacts
  <2>3. /\ q \notin unread => b = a
        /\ Sound(q, k) => b = a \/ b = 0
    <3>1. c.doc = kits[q] \/ (c.doc = Empty /\ q \in unread)
      BY <1>10, <1>1 DEF Current
    <3>2. Amount(Empty, k) = DefaultAmount[k]
      BY <1>10, <1>2, Numbers
    <3> QED
      BY <1>10, <3>1, <3>2 DEF Sound
  <2>4. c.op = "Redeem" /\ Sound(q, k) => a > 0
    BY <1>10, <1>1 DEF Current
  <2>5. /\ Held(q, k) = IF c.op = "Buy" THEN c.n ELSE 0
        /\ Held(q, k)' = IF pc'[sv] = "give" THEN 1 ELSE 0
    <3>1. CASE online[q] = sv
      <4>1. Held(q, k) = HeldBy(sv, q, k) /\ Held(q, k)' = HeldBy(sv, q, k)'
        BY <1>10, <1>3, <3>1 DEF Held
      <4> QED
        BY <1>10, <1>1, <1>3, <3>1, <4>1 DEF HeldBy, Fits
    <3>2. CASE online[q] # sv
      <4>1. c.op = "Change"
        BY <1>10, <1>1, <3>2 DEF Fits, OwnOps
      <4>2. Held(q, k)' = Held(q, k)
        BY <1>10, <1>2, <1>3, <3>2, HeldStays DEF IInv
      <4>3. Held(q, k) = 0
        <5>1. CASE online[q] \in Servers /\ pc[online[q]] # "idle"
          <6>1. cmd[online[q]].player # p
            BY <1>10, <1>1, <3>2, <5>1, Alone DEF IInv
          <6> QED
            BY <1>10, <5>1, <6>1 DEF Held, HeldBy
        <5>2. CASE ~(online[q] \in Servers /\ pc[online[q]] # "idle")
          BY <1>10, <5>2 DEF Held, HeldBy
        <5> QED
          BY <1>10, <5>1, <5>2
      <4> QED
        BY <1>10, <1>3, <4>1, <4>2, <4>3
    <3> QED
      BY <1>10, <3>1, <3>2
  <2>6. CASE Write(c)
    <3>1. Amount(kits'[q], k) = m
      <4>1. kits'[q][k] = m
        BY <1>10, <1>2, <1>6, <2>6
      <4>2. m # NoEntry
        BY <1>10, <2>2, Numbers
      <4> QED
        BY <1>10, <4>1, <4>2 DEF Amount
    <3>2. due'[q][k] = IF c.op = "Change" THEN due[q][k] + (m - b) ELSE due[q][k]
      BY <1>10, <1>2, <1>6, <2>6
    <3>3. CASE c.op = "Redeem"
      <4>1. c.n = -1 /\ Held(q, k) = 0
        BY <1>10, <1>1, <2>5, <3>3 DEF Fits
      <4>2. \/ faults' = faults /\ pc'[sv] = "give"
            \/ faults' = faults + 1 /\ pc'[sv] = "idle"
        BY <1>10, <1>4, <2>6, <3>3
      <4>3. due'[q][k] = due[q][k]
        BY <1>10, <3>2, <3>3
      <4>4. Held(q, k)' = IF pc'[sv] = "give" THEN 1 ELSE 0
        BY <2>5
      <4>5. q \notin unread => Sound(q, k)
        BY DEF Sound
      <4>6. /\ Lost(q, k) = due[q][k] - a
            /\ Lost(q, k)' = due[q][k] - m - Held(q, k)'
        BY <2>1, <3>1, <4>1, <4>3
      <4>7. m = IF b > 0 THEN b - 1 ELSE 0
        BY <2>2, <4>1
      <4>8. Sound(q, k) => a > 0 /\ (b = a \/ b = 0)
        BY <2>3, <2>4, <3>3
      <4>9. due[q][k] \in Int /\ a \in Nat /\ b \in Nat /\ m \in Nat
        BY <2>1, <2>2
      <4> HIDE DEF a, b, m
      <4> QED
        BY <1>5, <2>3, <4>2, <4>4, <4>5, <4>6, <4>7, <4>8, <4>9
    <3>4. CASE c.op = "Buy"
      <4>1. c.n > 0 /\ Held(q, k) = c.n /\ Held(q, k)' = 0
        BY <1>10, <1>1, <1>3, <2>5, <3>4 DEF Fits
      <4>2. due'[q][k] = due[q][k]
        BY <1>10, <3>2, <3>4
      <4> QED
        BY <1>10, <1>2, <1>5, <2>1, <2>2, <2>3, <3>1, <4>1, <4>2
    <3>5. CASE c.op = "Change"
      <4>1. Held(q, k) = 0 /\ Held(q, k)' = 0
        BY <1>10, <1>3, <2>5, <3>5
      <4>2. due'[q][k] = due[q][k] + (m - b)
        BY <1>10, <3>2, <3>5
      <4> QED
        BY <1>10, <1>5, <2>1, <2>2, <2>3, <3>1, <4>1, <4>2
    <3>6. CASE c.op = "Show"
      <4>1. c.n = 0 /\ Held(q, k) = 0 /\ Held(q, k)' = 0
        BY <1>10, <1>1, <1>3, <2>5, <3>6 DEF Fits
      <4>2. due'[q][k] = due[q][k]
        BY <1>10, <3>2, <3>6
      <4> QED
        BY <1>10, <1>5, <2>1, <2>2, <2>3, <3>1, <4>1, <4>2
    <3> QED
      BY <1>10, <1>1, <3>3, <3>4, <3>5, <3>6 DEF Fits
  <2>7. CASE kits' = kits /\ due' = due /\ faults' = faults + 1 /\ pc'[sv] = "idle"
    <3>1. Held(q, k)' = 0
      BY <1>10, <2>5, <2>7
    <3>2. c.op = "Buy" => c.n > 0
      BY <1>10, <1>1 DEF Fits
    <3> QED
      BY <1>10, <1>2, <1>5, <2>1, <2>5, <2>7, <3>1, <3>2
  <2> QED
    BY <1>10, <1>4, <2>6, <2>7
<1>11. faults' >= faults
  BY <1>4, <1>5
<1> QED
  <2>1. ASSUME NEW q \in Players, NEW j \in Kits
        PROVE  Balanced(q, j)
    <3>1. Lost(q, j) \in Int
      BY LostFacts DEF IInv
    <3>2. CASE q # p
      BY <1>3, <1>8, <1>11, <3>1, <3>2 DEF Balanced
    <3>3. CASE q = p /\ j # c.kit
      BY <1>3, <1>9, <1>11, <3>3 DEF Balanced, Sound
    <3>4. CASE q = p /\ j = c.kit
      BY <1>3, <1>10, <1>11, <3>4 DEF Balanced, Sound
    <3> QED
      BY <3>2, <3>3, <3>4
  <2> QED
    BY <1>7, <2>1

(* The kit is given, or the server dies with the command it was in. *)
LEMMA EndKeeps ==
  ASSUME IInv, TypeInv', NEW sv \in Servers, Give(sv) \/ Crash(sv)
  PROVE  Backed' /\ \A q \in Players, j \in Kits : Balanced(q, j)
<1>1. /\ pc'[sv] = "idle" /\ kits' = kits /\ unread' = unread
      /\ \A w \in Servers \ {sv} : pc'[w] = pc[w] /\ cmd'[w] = cmd[w]
  BY DEF Give, Crash, Finish, GoTo, IInv, TypeInv, TypeOK
<1>2. faults \in Nat /\ MaxAmount \in Nat /\ online \in [Players -> Servers \cup {NoEntry}]
  BY Numbers DEF IInv, TypeInv, TypeOK
<1>3. Backed'
  <2>1. \A w \in Servers \ {sv} : pc[w] # "idle" => Current(w)'
    BY <1>1, BackedElsewhere DEF IInv
  <2> QED
    BY <1>1, <2>1 DEF Backed
<1>4. ASSUME NEW q \in Players, NEW j \in Kits
      PROVE  Balanced(q, j)
  <2>1. /\ due[q][j] \in Int /\ Amount(kits[q], j) \in Int
        /\ Held(q, j) \in Nat /\ Held(q, j) <= MaxAmount
        /\ Lost(q, j) = due[q][j] - Amount(kits[q], j) - Held(q, j)
        /\ Lost(q, j)' = due'[q][j] - Amount(kits[q], j) - Held(q, j)'
    BY <1>1, LostFacts, HeldFacts, NextLost DEF IInv
  <2>2. CASE Give(sv)
    <3>1. /\ pc[sv] = "give" /\ cmd[sv] \in Cmd /\ Fits(sv) /\ online' = online /\ faults' = faults
          /\ due' = Owe(cmd[sv].player, cmd[sv].kit, -1)
      BY <2>2 DEF Give, IInv, TypeInv, TypeOK, Phase
    <3>2. cmd[sv].player \in Players /\ cmd[sv].kit \in Kits /\ online[cmd[sv].player] = sv
      BY <3>1 DEF Cmd, Fits, OwnOps
    <3>3. due'[q][j] = IF q = cmd[sv].player /\ j = cmd[sv].kit THEN due[q][j] + (-1) ELSE due[q][j]
      <4>1. due \in Dues /\ -1 \in Int
        BY DEF Dues, IInv, TypeInv, TypeOK
      <4> QED
        BY <3>1, <3>2, <4>1, OweFacts
    <3>4. CASE q = cmd[sv].player /\ j = cmd[sv].kit
      <4>1. Held(q, j) = 1 /\ Held(q, j)' = 0
        BY <1>1, <3>1, <3>2, <3>4 DEF Held, HeldBy, Fits
      <4> QED
        BY <1>1, <1>2, <2>1, <3>1, <3>3, <3>4, <4>1 DEF Balanced
    <3>5. CASE ~(q = cmd[sv].player /\ j = cmd[sv].kit)
      <4>1. HeldBy(sv, q, j)' = HeldBy(sv, q, j)
        BY <1>1, <3>5 DEF HeldBy
      <4>2. Held(q, j)' = Held(q, j)
        BY <1>1, <3>1, <4>1, HeldStays DEF IInv
      <4> QED
        BY <1>1, <1>2, <2>1, <3>1, <3>3, <3>5, <4>2 DEF Balanced
    <3> QED
      BY <3>4, <3>5
  <2>3. CASE Crash(sv)
    <3>1. /\ due' = due /\ faults' = faults + 1
          /\ online'[q] = IF online[q] = sv THEN NoEntry ELSE online[q]
      BY <2>3 DEF Crash, Fails
    <3>2. Held(q, j)' = Held(q, j) \/ Held(q, j)' = 0
      <4>1. CASE online[q] = sv
        BY <3>1, <4>1, Numbers DEF Held
      <4>2. CASE online[q] # sv
        BY <1>1, <3>1, <4>2, HeldStays DEF IInv
      <4> QED
        BY <4>1, <4>2
    <3> QED
      BY <1>1, <1>2, <2>1, <3>1, <3>2 DEF Balanced
  <2> QED
    BY <2>2, <2>3
<1> QED
  BY <1>3, <1>4

(* Players come and go. *)
LEMMA LoginKeeps ==
  ASSUME IInv, TypeInv', NEW sv \in Servers, NEW p \in Players, Login(sv, p) \/ Logout(sv, p)
  PROVE  Backed' /\ \A q \in Players, j \in Kits : Balanced(q, j)
<1>1. /\ pc[sv] = "idle" /\ UNCHANGED <<kits, pc, cmd, faults, unread, due>>
      /\ faults \in Nat
      /\ \A q \in Players : q # p => online'[q] = online[q]
      /\ {online[p], online'[p]} \subseteq {sv, NoEntry}
  BY Numbers DEF Login, Logout, IInv, TypeInv, TypeOK
<1>2. Backed'
  BY <1>1 DEF Backed, Current, Sound, IInv
<1>3. ASSUME NEW q \in Players, NEW j \in Kits
      PROVE  Balanced(q, j)
  <2>1. Held(q, j)' = Held(q, j)
    <3>1. CASE q = p
      <4>1. Held(q, j) = 0 \/ Held(q, j) = HeldBy(sv, q, j)
        BY <1>1, <3>1, Numbers DEF Held
      <4>2. Held(q, j)' = 0 \/ Held(q, j)' = HeldBy(sv, q, j)'
        BY <1>1, <3>1, Numbers DEF Held
      <4>3. HeldBy(sv, q, j) = 0 /\ HeldBy(sv, q, j)' = 0
        BY <1>1 DEF HeldBy
      <4> QED
        BY <4>1, <4>2, <4>3
    <3>2. CASE q # p
      <4>1. HeldBy(sv, q, j)' = HeldBy(sv, q, j)
        BY <1>1 DEF HeldBy
      <4> QED
        BY <1>1, <3>2, <4>1, HeldStays DEF IInv
    <3> QED
      BY <3>1, <3>2
  <2> QED
    BY <1>1, <2>1, LostFacts, NextLost DEF Balanced, IInv
<1> QED
  BY <1>2, <1>3

(* Every step preserves the invariant. *)
LEMMA NextInv == Guarded /\ IInv /\ [Next]_vars => IInv'
<1> SUFFICES ASSUME Guarded, IInv, [Next]_vars PROVE IInv'
  OBVIOUS
<1>1. TypeInv'
  BY NextType DEF IInv
<1>2. ASSUME Backed', \A q \in Players, j \in Kits : Balanced(q, j)
      PROVE  IInv'
  BY <1>1, <1>2, BooksKept DEF IInv
<1>3. ASSUME NEW sv \in Servers, Ask(sv) \/ Load(sv) \/ Save(sv) \/ Give(sv) \/ Crash(sv)
      PROVE  IInv'
  <2>1. ASSUME NEW p \in Players, InitKitData(sv, p)
        PROVE  IInv'
    <3>1. (CHOOSE k \in Kits : TRUE) \in Kits
      BY <2>1 DEF InitKitData
    <3> QED
      BY <1>1, <1>2, <2>1, <3>1, BeginKeeps
  <2> QED
    BY <1>1, <1>2, <1>3, <2>1, BeginKeeps, LoadKeeps, SaveKeeps, EndKeeps, LoginKeeps DEF Ask
<1>4. ASSUME NEW sv \in Servers, Reset(sv)
      PROVE  IInv'
  <2>1. \A w \in Servers : pc'[w] = "idle"
    BY <1>4 DEF Reset, Guarded, OwnOps, IInv, TypeInv, TypeOK
  <2>2. Backed'
    BY <2>1 DEF Backed
  <2>3. ASSUME NEW q \in Players, NEW j \in Kits
        PROVE  Lost(q, j)' = 0
    <3>1. Held(q, j)' = 0
      BY <2>1 DEF Held, HeldBy
    <3>2. kits'[q] = Empty /\ due'[q][j] = DefaultAmount[j]
      BY <1>4 DEF Reset
    <3>3. Amount(kits'[q], j) = DefaultAmount[j] /\ DefaultAmount[j] \in Int
      BY <3>2, Numbers
    <3> QED
      BY <1>1, <3>1, <3>2, <3>3, NextLost
  <2>4. 0 <= faults' * MaxAmount
    <3>1. faults' \in Nat /\ MaxAmount \in Nat
      BY <1>1, Numbers DEF TypeInv, TypeOK
    <3>2. \A a, b \in Nat : 0 <= a * b
      OBVIOUS
    <3> QED
      BY <3>1, <3>2
  <2> QED
    BY <1>1, <2>2, <2>3, <2>4 DEF IInv, Books, KitsConserved
<1>5. CASE UNCHANGED vars
  BY <1>5 DEF vars, IInv, TypeInv, TypeOK, Phase, Fits, Backed, Current, Books, KitsConserved,
              Sound, Lost, Held, HeldBy
<1> QED
  BY <1>3, <1>4, <1>5 DEF Next

(* It holds at the beginning. *)
LEMMA InitInv == Init => IInv
<1> SUFFICES ASSUME Init PROVE IInv
  OBVIOUS
<1>1. ASSUME NEW p \in Players, NEW k \in Kits
      PROVE  Lost(p, k) = 0
  <2>1. Amount(kits[p], k) = DefaultAmount[k] /\ due[p][k] = DefaultAmount[k]
    BY Numbers DEF Init
  <2>2. Held(p, k) = 0
    BY DEF Init, Held, HeldBy
  <2> QED
    BY <2>1, <2>2, Numbers DEF Lost
<1>2. 0 <= faults * MaxAmount
  BY Numbers DEF Init
<1>3. Backed
  BY DEF Init, Backed
<1> QED
  BY <1>1, <1>2, <1>3, InitType DEF IInv, Books, KitsConserved

(* The invariant leaves no player with a kit too many. *)
LEMMA InvNoFreeKits == IInv => NoFreeKits
<1> SUFFICES ASSUME IInv, NEW p \in Players, NEW k \in Kits, Sound(p, k)
             PROVE  due[p][k] >= 0
  BY DEF NoFreeKits, Sound
<1>1. Lost(p, k) >= 0
  BY DEF IInv, Books
<1> QED
  BY <1>1, LostFacts, HeldFacts DEF IInv
-----------------------------------------------------------------------------
(* Commands, documents and the record of failures stay well-formed, and a
   player that redeems or buys a kit stays on the server that serves it, with
   every operation and every kind of failure. *)
THEOREM TypeCorrect == Spec => []TypeOK
<1>1. TypeInv => TypeOK
  BY DEF TypeInv
<1> QED
  BY <1>1, InitType, NextType, PTL DEF Spec

(* ChangeKitAmount neither creates nor loses kits: with players alone on any
   number of servers, or operators too on one, each failure costs a player at
   most the kits of one command. *)
THEOREM Conservation ==
  ASSUME Guarded
  PROVE  Spec => []KitsConserved
<1>1. IInv /\ [Next]_vars => IInv'
  BY NextInv
<1>2. IInv => KitsConserved
  BY DEF IInv
<1> QED
  BY <1>1, <1>2, InitInv, PTL DEF Spec

(* Nor is a player given more kits than it was granted and paid for, even if
   its document cannot be read, where the kit has no default amount. *)
THEOREM NothingForFree ==
  ASSUME Guarded
  PROVE  Spec => []NoFreeKits
<1>1. IInv /\ [Next]_vars => IInv'
  BY NextInv
<1> QED
  BY <1>1, InitInv, InvNoFreeKits, PTL DEF Spec
=============================================================================
