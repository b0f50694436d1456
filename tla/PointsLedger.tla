---------------------------- MODULE PointsLedger ----------------------------
(***************************************************************************)
(* What ArkShop promises about points: every server serves one request at  *)
(* a time, and a request moves its points once, all of them and between    *)
(* the accounts it names, or not at all.  Only a step that fails may cost  *)
(* the payer of a request its points for nothing, and nobody else.         *)
(***************************************************************************)
EXTENDS Integers

CONSTANTS Servers, Players, Amounts, NoEntry

VARIABLES
  balance,    \* the points of each player, NoEntry for a player without an account
  request,    \* the request each server is serving
  failures    \* how many steps have failed

Request ==
  [kind : {"pay", "earn"}, player : Players, amount : Amounts]
    \cup [kind : {"transfer"}, player : Players, to : Players, amount : Amounts]
    \cup [kind : {"reward"}, player : Players, amount : Amounts, from : Players, fine : Amounts]

NoRequest == [kind |-> "none"]

Init ==
  /\ balance = [p \in Players |-> NoEntry]
  /\ request = [sv \in Servers |-> NoRequest]
  /\ failures = 0

Plus(p, n) == [balance EXCEPT ![p] = IF @ = NoEntry THEN NoEntry ELSE @ + n]

Affords(p, n) == balance[p] # NoEntry /\ balance[p] >= n

Finish(sv) == request' = [request EXCEPT ![sv] = NoRequest]

Open(p) ==
  /\ balance[p] = NoEntry
  /\ balance' = [balance EXCEPT ![p] = 0]
  /\ UNCHANGED request

Receive(sv) ==
  /\ request[sv] = NoRequest
  /\ \E r \in Request : request' = [request EXCEPT ![sv] = r]
  /\ UNCHANGED balance

Refuse(sv) ==
  /\ Finish(sv)
  /\ UNCHANGED balance

Pay(sv) ==
  LET r == request[sv] IN
  /\ r.kind = "pay" /\ Affords(r.player, r.amount)
  /\ balance' = [balance EXCEPT ![r.player] = @ - r.amount]
  /\ Finish(sv)

Earn(sv) ==
  LET r == request[sv] IN
  /\ r.kind = "earn"
  /\ balance' = Plus(r.player, r.amount)
  /\ Finish(sv)

Transfer(sv) ==
  LET r == request[sv] IN
  /\ r.kind = "transfer" /\ Affords(r.player, r.amount)
  /\ r.to # r.player /\ balance[r.to] # NoEntry
  /\ balance' = [balance EXCEPT ![r.player] = @ - r.amount, ![r.to] = @ + r.amount]
  /\ Finish(sv)

(* The reward for a kill; what the victim then pays is a request of its own,
   and is forgotten if a step fails. *)
Reward(sv) ==
  LET r == request[sv] IN
  /\ r.kind = "reward"
  /\ balance' = Plus(r.player, r.amount)
  /\ \/ request' = [request EXCEPT ![sv] =
                      [kind |-> "pay", player |-> r.from, amount |-> r.fine]]
     \/ failures' = failures + 1 /\ Finish(sv)

Forfeit(sv) ==
  LET r == request[sv] IN
  /\ failures' = failures + 1
  /\ r.kind \in {"pay", "transfer"} /\ Affords(r.player, r.amount)
  /\ balance' = [balance EXCEPT ![r.player] = @ - r.amount]
  /\ Finish(sv)

Next ==
  /\ failures' \in {failures, failures + 1}
  /\ \/ UNCHANGED <<balance, request>>
     \/ \E p \in Players : Open(p)
     \/ \E sv \in Servers :
          \/ Receive(sv) \/ Refuse(sv) \/ Pay(sv) \/ Earn(sv) \/ Transfer(sv)
          \/ Reward(sv) \/ Forfeit(sv)

Spec == Init /\ [][Next]_<<balance, request, failures>>
=============================================================================
