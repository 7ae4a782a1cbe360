---------------------------- MODULE ReservedFunds ----------------------------
(* What a wallet promises to those who set money of it aside: an amount is  *)
(* reserved out of what is free, and then spent once or given back once.    *)
EXTENDS Integers

CONSTANTS
  Users,    \* owners of wallets
  Claims,   \* amounts that may be set aside
  OwnerOf,  \* [Claims -> Users]
  AmountOf, \* [Claims -> Nat]
  Opening   \* [Users -> Nat]

VARIABLES
  stage, \* of each claim: "none", "reserved", "spent" or "returned"
  free   \* what of each user's money nobody has a claim on

Init ==
  /\ stage = [c \in Claims |-> "none"]
  /\ free = Opening

Reserve(c) ==
  /\ stage[c] = "none"
  /\ AmountOf[c] <= free[OwnerOf[c]]
  /\ stage' = [stage EXCEPT ![c] = "reserved"]
  /\ free' = [free EXCEPT ![OwnerOf[c]] = @ - AmountOf[c]]

Spend(c) ==
  /\ stage[c] = "reserved"
  /\ stage' = [stage EXCEPT ![c] = "spent"]
  /\ UNCHANGED free

GiveBack(c) ==
  /\ stage[c] = "reserved"
  /\ stage' = [stage EXCEPT ![c] = "returned"]
  /\ free' = [free EXCEPT ![OwnerOf[c]] = @ + AmountOf[c]]

Next == \E c \in Claims : Reserve(c) \/ Spend(c) \/ GiveBack(c)

Spec == Init /\ [][Next]_<<stage, free>>
=============================================================================
