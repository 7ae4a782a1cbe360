------------------------------ MODULE MCOrders ------------------------------
(* One order, two drivers.  d1 has an account that a fee takes past the    *)
(* limit.  d2 has none until he pays in or is paid out; what he pays in     *)
(* covers either of his payouts and not both.                               *)
EXTENDS Orders

CONSTANTS o1, d1, d2, payoutA, payoutB, paidIn, fee

PartyOfKey == [k \in Keys |-> IF k = fee THEN d1 ELSE d2]
Amounts ==
  [k \in Keys |-> CASE k = payoutB -> 1 [] k = fee -> -2 [] OTHER -> 2]
Opening == [x \in Parties |-> IF x = d1 THEN 0 ELSE NoAccount]
=============================================================================
