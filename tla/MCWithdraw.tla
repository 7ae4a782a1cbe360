----------------------------- MODULE MCWithdraw -----------------------------
(* One driver with two requests the balance does not cover together; the    *)
(* first has two payout jobs.                                               *)
EXTENDS Withdraw, TLC

CONSTANTS u1, w1, w2, j1, j2, s1

OneUser == [w \in Withdrawals |-> u1]
Amounts == [w \in Withdrawals |-> IF w = w1 THEN 2 ELSE 1]
Opening == [u \in Users |-> 2]
FirstRequest == [j \in Jobs |-> w1]

JobSymmetry == Permutations(Jobs)
=============================================================================
