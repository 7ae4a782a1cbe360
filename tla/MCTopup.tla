------------------------------- MODULE MCTopup -------------------------------
(* One intent and the reports its provider can make: the payment is open,   *)
(* was made, was refused.  A provider has an id for each delivery, or one   *)
(* for a success and one for the rest.                                      *)
EXTENDS Topup, TLC

CONSTANTS i1, open, paid, refused, e1, e2, e3, w1, w2, p1

OneIntent == [m \in Reports |-> i1]
Says == [m \in Reports |-> IF m = open THEN "open"
                           ELSE IF m = paid THEN "paid" ELSE "refused"]
IdPerDelivery == [m \in Reports |-> IF m = open THEN e1
                                    ELSE IF m = paid THEN e2 ELSE e3]
TwoIds == [m \in Reports |-> IF m = paid THEN e2 ELSE e1]

WorkerSymmetry == Permutations(Workers)
=============================================================================
