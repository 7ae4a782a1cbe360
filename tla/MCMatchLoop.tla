------------------------------ MODULE MCMatchLoop ------------------------------
(* Three drivers, any of whom may have opted in; three attempts, two of them  *)
(* for the preference, as in the code.                                        *)
EXTENDS MatchLoop

CONSTANTS w1, m1, m2
=============================================================================
