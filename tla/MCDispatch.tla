------------------------------ MODULE MCDispatch ------------------------------
(* Small instances of Dispatch for TLC: one rider, up to two drivers and     *)
(* two requests.                                                             *)
EXTENDS DispatchRefinement, TLC

CONSTANTS d1, d2, u1, r1, r2

OneRider == [r \in Requests |-> u1]

AllWallet == [r \in Requests |-> "wallet"]
WalletThenCash == [r \in Requests |-> IF r = r1 THEN "wallet" ELSE "cash"]

UnitFares == [r \in Requests |-> 1]
\* the opening balance pays for either ride, not for both
ScarceFares == [r \in Requests |-> IF r = r1 THEN 2 ELSE 1]
Opening == [u \in Riders |-> 2]

\* what the console's form accepts, and what the route accepts but suspensions
ConsoleTargets == {"suspended", "available", "offline"}
NoSuspension == DriverStatus \ {"suspended"}

DriverSymmetry == Permutations(Drivers)
=============================================================================
