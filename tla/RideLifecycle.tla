---------------------------- MODULE RideLifecycle ----------------------------
(***************************************************************************)
(* What dispatch promises, without its mechanism: a request looks for a     *)
(* driver, is offered to one, becomes a ride and ends.  A driver who has an *)
(* offer or a ride gets no other.                                           *)
(***************************************************************************)
CONSTANTS Drivers, Requests, NoDriver

VARIABLES phase, partner

lifecycleVars == <<phase, partner>>

LifecycleInit ==
  /\ phase = [r \in Requests |-> "none"]
  /\ partner = [r \in Requests |-> NoDriver]

Ask(r) ==
  /\ phase[r] = "none"
  /\ phase' = [phase EXCEPT ![r] = "searching"]
  /\ UNCHANGED partner

Drop(r) ==
  /\ phase[r] \in {"searching", "offered"}
  /\ phase' = [phase EXCEPT ![r] = "dropped"]
  /\ partner' = [partner EXCEPT ![r] = NoDriver]

\* offers lapse in batches; in the same step one request may get a new offer
Withdrawn(S) == [r \in Requests |-> IF r \in S THEN "searching" ELSE phase[r]]
Unpaired(S) == [r \in Requests |-> IF r \in S THEN NoDriver ELSE partner[r]]

Offer(S, r, d) ==
  /\ \A q \in S : phase[q] = "offered"
  /\ Withdrawn(S)[r] = "searching"
  /\ \A q \in Requests \ S : phase[q] \in {"offered", "riding"}
                               => partner[q] # d
  /\ phase' = [Withdrawn(S) EXCEPT ![r] = "offered"]
  /\ partner' = [Unpaired(S) EXCEPT ![r] = d]

Withdraw(S) ==
  /\ \A q \in S : phase[q] = "offered"
  /\ phase' = Withdrawn(S)
  /\ partner' = Unpaired(S)

StartRide(r) ==
  /\ phase[r] = "offered"
  /\ phase' = [phase EXCEPT ![r] = "riding"]
  /\ UNCHANGED partner

EndRide(r, how) ==
  /\ phase[r] = "riding"
  /\ phase' = [phase EXCEPT ![r] = how]
  /\ UNCHANGED partner

LifecycleNext ==
  \/ \E r \in Requests : Ask(r) \/ Drop(r) \/ StartRide(r)
  \/ \E r \in Requests, how \in {"completed", "canceled"} : EndRide(r, how)
  \/ \E S \in SUBSET Requests : Withdraw(S)
  \/ \E S \in SUBSET Requests, r \in Requests, d \in Drivers : Offer(S, r, d)

LifecycleSpec == LifecycleInit /\ [][LifecycleNext]_lifecycleVars
=============================================================================
