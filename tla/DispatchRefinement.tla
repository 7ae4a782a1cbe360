-------------------------- MODULE DispatchRefinement --------------------------
(* Dispatch implements RideLifecycle: the phase of a request is read off its *)
(* request row and its ride row, its partner off the request row.            *)
EXTENDS Dispatch

PhaseOf(req, rid) ==
  IF rid.status \in ActiveRide THEN "riding"
  ELSE IF rid.status \in EndedRide THEN rid.status
  ELSE CASE req.status = "matched"   -> "offered"
         [] req.status = "requested" -> "searching"
         [] req.status = "cancelled" -> "dropped"
         [] OTHER -> "none"

Lifecycle == INSTANCE RideLifecycle WITH
  phase   <- [r \in Requests |-> PhaseOf(request[r], ride[r])],
  partner <- [r \in Requests |-> request[r].driver]

(* Whatever the button, the job and the triggers do, each request follows   *)
(* the life cycle and no driver is offered a second one.                    *)
ImplementsLifecycle == Lifecycle!LifecycleSpec
=============================================================================
