------------------------------ MODULE Dispatch ------------------------------
(***************************************************************************)
(* Ride dispatch: drivers, ride requests, rides and the money a ride        *)
(* moves.  One action is one database transaction (a SQL function called    *)
(* through PostgREST), with every trigger it fires and every function it    *)
(* calls.  A transaction that raises is rolled back and leaves no step.     *)
(*                                                                          *)
(* Abstractions.  Geography, vehicle capacity, KYC and location freshness   *)
(* only choose among drivers, so MatchRide may pick any driver that passes  *)
(* the status, ride, match and cash tests, or none.  A match deadline is    *)
(* "open" until the environment step DeadlinePasses makes it "passed".      *)
(* Ages (a stuck ride, a stale reservation) are free choices.  Ratings,     *)
(* notifications, referrals and event rows are left out.                    *)
(***************************************************************************)
EXTENDS Integers, FiniteSets, Functions

CONSTANTS
  Drivers,         \* rows of public.drivers
  Riders,          \* users who ask for rides
  Requests,        \* ids of ride_requests; rides are keyed by request_id
  NoDriver,        \* SQL NULL in assigned_driver_id
  RiderOf,         \* [Requests -> Riders]
  PaymentOf,       \* [Requests -> {"wallet", "cash"}]
  FareOf,          \* [Requests -> Nat \ {0}], the quote in IQD
  PinRequired,     \* riders whose rides need the pickup PIN
  OpeningBalance,  \* [Riders -> Nat], wallet balance at the start
  CashLimit,       \* cash_exposure_limit_iqd, one value for all drivers
  PlatformFee,     \* platform_fee_compute_iqd of a cash ride
  MaxPending,      \* open requests a rider may have (3 in the code)
  StaleLimit,      \* drivers one stale sweep takes (p_limit)
  AdminTargets,    \* statuses administrators move drivers to
  ReceiptAmounts,  \* what administrators record as received from drivers
  PayoutAmounts,   \* ... and as paid out to them
  MaxCredit,       \* bound on what a driver is owed
  MaxPaidOut       \* bound on what is paid out during and after a cash ride

Users == Riders \cup Drivers

ASSUME ConstantsAssumption ==
  /\ NoDriver \notin Drivers
  /\ Riders \cap Drivers = {}
  /\ RiderOf \in [Requests -> Riders]
  /\ PaymentOf \in [Requests -> {"wallet", "cash"}]
  /\ FareOf \in [Requests -> Nat \ {0}]
  /\ PinRequired \subseteq Riders
  /\ OpeningBalance \in [Riders -> Nat]
  /\ CashLimit \in Nat
  /\ PlatformFee \in Nat
  /\ MaxPending \in Nat
  /\ StaleLimit \in Nat
  /\ AdminTargets \subseteq {"offline", "available", "reserved", "on_trip",
                             "suspended"}
  /\ ReceiptAmounts \cup PayoutAmounts \subseteq Nat \ {0}
  /\ MaxCredit \in Nat
  /\ MaxPaidOut \in Nat

ASSUME UsersAssumption == IsFiniteSet(Users)

VARIABLES
  driverStatus,  \* drivers.status
  appStatus,     \* drivers.status as the driver's app last fetched it
  request,       \* ride_requests: status, assigned driver, match window
  ride,          \* rides: status, version, driver, pickup PIN
  hold,          \* wallet_holds.status of the ride's hold
  wallet,        \* wallet_accounts: balance and held
  settlement,    \* settlement_accounts.balance_iqd of the drivers
  paidOut,       \* history: paid out to a driver since the last cash ride of
                 \* that driver was accepted
  trips,         \* drivers.trips_count
  stuck,         \* version of each ride on the list expire-rides has read
  stale          \* drivers the stale sweep selected before it waits for locks

moneyVars == <<hold, wallet, settlement, paidOut, trips>>
rideVars  == <<ride, moneyVars>>
vars == <<driverStatus, appStatus, request, ride, hold, wallet, settlement,
          paidOut, trips, stuck, stale>>

DriverStatus  == {"offline", "available", "reserved", "on_trip", "suspended"}
RequestStatus == {"none", "requested", "matched", "accepted", "cancelled"}
RideStatus    == {"none", "assigned", "arrived", "in_progress", "completed",
                  "canceled"}
ActiveRide    == {"assigned", "arrived", "in_progress"}
EndedRide     == {"completed", "canceled"}
HoldStatus    == {"none", "active", "captured", "released"}

Searching == [status |-> "requested", driver |-> NoDriver, window |-> "none"]
Unborn    == [status |-> "none", driver |-> NoDriver, window |-> "none"]
\* Mutant of Dropped: the spelling of ride_status in a ride_request_status.
Dropped_RideSpelling ==
  [status |-> "canceled", driver |-> NoDriver, window |-> "none"]
Dropped   == [status |-> "cancelled", driver |-> NoDriver, window |-> "none"]
NoRide    == [status |-> "none", version |-> 0, driver |-> NoDriver,
              pin |-> "off"]

DriverTransitions ==
  {<<"offline", "available">>, <<"available", "offline">>,
   <<"available", "reserved">>, <<"reserved", "available">>,
   <<"reserved", "on_trip">>, <<"on_trip", "available">>,
   <<"suspended", "offline">>}
    \cup ({"offline", "available", "reserved", "on_trip"} \X {"suspended"})

\* Mutant: a completed ride can still be canceled.
RideTransitions_LateCancel ==
  {<<"assigned", "arrived">>, <<"arrived", "in_progress">>,
   <<"in_progress", "completed">>}
    \cup ((ActiveRide \cup {"completed"}) \X {"canceled"})
RideTransitions ==
  {<<"assigned", "arrived">>, <<"arrived", "in_progress">>,
   <<"in_progress", "completed">>} \cup (ActiveRide \X {"canceled"})

-----------------------------------------------------------------------------
(* Queries of the transactions, over the rows they see.                     *)

HasActiveRide(d) ==
  \E r \in Requests : ride[r].driver = d /\ ride[r].status \in ActiveRide

\* a matched row, lapsed or not: what ux_ride_requests_driver_matched counts
HasMatchRow(req, d) ==
  \E r \in Requests : req[r].driver = d /\ req[r].status = "matched"

HasLiveMatch(req, d) ==
  \E r \in Requests : /\ req[r].driver = d
                      /\ req[r].status = "matched"
                      /\ req[r].window = "open"

Lapsed(req, r) == req[r].status = "matched" /\ req[r].window = "passed"

Available(u) == wallet[u].balance - wallet[u].held

WithinCashLimit(d) == settlement[d] >= -CashLimit

\* transition_driver raises unless the step is legal; entering "available"
\* is also refused to a driver with a live match.  Staying put is a no-op.
MayMove(drv, req, d, to) ==
  \/ drv[d] = to
  \/ /\ <<drv[d], to>> \in DriverTransitions
     /\ to = "available" => ~HasLiveMatch(req, d)

-----------------------------------------------------------------------------
(* The money of a ride.                                                     *)

\* Mutant: the hold is placed without looking at the funds again.
PlaceHold_NoFundsCheck(r) ==
  /\ hold' = [hold EXCEPT ![r] = "active"]
  /\ wallet' = [wallet EXCEPT ![RiderOf[r]].held = @ + FareOf[r]]

\* wallet_hold_upsert_for_ride
PlaceHold(r) ==
  LET u == RiderOf[r] IN
  /\ Available(u) >= FareOf[r]
  /\ IF hold[r] = "active"
       THEN UNCHANGED <<hold, wallet>>
       ELSE /\ hold' = [hold EXCEPT ![r] = "active"]
            /\ wallet' = [wallet EXCEPT ![u].held = @ + FareOf[r]]

\* Mutant: the rider is debited, the driver is not credited.
CaptureHold_DebitOnly(r) ==
  /\ hold[r] = "active"
  /\ hold' = [hold EXCEPT ![r] = "captured"]
  /\ wallet' = [wallet EXCEPT
       ![RiderOf[r]] = [balance |-> @.balance - FareOf[r],
                        held    |-> @.held - FareOf[r]]]

\* wallet_capture_ride_hold: debit the rider, credit the driver
CaptureHold(r) ==
  LET u == RiderOf[r]
      d == ride[r].driver
      debited == [wallet EXCEPT ![u] = [balance |-> @.balance - FareOf[r],
                                        held    |-> @.held - FareOf[r]]]
  IN \/ hold[r] = "captured" /\ UNCHANGED <<hold, wallet>>
     \/ /\ hold[r] = "active"
        /\ wallet[u].held >= FareOf[r]
        /\ wallet[u].balance >= FareOf[r]
        /\ hold' = [hold EXCEPT ![r] = "captured"]
        /\ wallet' = [debited EXCEPT ![d].balance = @ + FareOf[r]]

\* Mutant: a cancellation leaves the hold standing.
ReleaseHold_Forgotten(r) == hold[r] # "none" /\ UNCHANGED <<hold, wallet>>

\* wallet_release_ride_hold
ReleaseHold(r) ==
  LET u == RiderOf[r] IN
  IF hold[r] = "active"
    THEN /\ hold' = [hold EXCEPT ![r] = "released"]
         /\ wallet' = [wallet EXCEPT ![u].held =
                         IF @ >= FareOf[r] THEN @ - FareOf[r] ELSE 0]
    ELSE UNCHANGED <<hold, wallet>>

\* the money side of transition_ride_v3 (and v2)
SettleRide(r, to) ==
  \/ to \notin EndedRide /\ UNCHANGED moneyVars
  \/ /\ to = "canceled"
     /\ IF PaymentOf[r] = "wallet"
          THEN ReleaseHold(r)
          ELSE UNCHANGED <<hold, wallet>>
     /\ UNCHANGED <<settlement, paidOut, trips>>
  \/ /\ to = "completed"
     /\ IF PaymentOf[r] = "wallet"
          THEN CaptureHold(r) /\ UNCHANGED settlement
          ELSE /\ settlement' =
                    [settlement EXCEPT ![ride[r].driver] = @ - PlatformFee]
               /\ UNCHANGED <<hold, wallet>>
     \* the rides trigger counts the trip, and on_ride_completed_v1 again
     /\ trips' = [trips EXCEPT ![ride[r].driver] = (@ + 1) + 1]
     /\ UNCHANGED paidOut

-----------------------------------------------------------------------------
(* Riders ask, cancel and are matched.                                      *)

\* ride_request_create_user_v1; a replay of the same id returns the old row
CreateRequest(r) ==
  /\ request[r].status = "none"
  /\ Cardinality({q \in Requests :
         /\ RiderOf[q] = RiderOf[r]
         /\ request[q].status \in {"requested", "matched"}}) < MaxPending
  /\ request' = [request EXCEPT ![r] = Searching]
  /\ UNCHANGED <<driverStatus, appStatus, rideVars, stuck, stale>>

\* Mutant: a request can be cancelled after its acceptance, and the driver is
\* handed back.
CancelRequest_Accepted(r) ==
  /\ request[r].status \in {"requested", "matched", "accepted"}
  /\ request' = [request EXCEPT ![r] = Dropped]
  /\ driverStatus' = [d \in Drivers |-> IF d = request[r].driver
                                         THEN "available" ELSE driverStatus[d]]
  /\ UNCHANGED <<appStatus, rideVars, stuck, stale>>

\* cancel_ride_request, with the triggers that clear the match fields and
\* hand the reserved driver back (refused if that driver had a live match)
CancelRequest(r) ==
  LET back == {d \in Drivers : /\ request[r].status = "matched"
                               /\ request[r].driver = d
                               /\ driverStatus[d] = "reserved"}
      req == [request EXCEPT ![r] = Dropped]
  IN
  /\ request[r].status \in {"requested", "matched"}
  /\ \A d \in back : ~HasLiveMatch(req, d)
  /\ request' = req
  /\ driverStatus' = [d \in Drivers |-> IF d \in back THEN "available"
                                                      ELSE driverStatus[d]]
  /\ UNCHANGED <<appStatus, rideVars, stuck, stale>>

\* Mutant: the sweep looks at requests that have no driver.
LapsedMatches_Requested ==
  {r \in Requests : request[r].status = "requested"
                      /\ request[r].window = "passed"}
LapsedMatches == {r \in Requests : Lapsed(request, r)}

\* expire_matched_ride_requests_v1 over the lapsed rows S.  SKIP LOCKED and
\* LIMIT let it leave rows out, so S is any set of lapsed rows.
SweptRequests(S) ==
  [r \in Requests |-> IF r \in S THEN Searching ELSE request[r]]

\* Mutant: the sweep leaves the drivers alone.
SweptDrivers_NoRelease(S) == IF S = {} THEN driverStatus ELSE driverStatus

SweptDrivers(S) ==
  [d \in Drivers |->
     IF /\ driverStatus[d] = "reserved"
        /\ \E r \in S : request[r].driver = d
        /\ ~HasActiveRide(d)
        /\ ~HasLiveMatch(SweptRequests(S), d)
     THEN "available" ELSE driverStatus[d]]

ExpireMatched(S) ==
  /\ S # {}
  /\ request' = SweptRequests(S)
  /\ driverStatus' = SweptDrivers(S)
  /\ UNCHANGED <<appStatus, rideVars, stuck, stale>>

\* dispatch_match_ride sweeps first; a request that is then neither
\* requested nor lapsed is returned as it is
MatchReturnsEarly(r, S) ==
  /\ request[r].status # "none"
  /\ SweptRequests(S)[r].status # "requested"
  /\ ~Lapsed(SweptRequests(S), r)
  /\ request' = SweptRequests(S)
  /\ driverStatus' = SweptDrivers(S)
  /\ UNCHANGED <<appStatus, rideVars, stuck, stale>>

\* the lapsed match of r itself, when the sweep had to skip it
OwnMatchUndone(r, S) ==
  LET req == SweptRequests(S)
      drv == SweptDrivers(S)
  IN IF Lapsed(req, r)
       THEN [ok |-> MayMove(drv, req, req[r].driver, "available"),
             request |-> [req EXCEPT ![r] = Searching],
             driver  |-> [drv EXCEPT ![req[r].driver] = "available"]]
       ELSE [ok |-> TRUE, request |-> req, driver |-> drv]

\* Mutant: without the unique index on the driver of a match.
Candidates_NoMatchIndex(r, req, drv) ==
  {d \in Drivers : /\ drv[d] = "available"
                   /\ ~HasActiveRide(d)
                   /\ ~HasLiveMatch(req, d)
                   /\ PaymentOf[r] = "cash" => WithinCashLimit(d)}

\* who the candidate query and the row lock let through.  A driver whose
\* lapsed match row is still there conflicts with the unique index and is
\* handed back within the same transaction.
Candidates(r, req, drv) ==
  {d \in Drivers : /\ drv[d] = "available"
                   /\ ~HasActiveRide(d)
                   /\ ~HasLiveMatch(req, d)
                   /\ ~HasMatchRow(req, d)
                   /\ PaymentOf[r] = "cash" => WithinCashLimit(d)}

MatchRide(r, S) ==
  LET u == OwnMatchUndone(r, S) IN
  /\ u.ok
  /\ u.request[r].status = "requested"
  /\ PaymentOf[r] = "wallet" => Available(RiderOf[r]) >= FareOf[r]
  /\ \/ \* no driver near enough, or all of them locked or in conflict
        request' = u.request /\ driverStatus' = u.driver
     \/ \E d \in Candidates(r, u.request, u.driver) :
          /\ request' = [u.request EXCEPT ![r] =
               [status |-> "matched", driver |-> d, window |-> "open"]]
          /\ driverStatus' = [u.driver EXCEPT ![d] = "reserved"]
  /\ UNCHANGED <<appStatus, rideVars, stuck, stale>>

\* the match deadline of r goes by
DeadlinePasses(r) ==
  /\ request[r].window = "open"
  /\ request' = [request EXCEPT ![r].window = "passed"]
  /\ UNCHANGED <<driverStatus, appStatus, rideVars, stuck, stale>>

-----------------------------------------------------------------------------
(* Drivers accept and drive.                                                *)

\* Mutant: the exposure limit is left to the matching.
AcceptRide_LimitAtMatch(r) ==
  LET d == request[r].driver IN
  /\ request[r].status = "matched"
  /\ driverStatus[d] = "reserved"
  /\ ~HasActiveRide(d)
  /\ request' = [request EXCEPT ![r].status = "accepted"]
  /\ ride' = [ride EXCEPT ![r].status = "assigned", ![r].driver = d]
  /\ paidOut' = [paidOut EXCEPT ![d] = IF PaymentOf[r] = "cash" THEN 0 ELSE @]
  /\ driverStatus' = [driverStatus EXCEPT ![d] = "on_trip"]
  /\ UNCHANGED <<appStatus, hold, wallet, settlement, trips, stuck, stale>>

\* dispatch_accept_ride, called by the assigned driver.  The deadline is not
\* consulted.  The index ux_rides_driver_active refuses a second active ride.
AcceptRide(r) ==
  LET d == request[r].driver IN
  /\ request[r].status = "matched"
  /\ driverStatus[d] = "reserved"
  /\ PaymentOf[r] = "cash" => WithinCashLimit(d)
  /\ ~HasActiveRide(d)
  /\ request' = [request EXCEPT ![r].status = "accepted"]
  /\ ride' = [ride EXCEPT ![r] =
       [status  |-> IF @.status = "none" THEN "assigned" ELSE @.status,
        version |-> @.version,
        driver  |-> d,
        pin     |-> IF RiderOf[r] \in PinRequired THEN "due" ELSE "off"]]
  /\ IF PaymentOf[r] = "wallet"
       THEN PlaceHold(r)
       ELSE UNCHANGED <<hold, wallet>>
  /\ paidOut' = [paidOut EXCEPT ![d] = IF PaymentOf[r] = "cash" THEN 0 ELSE @]
  /\ driverStatus' = [driverStatus EXCEPT ![d] = "on_trip"]
  /\ UNCHANGED <<appStatus, settlement, trips, stuck, stale>>

\* transition_ride_v3 (and v2) once the caller's version has been accepted.
\* A cash completion brings enough cash, or it is refused.
TransitionRide(r, to) ==
  LET d == ride[r].driver IN
  /\ <<ride[r].status, to>> \in RideTransitions
  /\ to = "in_progress" => ride[r].pin # "due"
  /\ to \in EndedRide => MayMove(driverStatus, request, d, "available")
  /\ ride' = [ride EXCEPT ![r] = [status |-> to, version |-> @.version + 1,
                                  driver |-> d, pin |-> @.pin]]
  /\ driverStatus' = IF to \in EndedRide
                       THEN [driverStatus EXCEPT ![d] = "available"]
                       ELSE driverStatus
  /\ SettleRide(r, to)
  /\ UNCHANGED <<appStatus, request>>

\* transition_ride_user_v1 (the driver takes any step, the rider may cancel)
\* and admin-ride-cancel
UserTransition(r, to) == TransitionRide(r, to) /\ UNCHANGED <<stuck, stale>>

\* ride_verify_pickup_pin with the right PIN
VerifyPin(r) ==
  /\ ride[r].pin = "due"
  /\ ride' = [ride EXCEPT ![r].pin = "verified"]
  /\ UNCHANGED <<driverStatus, appStatus, request, moneyVars, stuck, stale>>

\* the availability button of DriverPage: enabled by the cached row, it
\* writes drivers.status directly; the trigger refuses "available" to a
\* driver with a live match.  The cached row is fetched again later.
ToggleAvailability(d) ==
  LET next == IF appStatus[d] = "offline" THEN "available" ELSE "offline" IN
  /\ appStatus[d] \in {"available", "offline"}
  /\ (next = "available" /\ driverStatus[d] # next)
       => ~HasLiveMatch(request, d)
  /\ driverStatus' = [driverStatus EXCEPT ![d] = next]
  /\ UNCHANGED <<appStatus, request, rideVars, stuck, stale>>

\* canToggleOnline tells these two statuses from the others
Shown(s) == IF s \in {"offline", "available"} THEN s ELSE "busy"

RefreshApp(d) ==
  /\ appStatus' = [appStatus EXCEPT ![d] = Shown(driverStatus[d])]
  /\ UNCHANGED <<driverStatus, request, rideVars, stuck, stale>>

-----------------------------------------------------------------------------
(* Administrators and the expire-rides job.                                 *)

\* admin-driver-transition; its form sends "suspended", "available" or
\* "offline", the route itself any status transition_driver accepts
AdminTransitionDriver(d, to) ==
  /\ driverStatus[d] # to
  /\ MayMove(driverStatus, request, d, to)
  /\ driverStatus' = [driverStatus EXCEPT ![d] = to]
  /\ UNCHANGED <<appStatus, request, rideVars, stuck, stale>>

\* admin_settlement_record_receipt_v2: any amount, whatever is owed
RecordReceipt(d, n) ==
  /\ settlement[d] + n <= MaxCredit
  /\ settlement' = [settlement EXCEPT ![d] = @ + n]
  /\ UNCHANGED <<driverStatus, appStatus, request, ride, hold, wallet, paidOut,
                 trips, stuck, stale>>

\* admin_settlement_record_payout_v2: the balance is not looked at.  That an
\* approved payout request does look first is a choice within this; Orders
\* has it.
RecordPayout(d, n) ==
  /\ paidOut[d] + n <= MaxPaidOut
  /\ settlement' = [settlement EXCEPT ![d] = @ - n]
  /\ paidOut' = [paidOut EXCEPT ![d] = @ + n]
  /\ UNCHANGED <<driverStatus, appStatus, request, ride, hold, wallet, trips,
                 stuck, stale>>

\* expire-rides reads the assigned and arrived rides past their cutoff
ReadStuckRides(R) ==
  /\ R \subseteq {r \in Requests : ride[r].status \in {"assigned", "arrived"}}
  /\ R # {}
  /\ stuck' = [r \in Requests |-> IF r \in R THEN ride[r].version ELSE -1]
  /\ UNCHANGED <<driverStatus, appStatus, request, rideVars, stale>>

\* Mutants: a ride whose driver has arrived is left out; the job cancels
\* without the version it read.
CancelStuckRide_AssignedOnly(r) ==
  /\ stuck[r] # -1
  /\ ride[r].version = stuck[r]
  /\ ride[r].status = "assigned"
  /\ TransitionRide(r, "canceled")
  /\ stuck' = [stuck EXCEPT ![r] = -1]
  /\ UNCHANGED stale
CancelStuckRide_NoVersion(r) ==
  /\ stuck[r] # -1
  /\ TransitionRide(r, "canceled")
  /\ stuck' = [stuck EXCEPT ![r] = -1]
  /\ UNCHANGED stale

\* ... and cancels each of them at the version it read, through
\* transition_ride_v2; a refused call is skipped
CancelStuckRide(r) ==
  /\ stuck[r] # -1
  /\ ride[r].version = stuck[r]
  /\ TransitionRide(r, "canceled")
  /\ stuck' = [stuck EXCEPT ![r] = -1]
  /\ UNCHANGED stale

SkipStuckRide(r) ==
  /\ stuck[r] # -1
  /\ \/ ride[r].version # stuck[r]
     \/ ~MayMove(driverStatus, request, ride[r].driver, "available")
  /\ stuck' = [stuck EXCEPT ![r] = -1]
  /\ UNCHANGED <<driverStatus, appStatus, request, rideVars, stale>>

\* admin_mark_stale_drivers_offline is one UPDATE whose rows are chosen by a
\* subquery that takes no locks.  While it waits for the lock of a row, the
\* driver may be matched; the condition on the status is not checked again.
SelectStaleDrivers(D) ==
  /\ stale = {} /\ D # {} /\ Cardinality(D) <= StaleLimit
  /\ \A d \in D : driverStatus[d] = "available"
  /\ stale' = D
  /\ UNCHANGED <<driverStatus, appStatus, request, rideVars, stuck>>

MarkStaleOffline ==
  /\ stale # {}
  /\ driverStatus' = [d \in Drivers |-> IF d \in stale THEN "offline"
                                                       ELSE driverStatus[d]]
  /\ stale' = {}
  /\ UNCHANGED <<appStatus, request, rideVars, stuck>>

\* Mutant: the job looks for the legacy status.
StuckReserved_Legacy ==
  {d \in Drivers : driverStatus[d] = "assigned" /\ ~HasMatchRow(request, d)}

\* admin_release_stuck_reserved_drivers
StuckReserved == {d \in Drivers : /\ driverStatus[d] = "reserved"
                                  /\ ~HasMatchRow(request, d)}

ReleaseStuckReserved(D) ==
  /\ D # {}
  /\ driverStatus' = [d \in Drivers |-> IF d \in D THEN "available"
                                                   ELSE driverStatus[d]]
  /\ UNCHANGED <<appStatus, request, rideVars, stuck, stale>>
-----------------------------------------------------------------------------
Init ==
  /\ driverStatus = [d \in Drivers |-> "offline"]
  /\ appStatus = [d \in Drivers |-> "offline"]
  /\ request = [r \in Requests |-> Unborn]
  /\ ride = [r \in Requests |-> NoRide]
  /\ hold = [r \in Requests |-> "none"]
  /\ wallet = [u \in Users |->
       [balance |-> IF u \in Riders THEN OpeningBalance[u] ELSE 0,
        held    |-> 0]]
  /\ settlement = [d \in Drivers |-> 0]
  /\ paidOut = [d \in Drivers |-> 0]
  /\ trips = [d \in Drivers |-> 0]
  /\ stuck = [r \in Requests |-> -1]
  /\ stale = {}

RequestStep(r) ==
  \/ CreateRequest(r)
  \/ CancelRequest(r)
  \/ \E S \in SUBSET LapsedMatches : MatchReturnsEarly(r, S)
  \/ \E S \in SUBSET LapsedMatches : MatchRide(r, S)
  \/ DeadlinePasses(r)

RideStep(r) ==
  \/ AcceptRide(r)
  \/ \E to \in RideStatus : UserTransition(r, to)
  \/ VerifyPin(r)

DriverStep(d) ==
  \/ ToggleAvailability(d)
  \/ RefreshApp(d)
  \/ \E to \in AdminTargets : AdminTransitionDriver(d, to)
  \/ \E n \in ReceiptAmounts : RecordReceipt(d, n)
  \/ \E n \in PayoutAmounts : RecordPayout(d, n)

JobStep ==
  \/ \E S \in SUBSET LapsedMatches : ExpireMatched(S)
  \/ \E R \in SUBSET Requests : ReadStuckRides(R)
  \/ \E r \in Requests : CancelStuckRide(r) \/ SkipStuckRide(r)
  \/ \E D \in SUBSET Drivers : SelectStaleDrivers(D)
  \/ MarkStaleOffline
  \/ \E D \in SUBSET StuckReserved : ReleaseStuckReserved(D)

Next ==
  \/ \E r \in Requests : RequestStep(r) \/ RideStep(r)
  \/ \E d \in Drivers : DriverStep(d)
  \/ JobStep

Spec == Init /\ [][Next]_vars

(* Deadlines pass, and expire-rides runs again and again (the comment on    *)
(* admin_release_stuck_reserved_drivers: "Should be run periodically by     *)
(* expire-rides job"): it sweeps oldest first and locks are short, so each  *)
(* lapsed row and each stuck reservation is reached in the end, and so is   *)
(* each ride that stays past its cutoff.  A run works through its list.     *)
JobFairness ==
  /\ \A r \in Requests :
       /\ WF_vars(DeadlinePasses(r))
       /\ WF_vars(\E S \in SUBSET LapsedMatches : r \in S /\ ExpireMatched(S))
       /\ WF_vars(stuck[r] = -1 /\ \E R \in SUBSET Requests :
                                    r \in R /\ ReadStuckRides(R))
       /\ SF_vars(CancelStuckRide(r))
       /\ WF_vars(SkipStuckRide(r))
  /\ \A d \in Drivers :
       WF_vars(\E D \in SUBSET StuckReserved :
                  d \in D /\ ReleaseStuckReserved(D))

FairSpec == Spec /\ JobFairness
-----------------------------------------------------------------------------
(* Every variable has its type: what the columns, enums and checks of the   *)
(* tables allow, plus the range of the job's list.                          *)
TypeOK ==
  /\ driverStatus \in [Drivers -> DriverStatus]
  /\ appStatus \in [Drivers -> {"offline", "available", "busy"}]
  /\ request \in [Requests -> [status : RequestStatus,
                               driver : Drivers \cup {NoDriver},
                               window : {"none", "open", "passed"}]]
  /\ ride \in [Requests -> [status  : RideStatus,
                            version : Nat,
                            driver  : Drivers \cup {NoDriver},
                            pin     : {"off", "due", "verified"}]]
  /\ hold \in [Requests -> HoldStatus]
  /\ wallet \in [Users -> [balance : Nat, held : Nat]]
  /\ settlement \in [Drivers -> Int]
  /\ paidOut \in [Drivers -> Nat]
  /\ trips \in [Drivers -> Nat]
  /\ stuck \in [Requests -> Nat \cup {-1}]
  /\ stale \subseteq Drivers

\* the request r ties up its driver: an offer that stands or a ride under way
Committed(r) ==
  request[r].status = "matched" \/ ride[r].status \in ActiveRide

(* A driver is never tied to two requests: not to two offers (also not when *)
(* one has lapsed and is not swept yet), not to two rides, not to a ride    *)
(* and the next offer.  Matching, accepting, sweeping, stale buttons and    *)
(* administrators all move the driver's status in between.                  *)
OneCommitment ==
  \A q, r \in Requests :
    q # r /\ Committed(q) /\ Committed(r)
      => request[q].driver # request[r].driver

(* A driver with a live offer never looks available, whoever moved the      *)
(* status last, so no other match can pick the driver up.                   *)
LiveMatchNotAvailable ==
  \A r \in Requests :
    request[r].status = "matched" /\ request[r].window = "open"
      => driverStatus[request[r].driver] # "available"

(* A request is accepted exactly when its ride exists, for the driver it    *)
(* was offered to; ON CONFLICT in dispatch_accept_ride never rewrites one.  *)
RideIffAccepted ==
  \A r \in Requests :
    IF request[r].status = "accepted"
      THEN ride[r].status # "none" /\ ride[r].driver = request[r].driver
      ELSE ride[r] = NoRide

(* The hold of a wallet ride stands while the ride is under way, is spent   *)
(* by its completion and given back by its cancellation; cash rides have    *)
(* none.                                                                    *)
HoldFollowsRide ==
  \A r \in Requests :
    hold[r] = IF PaymentOf[r] = "cash" THEN "none"
              ELSE CASE ride[r].status \in ActiveRide -> "active"
                     [] ride[r].status = "completed" -> "captured"
                     [] ride[r].status = "canceled" -> "released"
                     [] OTHER -> "none"

(* What a rider's account shows as held is the sum of the active holds, and *)
(* the balance covers it, although matching reads the balance long before   *)
(* accepting places the hold and the same rider may have several rides.     *)
HeldIsSumOfHolds ==
  \A u \in Users :
    /\ wallet[u].held =
         SumFunctionOnSet(FareOf,
                          {r \in Requests : RiderOf[r] = u /\ hold[r] = "active"})
    /\ wallet[u].held <= wallet[u].balance

(* Rides only move money between wallets.                                   *)
MoneyConserved ==
  SumFunctionOnSet([u \in Users |-> wallet[u].balance], Users)
    = SumFunctionOnSet(OpeningBalance, Riders)

(* The fees of cash rides take a driver beyond the limit by at most one fee, *)
(* although the limit is read when the ride is accepted, the fee is posted   *)
(* when it is completed, and receipts and payouts of any amount are recorded *)
(* in between: what a driver owes beyond that was paid out to the driver     *)
(* since the last cash ride was accepted.                                    *)
CashExposureBounded ==
  \A d \in Drivers :
    settlement[d] + paidOut[d] >= -(CashLimit + PlatformFee)

(* With the targets of the console, a reserved driver always has the match  *)
(* row that explains it: the job's LOGIC-01 sweep has nothing to repair.    *)
ReservedHasMatch ==
  \A d \in Drivers : driverStatus[d] = "reserved" => HasMatchRow(request, d)

(* Only the availability button, administrators and a stale sweep that had  *)
(* selected the driver before the match take a driver off the trip while    *)
(* the ride is still under way; no match, expiry sweep, cancellation of a   *)
(* request or repair of a reservation does.                                 *)
OnTripIsKept ==
  [][\A d \in Drivers :
       driverStatus[d] = "on_trip" /\ HasActiveRide(d) /\ HasActiveRide(d)'
         => \/ driverStatus'[d] = "on_trip"
            \/ ToggleAvailability(d)
            \/ d \in stale /\ MarkStaleOffline
            \/ \E to \in AdminTargets : AdminTransitionDriver(d, to)]_vars

(* expire-rides works from a list it read earlier; it never cancels a ride  *)
(* whose trip has started since.                                            *)
JobSparesStartedRides ==
  [][\A r \in Requests :
       stuck[r] # -1 /\ stuck'[r] = -1 /\ ride'[r] # ride[r]
         => ride[r].status \in {"assigned", "arrived"}]_vars

(* A ride that stays assigned or arrived too long is canceled by the job.   *)
StuckRideEnds ==
  \A r \in Requests :
    ride[r].status \in {"assigned", "arrived"}
      ~> ride[r].status \notin {"assigned", "arrived"}

(* A match nobody accepts does not stand for ever.                         *)
LapsedMatchResolved ==
  \A r \in Requests : Lapsed(request, r) ~> ~Lapsed(request, r)

(* A driver left reserved without a match row (an administrator can do it)  *)
(* is released or matched in the end.                                       *)
Orphaned(d) == driverStatus[d] = "reserved" /\ ~HasMatchRow(request, d)

OrphanIsReleased == \A d \in Drivers : Orphaned(d) ~> ~Orphaned(d)
=============================================================================
