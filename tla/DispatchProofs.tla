--------------------------- MODULE DispatchProofs ---------------------------
(***************************************************************************)
(* Theorems about Dispatch for every set of drivers, riders and requests:   *)
(* types, the commitments of drivers, what their statuses say, and the      *)
(* life cycle the requests follow.                                          *)
(***************************************************************************)
EXTENDS DispatchRefinement, TLAPS

-----------------------------------------------------------------------------
(* Type correctness.                                                        *)

LEMMA TypeInit == Init => TypeOK
  BY ConstantsAssumption DEF Init, TypeOK, Unborn, NoRide, DriverStatus, RequestStatus, RideStatus,
         HoldStatus

\* The rows the matching sweep leaves behind are rows of the tables.
LEMMA SweptType ==
  ASSUME TypeOK, NEW S \in SUBSET LapsedMatches
  PROVE  /\ SweptRequests(S) \in [Requests -> [status : RequestStatus,
                               driver : Drivers \cup {NoDriver},
                               window : {"none", "open", "passed"}]]
         /\ SweptDrivers(S) \in [Drivers -> DriverStatus]
  BY DEF TypeOK, SweptRequests, SweptDrivers, Searching, RequestStatus,
         DriverStatus

\* ... also after the lapsed match of the request itself has been undone.
LEMMA UndoneType ==
  ASSUME TypeOK, NEW r \in Requests, NEW S \in SUBSET LapsedMatches
  PROVE  /\ OwnMatchUndone(r, S).request \in
               [Requests -> [status : RequestStatus,
                             driver : Drivers \cup {NoDriver},
                             window : {"none", "open", "passed"}]]
         /\ OwnMatchUndone(r, S).driver \in [Drivers -> DriverStatus]
  BY SweptType DEF OwnMatchUndone, Searching, RequestStatus, DriverStatus

\* The money steps keep the accounts in Nat: held and balance are only
\* lowered by amounts they cover.
Accounts == [Users -> [balance : Nat, held : Nat]]

LEMMA RequestConstants ==
  ASSUME NEW r \in Requests
  PROVE  /\ RiderOf[r] \in Riders /\ RiderOf[r] \in Users
         /\ FareOf[r] \in Nat /\ FareOf[r] # 0
         /\ RiderOf[r] \notin Drivers
  BY ConstantsAssumption DEF Users

LEMMA PlaceHoldType ==
  ASSUME TypeOK, NEW r \in Requests, PlaceHold(r)
  PROVE  hold' \in [Requests -> HoldStatus] /\ wallet' \in Accounts
<1> DEFINE u == RiderOf[r]
<1>1. u \in Users /\ FareOf[r] \in Nat
  BY RequestConstants
<1>2. wallet \in Accounts /\ hold \in [Requests -> HoldStatus]
  BY DEF TypeOK, Accounts
<1>3. CASE hold[r] = "active"
  BY <1>2, <1>3 DEF PlaceHold
<1>4. CASE hold[r] # "active"
  <2>1. /\ hold' = [hold EXCEPT ![r] = "active"]
        /\ wallet' = [wallet EXCEPT ![u].held = wallet[u].held + FareOf[r]]
    BY <1>4 DEF PlaceHold
  <2>2. [wallet[u] EXCEPT !.held = wallet[u].held + FareOf[r]]
          \in [balance : Nat, held : Nat]
    BY <1>1, <1>2 DEF Accounts
  <2>3. wallet' \in Accounts
    BY <1>1, <1>2, <2>1, <2>2 DEF Accounts
  <2> QED BY <1>2, <2>1, <2>3 DEF HoldStatus
<1> QED BY <1>3, <1>4

LEMMA CaptureHoldType ==
  ASSUME TypeOK, NEW r \in Requests, CaptureHold(r)
  PROVE  hold' \in [Requests -> HoldStatus] /\ wallet' \in Accounts
<1> DEFINE u == RiderOf[r]
           d == ride[r].driver
           account == [balance |-> wallet[u].balance - FareOf[r],
                       held    |-> wallet[u].held - FareOf[r]]
           debited == [wallet EXCEPT ![u] = account]
<1>1. u \in Users /\ FareOf[r] \in Nat
  BY RequestConstants
<1>2. wallet \in Accounts /\ hold \in [Requests -> HoldStatus]
  BY DEF TypeOK, Accounts
<1>3. CASE UNCHANGED <<hold, wallet>>
  BY <1>2, <1>3
<1>4. CASE ~UNCHANGED <<hold, wallet>>
  <2>1. /\ wallet[u].held >= FareOf[r]
        /\ wallet[u].balance >= FareOf[r]
        /\ hold' = [hold EXCEPT ![r] = "captured"]
        /\ wallet' = [debited EXCEPT ![d].balance = debited[d].balance + FareOf[r]]
    BY <1>4 DEF CaptureHold
  <2>2. wallet[u].balance \in Nat /\ wallet[u].held \in Nat
    BY <1>1, <1>2 DEF Accounts
  <2>3. account \in [balance : Nat, held : Nat]
    BY <1>1, <2>1, <2>2
  <2>4. debited \in Accounts
    BY <1>2, <2>3 DEF Accounts
  <2>5. wallet' \in Accounts
    <3>1. CASE d \in Users
      <4>1. [debited[d] EXCEPT !.balance = debited[d].balance + FareOf[r]]
              \in [balance : Nat, held : Nat]
        BY <1>1, <2>4, <3>1 DEF Accounts
      <4> QED BY <2>1, <2>4, <3>1, <4>1 DEF Accounts
    <3>2. CASE d \notin Users
      BY <2>1, <2>4, <3>2 DEF Accounts
    <3> QED BY <3>1, <3>2
  <2> QED BY <1>2, <2>1, <2>5 DEF HoldStatus
<1> QED BY <1>3, <1>4

LEMMA ReleaseHoldType ==
  ASSUME TypeOK, NEW r \in Requests, ReleaseHold(r)
  PROVE  hold' \in [Requests -> HoldStatus] /\ wallet' \in Accounts
<1> DEFINE u == RiderOf[r]
           left == IF wallet[u].held >= FareOf[r]
                     THEN wallet[u].held - FareOf[r] ELSE 0
<1>1. u \in Users /\ FareOf[r] \in Nat
  BY RequestConstants
<1>2. wallet \in Accounts /\ hold \in [Requests -> HoldStatus]
  BY DEF TypeOK, Accounts
<1>3. CASE hold[r] = "active"
  <2>1. /\ hold' = [hold EXCEPT ![r] = "released"]
        /\ wallet' = [wallet EXCEPT ![u].held = left]
    BY <1>3 DEF ReleaseHold
  <2>2. [wallet[u] EXCEPT !.held = left] \in [balance : Nat, held : Nat]
    BY <1>1, <1>2 DEF Accounts
  <2>3. wallet' \in Accounts
    BY <1>1, <1>2, <2>1, <2>2 DEF Accounts
  <2> QED BY <1>2, <2>1, <2>3 DEF HoldStatus
<1>4. CASE hold[r] # "active"
  BY <1>2, <1>4 DEF ReleaseHold
<1> QED BY <1>3, <1>4

LEMMA SettleRideType ==
  ASSUME TypeOK, NEW r \in Requests, NEW to \in RideStatus, SettleRide(r, to)
  PROVE  /\ hold' \in [Requests -> HoldStatus]
         /\ wallet' \in Accounts
         /\ settlement' \in [Drivers -> Int]
         /\ paidOut' \in [Drivers -> Nat]
         /\ trips' \in [Drivers -> Nat]
<1>1. /\ wallet \in Accounts /\ hold \in [Requests -> HoldStatus]
      /\ settlement \in [Drivers -> Int]
      /\ paidOut \in [Drivers -> Nat]
      /\ trips \in [Drivers -> Nat]
  BY DEF TypeOK, Accounts
<1>2. CASE to \notin EndedRide /\ UNCHANGED moneyVars
  BY <1>1, <1>2 DEF moneyVars
<1>3. CASE to = "canceled"
  BY <1>1, <1>3, ReleaseHoldType DEF SettleRide, moneyVars
<1>4. CASE to = "completed"
  <2>1. hold' \in [Requests -> HoldStatus] /\ wallet' \in Accounts
    BY <1>1, <1>4, CaptureHoldType DEF SettleRide, EndedRide
  <2>2. settlement' \in [Drivers -> Int]
    BY <1>1, <1>4, ConstantsAssumption DEF SettleRide, EndedRide
  <2>3. trips' \in [Drivers -> Nat] /\ paidOut' = paidOut
    BY <1>1, <1>4 DEF SettleRide, EndedRide
  <2> QED BY <1>1, <2>1, <2>2, <2>3
<1> QED BY <1>2, <1>3, <1>4 DEF SettleRide

RideRow == [status  : RideStatus,
            version : Nat,
            driver  : Drivers \cup {NoDriver},
            pin     : {"off", "due", "verified"}]
Rides == [Requests -> RideRow]

LEMMA TransitionRideType ==
  ASSUME TypeOK, NEW r \in Requests, NEW to \in RideStatus,
         TransitionRide(r, to), stuck' \in [Requests -> Nat \cup {-1}],
         UNCHANGED stale
  PROVE  TypeOK'
<1>1. /\ driverStatus' \in [Drivers -> DriverStatus]
      /\ UNCHANGED <<appStatus, request>>
  BY DEF TypeOK, TransitionRide, DriverStatus
<1>3. ride' \in Rides
  <2>1. ride \in Rides /\ ride[r] \in RideRow
    BY DEF TypeOK, Rides, RideRow
  <2>2. ride' = [ride EXCEPT ![r] =
          [status |-> to, version |-> ride[r].version + 1,
           driver |-> ride[r].driver, pin |-> ride[r].pin]]
    BY DEF TransitionRide
  <2> QED BY <2>1, <2>2 DEF Rides, RideRow
<1>2. /\ hold' \in [Requests -> HoldStatus]
      /\ wallet' \in Accounts
      /\ settlement' \in [Drivers -> Int]
      /\ paidOut' \in [Drivers -> Nat]
      /\ trips' \in [Drivers -> Nat]
  BY SettleRideType DEF TransitionRide
<1> QED BY <1>1, <1>2, <1>3 DEF TypeOK, Accounts, Rides, RideRow

RequestRow == [status : RequestStatus,
               driver : Drivers \cup {NoDriver},
               window : {"none", "open", "passed"}]
RequestRows == [Requests -> RequestRow]

LEMMA RequestFieldType ==
  ASSUME TypeOK, NEW r \in Requests,
         \/ \E s \in RequestStatus :
              request' = [request EXCEPT ![r].status = s]
         \/ request' = [request EXCEPT ![r].window = "passed"]
  PROVE  request' \in RequestRows
<1>1. request \in RequestRows
  BY DEF TypeOK, RequestRows, RequestRow
<1>2. CASE \E s \in RequestStatus :
             request' = [request EXCEPT ![r].status = s]
  <2>1. PICK s \in RequestStatus : request' = [request EXCEPT ![r].status = s]
    BY <1>2
  <2> QED BY <1>1, <2>1 DEF RequestRows, RequestRow
<1>3. CASE request' = [request EXCEPT ![r].window = "passed"]
  BY <1>1, <1>3 DEF RequestRows, RequestRow
<1> QED BY <1>2, <1>3

LEMMA RequestStepType ==
  ASSUME TypeOK, NEW r \in Requests, RequestStep(r)
  PROVE  TypeOK'
<1> USE DEF TypeOK, rideVars, moneyVars
<1>1. CASE CreateRequest(r)
  BY <1>1 DEF CreateRequest, Searching, RequestStatus
<1>2. CASE CancelRequest(r)
  BY <1>2 DEF CancelRequest, Dropped, RequestStatus, DriverStatus
<1>3. ASSUME NEW S \in SUBSET LapsedMatches, MatchReturnsEarly(r, S)
      PROVE  TypeOK'
  BY <1>3, SweptType DEF MatchReturnsEarly
<1>4. ASSUME NEW S \in SUBSET LapsedMatches, MatchRide(r, S)
      PROVE  TypeOK'
  <2> DEFINE u == OwnMatchUndone(r, S)
  <2>1. /\ u.request \in [Requests -> [status : RequestStatus,
                               driver : Drivers \cup {NoDriver},
                               window : {"none", "open", "passed"}]]
        /\ u.driver \in [Drivers -> DriverStatus]
    BY UndoneType
  <2>2. UNCHANGED <<appStatus, rideVars, stuck, stale>>
    BY <1>4 DEF MatchRide
  <2>3. CASE request' = u.request /\ driverStatus' = u.driver
    BY <2>1, <2>2, <2>3
  <2>4. ASSUME NEW d \in Drivers,
               request' = [u.request EXCEPT ![r] =
                 [status |-> "matched", driver |-> d, window |-> "open"]],
               driverStatus' = [u.driver EXCEPT ![d] = "reserved"]
        PROVE  TypeOK'
    BY <2>1, <2>2, <2>4 DEF RequestStatus, DriverStatus
  <2> QED BY <1>4, <2>3, <2>4 DEF MatchRide, Candidates
<1>5. CASE DeadlinePasses(r)
  <2>1. request' \in RequestRows
    BY <1>5, RequestFieldType DEF DeadlinePasses
  <2> QED BY <1>5, <2>1 DEF DeadlinePasses, RequestRows, RequestRow
<1> QED BY <1>1, <1>2, <1>3, <1>4, <1>5 DEF RequestStep

LEMMA RideStepType ==
  ASSUME TypeOK, NEW r \in Requests, RideStep(r)
  PROVE  TypeOK'
<1>1. CASE AcceptRide(r)
  <2> DEFINE d == request[r].driver
             row == [status  |-> IF ride[r].status = "none" THEN "assigned"
                                                            ELSE ride[r].status,
                     version |-> ride[r].version,
                     driver  |-> d,
                     pin     |-> IF RiderOf[r] \in PinRequired THEN "due"
                                                               ELSE "off"]
  <2>1. hold' \in [Requests -> HoldStatus] /\ wallet' \in Accounts
    BY <1>1, PlaceHoldType DEF AcceptRide, TypeOK, Accounts
  <2>2. request' \in RequestRows
    BY <1>1, RequestFieldType DEF AcceptRide, RequestStatus
  <2>3. ride' = [ride EXCEPT ![r] = row]
    BY <1>1 DEF AcceptRide
  <2>4. ride' \in Rides
    BY <2>3 DEF TypeOK, Rides, RideRow, RideStatus
  <2>5. driverStatus' \in [Drivers -> DriverStatus]
    BY <1>1 DEF AcceptRide, TypeOK, DriverStatus
  <2>6. paidOut' \in [Drivers -> Nat]
    BY <1>1 DEF AcceptRide, TypeOK
  <2> QED BY <1>1, <2>1, <2>2, <2>4, <2>5, <2>6
          DEF AcceptRide, TypeOK, Accounts, Rides, RideRow, RequestRows,
              RequestRow
<1>2. ASSUME NEW to \in RideStatus, UserTransition(r, to) PROVE TypeOK'
  BY <1>2, TransitionRideType DEF UserTransition, TypeOK
<1>3. CASE VerifyPin(r)
  <2>1. ride' \in Rides
    BY <1>3 DEF VerifyPin, TypeOK, Rides, RideRow
  <2>2. UNCHANGED <<driverStatus, appStatus, request, hold, wallet, settlement,
                    paidOut, trips, stuck, stale>>
    BY <1>3 DEF VerifyPin, moneyVars
  <2> QED BY <2>1, <2>2 DEF TypeOK, Rides, RideRow
<1> QED BY <1>1, <1>2, <1>3 DEF RideStep

LEMMA DriverStepType ==
  ASSUME TypeOK, NEW d \in Drivers, DriverStep(d)
  PROVE  TypeOK'
<1> USE DEF TypeOK, rideVars, moneyVars
<1>1. CASE ToggleAvailability(d)
  BY <1>1 DEF ToggleAvailability, DriverStatus
<1>2. CASE RefreshApp(d)
  BY <1>2 DEF RefreshApp, Shown
<1>3. ASSUME NEW to \in AdminTargets, AdminTransitionDriver(d, to)
      PROVE  TypeOK'
  BY <1>3, ConstantsAssumption DEF AdminTransitionDriver, DriverStatus
<1>4. ASSUME NEW n \in ReceiptAmounts, RecordReceipt(d, n) PROVE TypeOK'
  BY <1>4, ConstantsAssumption DEF RecordReceipt
<1>5. ASSUME NEW n \in PayoutAmounts, RecordPayout(d, n) PROVE TypeOK'
  BY <1>5, ConstantsAssumption DEF RecordPayout
<1> QED BY <1>1, <1>2, <1>3, <1>4, <1>5 DEF DriverStep

LEMMA JobStepType ==
  ASSUME TypeOK, JobStep
  PROVE  TypeOK'
<1> USE DEF TypeOK, rideVars, moneyVars
<1>1. ASSUME NEW S \in SUBSET LapsedMatches, ExpireMatched(S) PROVE TypeOK'
  BY <1>1, SweptType DEF ExpireMatched
<1>2. ASSUME NEW R \in SUBSET Requests, ReadStuckRides(R) PROVE TypeOK'
  BY <1>2 DEF ReadStuckRides
<1>3. ASSUME NEW r \in Requests, CancelStuckRide(r) PROVE TypeOK'
  BY <1>3, TransitionRideType DEF CancelStuckRide, RideStatus
<1>4. ASSUME NEW r \in Requests, SkipStuckRide(r) PROVE TypeOK'
  BY <1>4 DEF SkipStuckRide
<1>5. CASE (\E D \in SUBSET Drivers : SelectStaleDrivers(D)) \/ MarkStaleOffline
  BY <1>5 DEF SelectStaleDrivers, MarkStaleOffline, DriverStatus
<1>6. ASSUME NEW D \in SUBSET StuckReserved, ReleaseStuckReserved(D)
      PROVE  TypeOK'
  BY <1>6 DEF ReleaseStuckReserved, DriverStatus
<1> QED BY <1>1, <1>2, <1>3, <1>4, <1>5, <1>6 DEF JobStep

LEMMA TypeStep == TypeOK /\ [Next]_vars => TypeOK'
<1> SUFFICES ASSUME TypeOK, [Next]_vars PROVE TypeOK'
  OBVIOUS
<1>1. CASE Next
  BY <1>1, RequestStepType, RideStepType, DriverStepType, JobStepType DEF Next
<1>2. CASE UNCHANGED vars
  BY <1>2 DEF TypeOK, vars
<1> QED BY <1>1, <1>2

(* The tables keep their types: no step leaves an enum, a foreign key or the *)
(* CHECK (balance_iqd >= 0), CHECK (held_iqd >= 0) of wallet_accounts.       *)
THEOREM TypeCorrect == Spec => []TypeOK
  BY TypeInit, TypeStep, PTL DEF Spec
-----------------------------------------------------------------------------
(* The commitments of drivers.                                              *)
(*                                                                          *)
(* OneCommitment is not inductive as it stands: accepting a request is only *)
(* harmless when the request has no ride yet, and the candidate query is    *)
(* only sound when an active ride and its request name the same driver.     *)
(* RideIffAccepted says both, RowsAgree ties the columns of a request row   *)
(* together.                                                                *)

RowsAgree ==
  \A r \in Requests :
    IF request[r].status \in {"matched", "accepted"}
      THEN request[r].driver \in Drivers /\ request[r].window # "none"
      ELSE request[r].driver = NoDriver /\ request[r].window = "none"

CommitmentInv == TypeOK /\ RowsAgree /\ RideIffAccepted /\ OneCommitment

\* req differs from the request table only by matches that are taken back
Loosened(req) ==
  /\ req \in [Requests -> [status : RequestStatus,
                           driver : Drivers \cup {NoDriver},
                           window : {"none", "open", "passed"}]]
  /\ \A q \in Requests :
       \/ req[q] = request[q]
       \/ request[q].status = "matched" /\ req[q] = Searching

LEMMA SweptLoosened ==
  ASSUME TypeOK, NEW S \in SUBSET LapsedMatches
  PROVE  Loosened(SweptRequests(S))
  BY SweptType DEF Loosened, SweptRequests, LapsedMatches, Lapsed

LEMMA UndoneLoosened ==
  ASSUME TypeOK, NEW r \in Requests, NEW S \in SUBSET LapsedMatches
  PROVE  Loosened(OwnMatchUndone(r, S).request)
<1> DEFINE req == SweptRequests(S)
<1>1. Loosened(req)
  BY SweptLoosened
<1>2. CASE Lapsed(req, r)
  <2>1. OwnMatchUndone(r, S).request = [req EXCEPT ![r] = Searching]
    BY <1>2 DEF OwnMatchUndone
  <2>2. request[r].status = "matched"
    BY <1>1, <1>2 DEF Loosened, Lapsed, Searching
  <2> QED BY <1>1, <2>1, <2>2, UndoneType DEF Loosened
<1>3. CASE ~Lapsed(req, r)
  BY <1>1, <1>3 DEF OwnMatchUndone
<1> QED BY <1>2, <1>3

LEMMA LooseningSafe ==
  ASSUME CommitmentInv, TypeOK', Loosened(request'), UNCHANGED ride
  PROVE  CommitmentInv'
<1>1. RowsAgree'
  BY DEF CommitmentInv, RowsAgree, Loosened, Searching
<1>2. RideIffAccepted'
  BY DEF CommitmentInv, RideIffAccepted, Loosened, Searching
<1>3. OneCommitment'
  BY DEF CommitmentInv, OneCommitment, RideIffAccepted, Loosened, Searching,
         Committed, NoRide, ActiveRide
<1> QED BY <1>1, <1>2, <1>3 DEF CommitmentInv

\* A candidate is committed to no request.
LEMMA CandidateFree ==
  ASSUME CommitmentInv, NEW r \in Requests,
         NEW req, Loosened(req), NEW drv, NEW d \in Candidates(r, req, drv),
         NEW q \in Requests,
         req[q].status = "matched" \/ ride[q].status \in ActiveRide
  PROVE  req[q].driver # d
<1>1. CASE req[q].status = "matched"
  BY <1>1 DEF Candidates, HasMatchRow
<1>2. CASE ride[q].status \in ActiveRide
  <2>1. request[q].status = "accepted" /\ ride[q].driver = request[q].driver
    BY <1>2 DEF CommitmentInv, RideIffAccepted, NoRide, ActiveRide
  <2>2. req[q] = request[q]
    BY <2>1 DEF Loosened
  <2> QED BY <1>2, <2>1, <2>2 DEF Candidates, HasActiveRide
<1> QED BY <1>1, <1>2

LEMMA MatchRideSafe ==
  ASSUME CommitmentInv, TypeOK', NEW r \in Requests,
         NEW S \in SUBSET LapsedMatches, MatchRide(r, S)
  PROVE  CommitmentInv'
<1> DEFINE req == OwnMatchUndone(r, S).request
           drv == OwnMatchUndone(r, S).driver
<1>1. Loosened(req) /\ req[r].status = "requested" /\ UNCHANGED ride
  BY UndoneLoosened DEF MatchRide, CommitmentInv, rideVars
<1>2. CASE request' = req
  BY <1>1, <1>2, LooseningSafe
<1>3. ASSUME NEW d \in Candidates(r, req, drv),
             request' = [req EXCEPT ![r] =
               [status |-> "matched", driver |-> d, window |-> "open"]]
      PROVE  CommitmentInv'
  <2>1. ASSUME NEW q \in Requests, q # r
        PROVE  request'[q] = req[q]
    BY <1>1, <1>3, <2>1 DEF Loosened
  <2>2. /\ request'[r] = [status |-> "matched", driver |-> d,
                          window |-> "open"]
        /\ d \in Drivers
    BY <1>1, <1>3 DEF Loosened, Candidates
  <2>3. ride[r] = NoRide
    BY <1>1 DEF CommitmentInv, RideIffAccepted, Loosened, Searching
  <2>4. RowsAgree'
    BY <1>1, <2>1, <2>2
       DEF CommitmentInv, RowsAgree, Loosened, Searching
  <2>5. RideIffAccepted'
    BY <1>1, <2>1, <2>2, <2>3
       DEF CommitmentInv, RideIffAccepted, Loosened, Searching
  <2>6. ASSUME NEW q \in Requests, q # r, Committed(q)'
        PROVE  /\ request'[q].driver # d
               /\ Committed(q) /\ request'[q].driver = request[q].driver
    <3>1. req[q].status = "matched" \/ ride[q].status \in ActiveRide
      BY <1>1, <2>1, <2>6 DEF Committed
    <3>2. req[q].driver # d
      BY <1>1, <3>1, CandidateFree
    <3>3. req[q] = request[q]
      BY <1>1, <3>1 DEF CommitmentInv, RideIffAccepted, Loosened, Searching,
                        NoRide, ActiveRide
    <3> QED BY <2>1, <2>6, <3>1, <3>2, <3>3 DEF Committed
  <2>7. OneCommitment'
    BY <2>2, <2>6 DEF CommitmentInv, OneCommitment
  <2> QED BY <2>4, <2>5, <2>7 DEF CommitmentInv
<1> QED BY <1>2, <1>3 DEF MatchRide

\* A ride that moves on stays with its request and its driver.
LEMMA TransitionRideSafe ==
  ASSUME CommitmentInv, TypeOK', NEW r \in Requests, NEW to \in RideStatus,
         TransitionRide(r, to)
  PROVE  CommitmentInv'
<1>1. /\ ride' = [ride EXCEPT ![r] =
            [status |-> to, version |-> ride[r].version + 1,
             driver |-> ride[r].driver, pin |-> ride[r].pin]]
      /\ ride \in Rides
      /\ UNCHANGED request
      /\ ride[r].status \in ActiveRide /\ to # "none"
  BY DEF TransitionRide, RideTransitions, ActiveRide, CommitmentInv, TypeOK,
         Rides, RideRow
<1>2. /\ ride'[r].status = to /\ ride'[r].driver = ride[r].driver
      /\ \A q \in Requests : q # r => ride'[q] = ride[q]
  BY <1>1 DEF Rides
<1>3. request[r].status = "accepted"
  BY <1>1 DEF CommitmentInv, RideIffAccepted, NoRide, ActiveRide
<1>4. RowsAgree'
  BY <1>1 DEF CommitmentInv, RowsAgree
<1>5. RideIffAccepted'
  BY <1>1, <1>2, <1>3 DEF CommitmentInv, RideIffAccepted
<1>6. OneCommitment'
  BY <1>1, <1>2 DEF CommitmentInv, OneCommitment, Committed
<1> QED BY <1>4, <1>5, <1>6 DEF CommitmentInv

LEMMA AcceptRideSafe ==
  ASSUME CommitmentInv, TypeOK', NEW r \in Requests, AcceptRide(r)
  PROVE  CommitmentInv'
<1>1. /\ request[r].status = "matched"
      /\ request'[r].status = "accepted"
      /\ request'[r].driver = request[r].driver
      /\ request'[r].window = request[r].window
      /\ \A q \in Requests : q # r => request'[q] = request[q]
  BY DEF AcceptRide, CommitmentInv, TypeOK
<1>2. ride[r] = NoRide
  BY <1>1 DEF CommitmentInv, RideIffAccepted
<1>3. /\ ride'[r].status = "assigned"
      /\ ride'[r].driver = request[r].driver
      /\ \A q \in Requests : q # r => ride'[q] = ride[q]
  BY <1>2 DEF AcceptRide, CommitmentInv, TypeOK, NoRide
<1>4. RowsAgree'
  BY <1>1 DEF CommitmentInv, RowsAgree
<1>5. RideIffAccepted'
  BY <1>1, <1>3 DEF CommitmentInv, RideIffAccepted
<1>6. OneCommitment'
  BY <1>1, <1>3 DEF CommitmentInv, OneCommitment, Committed
<1> QED BY <1>4, <1>5, <1>6 DEF CommitmentInv

LEMMA RequestStepSafe ==
  ASSUME CommitmentInv, TypeOK', NEW r \in Requests, RequestStep(r)
  PROVE  CommitmentInv'
<1> USE DEF CommitmentInv, rideVars
<1>1. ASSUME NEW row \in {Searching, Dropped},
             request' = [request EXCEPT ![r] = row], UNCHANGED ride,
             request[r].status # "accepted"
      PROVE  CommitmentInv'
  <2>1. /\ request'[r] = row
        /\ \A q \in Requests : q # r => request'[q] = request[q]
    BY <1>1 DEF TypeOK
  <2>2. ride[r] = NoRide
    BY <1>1 DEF RideIffAccepted
  <2>3. RowsAgree'
    BY <1>1, <2>1 DEF RowsAgree, Searching, Dropped
  <2>4. RideIffAccepted'
    BY <1>1, <2>1, <2>2 DEF RideIffAccepted, Searching, Dropped
  <2>5. OneCommitment'
    BY <1>1, <2>1, <2>2
       DEF OneCommitment, Committed, Searching, Dropped, NoRide, ActiveRide
  <2> QED BY <2>3, <2>4, <2>5
<1>2. CASE CreateRequest(r)
  BY <1>1, <1>2 DEF CreateRequest
<1>3. CASE CancelRequest(r)
  BY <1>1, <1>3 DEF CancelRequest
<1>4. ASSUME NEW S \in SUBSET LapsedMatches, MatchReturnsEarly(r, S)
      PROVE  CommitmentInv'
  BY <1>4, SweptLoosened, LooseningSafe DEF MatchReturnsEarly
<1>5. ASSUME NEW S \in SUBSET LapsedMatches, MatchRide(r, S)
      PROVE  CommitmentInv'
  BY <1>5, MatchRideSafe
<1>6. CASE DeadlinePasses(r)
  <2>1. /\ request'[r].status = request[r].status
        /\ request'[r].driver = request[r].driver
        /\ request[r].window # "none" /\ request'[r].window # "none"
        /\ \A q \in Requests : q # r => request'[q] = request[q]
        /\ UNCHANGED ride
    BY <1>6 DEF DeadlinePasses, TypeOK
  <2> QED BY <2>1 DEF RowsAgree, RideIffAccepted, OneCommitment, Committed
<1> QED BY <1>2, <1>3, <1>4, <1>5, <1>6 DEF RequestStep

LEMMA QuietSafe ==
  ASSUME CommitmentInv, TypeOK', UNCHANGED <<request, ride>>
  PROVE  CommitmentInv'
  BY DEF CommitmentInv, RowsAgree, RideIffAccepted, OneCommitment, Committed

LEMMA OtherStepSafe ==
  ASSUME CommitmentInv, TypeOK',
         \/ \E r \in Requests : RideStep(r)
         \/ \E d \in Drivers : DriverStep(d)
         \/ JobStep
  PROVE  CommitmentInv'
<1> USE DEF rideVars
<1>1. ASSUME NEW r \in Requests, AcceptRide(r) PROVE CommitmentInv'
  BY <1>1, AcceptRideSafe
<1>2. ASSUME NEW r \in Requests, NEW to \in RideStatus, UserTransition(r, to)
      PROVE  CommitmentInv'
  BY <1>2, TransitionRideSafe DEF UserTransition
<1>3. ASSUME NEW r \in Requests, VerifyPin(r) PROVE CommitmentInv'
  <2>1. /\ ride'[r].status = ride[r].status
        /\ ride'[r].driver = ride[r].driver
        /\ ride[r].pin = "due"
        /\ \A q \in Requests : q # r => ride'[q] = ride[q]
        /\ UNCHANGED request
    BY <1>3 DEF VerifyPin, CommitmentInv, TypeOK
  <2>2. ride[r] # NoRide
    BY <2>1 DEF NoRide
  <2> QED BY <2>1, <2>2 DEF CommitmentInv, RowsAgree, RideIffAccepted,
                            OneCommitment, Committed
<1>4. ASSUME NEW d \in Drivers, DriverStep(d) PROVE CommitmentInv'
  BY <1>4, QuietSafe DEF DriverStep, ToggleAvailability, RefreshApp,
                         AdminTransitionDriver, RecordReceipt,
                         RecordPayout
<1>5. ASSUME NEW S \in SUBSET LapsedMatches, ExpireMatched(S)
      PROVE  CommitmentInv'
  BY <1>5, SweptLoosened, LooseningSafe DEF ExpireMatched, CommitmentInv
<1>6. ASSUME NEW r \in Requests, CancelStuckRide(r) PROVE CommitmentInv'
  BY <1>6, TransitionRideSafe DEF CancelStuckRide, RideStatus
<1>7. ASSUME \/ \E R \in SUBSET Requests : ReadStuckRides(R)
             \/ \E r \in Requests : SkipStuckRide(r)
             \/ \E D \in SUBSET Drivers : SelectStaleDrivers(D)
             \/ MarkStaleOffline
             \/ \E D \in SUBSET StuckReserved : ReleaseStuckReserved(D)
      PROVE  CommitmentInv'
  BY <1>7, QuietSafe DEF ReadStuckRides, SkipStuckRide, SelectStaleDrivers,
         MarkStaleOffline,
                         ReleaseStuckReserved
<1> QED BY <1>1, <1>2, <1>3, <1>4, <1>5, <1>6, <1>7 DEF RideStep, JobStep

LEMMA CommitmentInit == Init => CommitmentInv
  BY TypeInit DEF Init, CommitmentInv, RowsAgree, RideIffAccepted,
                  OneCommitment, Committed, Unborn, NoRide, ActiveRide

LEMMA CommitmentStep == CommitmentInv /\ [Next]_vars => CommitmentInv'
<1> SUFFICES ASSUME CommitmentInv, [Next]_vars PROVE CommitmentInv'
  OBVIOUS
<1>1. TypeOK'
  BY TypeStep DEF CommitmentInv
<1>2. CASE Next
  BY <1>1, <1>2, RequestStepSafe, OtherStepSafe DEF Next
<1>3. CASE UNCHANGED vars
  BY <1>1, <1>3, QuietSafe DEF vars
<1> QED BY <1>2, <1>3

(* No driver is ever tied to two requests at once, however matching, the     *)
(* sweeps, the button, the administrators and the job interleave.            *)
THEOREM OneCommitmentHolds == Spec => []OneCommitment
<1>1. CommitmentInv => OneCommitment
  BY DEF CommitmentInv
<1> QED BY <1>1, CommitmentInit, CommitmentStep, PTL DEF Spec

(* A ride exists exactly for an accepted request, with the offered driver.   *)
THEOREM RideIffAcceptedHolds == Spec => []RideIffAccepted
<1>1. CommitmentInv => RideIffAccepted
  BY DEF CommitmentInv
<1> QED BY <1>1, CommitmentInit, CommitmentStep, PTL DEF Spec
-----------------------------------------------------------------------------
(* A driver with a live match is not available.                             *)

LiveInv == CommitmentInv /\ LiveMatchNotAvailable

Live(req, q) == req[q].status = "matched" /\ req[q].window = "open"

\* no live match of req has an available driver
Guarded(req, drv) ==
  \A q \in Requests : Live(req, q) => drv[req[q].driver] # "available"

\* Every step but a new match only takes live matches away, and makes a
\* driver available only without one.
LEMMA LiveKept ==
  ASSUME LiveInv, CommitmentInv',
         \A q \in Requests : Live(request', q) =>
            Live(request, q) /\ request'[q].driver = request[q].driver,
         \A d \in Drivers : driverStatus'[d] = "available" =>
            driverStatus[d] = "available" \/ ~HasLiveMatch(request', d)
  PROVE  LiveInv'
<1> SUFFICES ASSUME NEW q \in Requests, Live(request', q)
             PROVE  driverStatus'[request'[q].driver] # "available"
  BY DEF LiveInv, LiveMatchNotAvailable, Live
<1>1. request'[q].driver \in Drivers
  BY DEF Live, CommitmentInv, RowsAgree
<1>2. HasLiveMatch(request', request'[q].driver)
  BY DEF HasLiveMatch, Live
<1>3. driverStatus[request'[q].driver] # "available"
  BY DEF LiveInv, LiveMatchNotAvailable, Live
<1> QED BY <1>1, <1>2, <1>3

LEMMA SweptGuarded ==
  ASSUME LiveInv, NEW S \in SUBSET LapsedMatches
  PROVE  Guarded(SweptRequests(S), SweptDrivers(S))
<1> SUFFICES ASSUME NEW q \in Requests, Live(SweptRequests(S), q)
             PROVE  SweptDrivers(S)[SweptRequests(S)[q].driver] # "available"
  BY DEF Guarded
<1> DEFINE d == request[q].driver
<1>1. SweptRequests(S)[q] = request[q]
  BY DEF SweptRequests, Live, Searching
<1>2. d \in Drivers /\ driverStatus[d] # "available"
  BY <1>1 DEF LiveInv, LiveMatchNotAvailable, CommitmentInv, RowsAgree, Live
<1>3. HasLiveMatch(SweptRequests(S), d)
  BY <1>1 DEF HasLiveMatch, Live
<1> QED BY <1>1, <1>2, <1>3 DEF SweptDrivers

LEMMA UndoneGuarded ==
  ASSUME LiveInv, NEW r \in Requests, NEW S \in SUBSET LapsedMatches,
         OwnMatchUndone(r, S).ok
  PROVE  Guarded(OwnMatchUndone(r, S).request, OwnMatchUndone(r, S).driver)
<1> DEFINE req == SweptRequests(S)
           drv == SweptDrivers(S)
           d   == req[r].driver
<1>1. Guarded(req, drv) /\ Loosened(req) /\ drv \in [Drivers -> DriverStatus]
  BY SweptGuarded, SweptLoosened, SweptType DEF LiveInv, CommitmentInv
<1>2. CASE Lapsed(req, r)
  <2>1. /\ MayMove(drv, req, d, "available")
        /\ OwnMatchUndone(r, S).request = [req EXCEPT ![r] = Searching]
        /\ OwnMatchUndone(r, S).driver = [drv EXCEPT ![d] = "available"]
    BY <1>2 DEF OwnMatchUndone
  <2>2. ASSUME NEW q \in Requests, Live([req EXCEPT ![r] = Searching], q)
        PROVE  q # r /\ Live(req, q)
               /\ [req EXCEPT ![r] = Searching][q] = req[q]
    BY <1>1, <2>2 DEF Live, Searching, Loosened
  <2>3. ASSUME NEW q \in Requests, Live(req, q)
        PROVE  req[q].driver # d
    <3>1. SUFFICES ASSUME req[q].driver = d PROVE FALSE
      OBVIOUS
    <3>2. drv[d] # "available"
      BY <1>1, <2>3, <3>1 DEF Guarded
    <3>3. HasLiveMatch(req, d)
      BY <2>3, <3>1 DEF HasLiveMatch, Live
    <3> QED BY <2>1, <3>2, <3>3 DEF MayMove
  <2>4. ASSUME NEW q \in Requests, Live(req, q)
        PROVE  req[q].driver \in Drivers
    BY <1>1, <2>4 DEF Loosened, Live, Searching, LiveInv, CommitmentInv,
                      RowsAgree
  <2>5. ASSUME NEW q \in Requests, Live(OwnMatchUndone(r, S).request, q)
        PROVE  OwnMatchUndone(r, S).driver
                 [OwnMatchUndone(r, S).request[q].driver] # "available"
    <3>1. Live(req, q) /\ OwnMatchUndone(r, S).request[q] = req[q]
      BY <2>1, <2>2, <2>5
    <3> QED BY <1>1, <2>1, <2>3, <2>4, <3>1 DEF Guarded
  <2> QED BY <2>5 DEF Guarded
<1>3. CASE ~Lapsed(req, r)
  BY <1>1, <1>3 DEF OwnMatchUndone
<1> QED BY <1>2, <1>3

LEMMA MatchRideLive ==
  ASSUME LiveInv, CommitmentInv', NEW r \in Requests,
         NEW S \in SUBSET LapsedMatches, MatchRide(r, S)
  PROVE  LiveInv'
<1> DEFINE req == OwnMatchUndone(r, S).request
           drv == OwnMatchUndone(r, S).driver
<1>1. /\ Guarded(req, drv)
      /\ req \in [Requests -> [status : RequestStatus,
                               driver : Drivers \cup {NoDriver},
                               window : {"none", "open", "passed"}]]
      /\ drv \in [Drivers -> DriverStatus]
  BY UndoneGuarded, UndoneType DEF MatchRide, LiveInv, CommitmentInv
<1>2. CASE request' = req /\ driverStatus' = drv
  BY <1>1, <1>2 DEF Guarded, Live, LiveInv, LiveMatchNotAvailable
<1>3. ASSUME NEW d \in Candidates(r, req, drv),
             request' = [req EXCEPT ![r] =
               [status |-> "matched", driver |-> d, window |-> "open"]],
             driverStatus' = [drv EXCEPT ![d] = "reserved"]
      PROVE  LiveInv'
  <2>1. /\ request'[r].driver = d /\ driverStatus'[d] = "reserved"
        /\ \A q \in Requests : q # r => request'[q] = req[q]
        /\ \A e \in Drivers : e # d => driverStatus'[e] = drv[e]
        /\ d \in Drivers
    BY <1>1, <1>3 DEF Candidates
  <2>2. \A q \in Requests : Live(request', q) => request'[q].driver \in Drivers
    BY DEF Live, CommitmentInv, RowsAgree
  <2>3. ASSUME NEW q \in Requests, Live(request', q)
        PROVE  driverStatus'[request'[q].driver] # "available"
    BY <1>1, <2>1, <2>2, <2>3 DEF Guarded, Live
  <2> QED BY <2>3 DEF LiveInv, LiveMatchNotAvailable, Live
<1> QED BY <1>2, <1>3 DEF MatchRide

LEMMA SweptLive ==
  ASSUME LiveInv, CommitmentInv', NEW S \in SUBSET LapsedMatches,
         request' = SweptRequests(S), driverStatus' = SweptDrivers(S)
  PROVE  LiveInv'
  BY SweptGuarded DEF Guarded, Live, LiveInv, LiveMatchNotAvailable

LEMMA TransitionRideLive ==
  ASSUME LiveInv, CommitmentInv', NEW r \in Requests, NEW to \in RideStatus,
         TransitionRide(r, to)
  PROVE  LiveInv'
<1>1. \A d \in Drivers : driverStatus'[d] = "available" =>
        driverStatus[d] = "available" \/ ~HasLiveMatch(request, d)
  BY DEF TransitionRide, MayMove, LiveInv, CommitmentInv, TypeOK
<1>2. UNCHANGED request
  BY DEF TransitionRide
<1> QED BY <1>1, <1>2, LiveKept

LEMMA LiveStep == LiveInv /\ [Next]_vars => LiveInv'
<1> SUFFICES ASSUME LiveInv, [Next]_vars PROVE LiveInv'
  OBVIOUS
<1>1. CommitmentInv'
  BY CommitmentStep DEF LiveInv
<1> USE DEF rideVars
<1>2. TypeOK
  BY DEF LiveInv, CommitmentInv
<1>3. ASSUME NEW r \in Requests, CreateRequest(r) PROVE LiveInv'
  BY <1>1, <1>2, <1>3, LiveKept
     DEF CreateRequest, Live, Searching, TypeOK, HasLiveMatch
<1>4. ASSUME NEW r \in Requests, CancelRequest(r) PROVE LiveInv'
  <2>1. /\ \A q \in Requests : q # r => request'[q] = request[q]
        /\ request'[r] = Dropped
    BY <1>2, <1>4 DEF CancelRequest, TypeOK
  <2>2. \A d \in Drivers : driverStatus'[d] = "available" =>
          driverStatus[d] = "available" \/ ~HasLiveMatch(request', d)
    BY <1>4 DEF CancelRequest
  <2> QED BY <1>1, <2>1, <2>2, LiveKept DEF Live, Dropped
<1>5. ASSUME NEW r \in Requests, NEW S \in SUBSET LapsedMatches,
             MatchReturnsEarly(r, S)
      PROVE  LiveInv'
  BY <1>1, <1>5, SweptLive DEF MatchReturnsEarly
<1>6. ASSUME NEW r \in Requests, NEW S \in SUBSET LapsedMatches,
             MatchRide(r, S)
      PROVE  LiveInv'
  BY <1>1, <1>6, MatchRideLive
<1>7. ASSUME NEW r \in Requests, DeadlinePasses(r) PROVE LiveInv'
  BY <1>1, <1>2, <1>7, LiveKept DEF DeadlinePasses, Live, TypeOK
<1>8. ASSUME NEW r \in Requests, AcceptRide(r) PROVE LiveInv'
  BY <1>1, <1>2, <1>8, LiveKept DEF AcceptRide, Live, TypeOK
<1>9. ASSUME NEW r \in Requests, NEW to \in RideStatus, UserTransition(r, to)
      PROVE  LiveInv'
  BY <1>1, <1>9, TransitionRideLive DEF UserTransition
<1>10. ASSUME NEW r \in Requests, VerifyPin(r) PROVE LiveInv'
  BY <1>1, <1>10, LiveKept DEF VerifyPin
<1>11. ASSUME NEW d \in Drivers, ToggleAvailability(d) PROVE LiveInv'
  BY <1>1, <1>2, <1>11, LiveKept DEF ToggleAvailability, TypeOK
<1>12. ASSUME NEW d \in Drivers, RefreshApp(d) PROVE LiveInv'
  BY <1>1, <1>12, LiveKept DEF RefreshApp
<1>13. ASSUME NEW d \in Drivers, NEW to \in AdminTargets,
              AdminTransitionDriver(d, to)
       PROVE  LiveInv'
  BY <1>1, <1>2, <1>13, LiveKept DEF AdminTransitionDriver, MayMove, TypeOK
<1>14. ASSUME NEW d \in Drivers,
              \/ \E n \in ReceiptAmounts : RecordReceipt(d, n)
              \/ \E n \in PayoutAmounts : RecordPayout(d, n)
       PROVE  LiveInv'
  BY <1>1, <1>14, LiveKept DEF RecordReceipt, RecordPayout
<1>15. ASSUME NEW S \in SUBSET LapsedMatches, ExpireMatched(S) PROVE LiveInv'
  BY <1>1, <1>15, SweptLive DEF ExpireMatched
<1>16. ASSUME NEW R \in SUBSET Requests, ReadStuckRides(R) PROVE LiveInv'
  BY <1>1, <1>16, LiveKept DEF ReadStuckRides
<1>17. ASSUME NEW r \in Requests, CancelStuckRide(r) PROVE LiveInv'
  BY <1>1, <1>17, TransitionRideLive DEF CancelStuckRide, RideStatus
<1>18. ASSUME NEW r \in Requests, SkipStuckRide(r) PROVE LiveInv'
  BY <1>1, <1>18, LiveKept DEF SkipStuckRide
<1>19. CASE (\E D \in SUBSET Drivers : SelectStaleDrivers(D)) \/ MarkStaleOffline
  BY <1>1, <1>2, <1>19, LiveKept DEF SelectStaleDrivers, MarkStaleOffline,
                                     TypeOK
<1>20. ASSUME NEW D \in SUBSET StuckReserved, ReleaseStuckReserved(D)
       PROVE  LiveInv'
  <2>1. \A d \in D : ~HasLiveMatch(request, d)
    BY DEF StuckReserved, HasMatchRow, HasLiveMatch
  <2> QED BY <1>1, <1>20, <2>1, LiveKept DEF ReleaseStuckReserved
<1>21. CASE UNCHANGED vars
  BY <1>1, <1>21, LiveKept DEF vars
<1> QED BY <1>3, <1>4, <1>5, <1>6, <1>7, <1>8, <1>9, <1>10, <1>11, <1>12,
           <1>13, <1>14, <1>15, <1>16, <1>17, <1>18, <1>19, <1>20, <1>21
        DEF Next, RequestStep, RideStep, DriverStep, JobStep

LEMMA LiveInit == Init => LiveInv
  BY CommitmentInit DEF Init, LiveInv, LiveMatchNotAvailable, Unborn

(* Nobody, the stale availability button and the administrators included,    *)
(* makes a driver available who has a live match: the trigger and the guard  *)
(* of transition_driver leave no way round.                                  *)
THEOREM LiveMatchNotAvailableHolds == Spec => []LiveMatchNotAvailable
<1>1. LiveInv => LiveMatchNotAvailable
  BY DEF LiveInv
<1> QED BY <1>1, LiveInit, LiveStep, PTL DEF Spec

-----------------------------------------------------------------------------
(* A reserved driver has a match row, unless an administrator may reserve.  *)

ReservedInv == CommitmentInv /\ ReservedHasMatch

\* every driver who is reserved in drv has a match row in req
Explained(req, drv) ==
  \A d \in Drivers : drv[d] = "reserved" => HasMatchRow(req, d)

\* A step that touches no match row and reserves nobody.
LEMMA ReservedKept ==
  ASSUME ReservedInv, CommitmentInv',
         \A q \in Requests : request[q].status = "matched" =>
            /\ request'[q].status = "matched"
            /\ request'[q].driver = request[q].driver,
         \A d \in Drivers : driverStatus'[d] = "reserved"
                              => driverStatus[d] = "reserved"
  PROVE  ReservedInv'
  BY DEF ReservedInv, ReservedHasMatch, HasMatchRow

LEMMA SweptExplained ==
  ASSUME ReservedInv, NEW S \in SUBSET LapsedMatches
  PROVE  Explained(SweptRequests(S), SweptDrivers(S))
<1> SUFFICES ASSUME NEW d \in Drivers, SweptDrivers(S)[d] = "reserved"
             PROVE  HasMatchRow(SweptRequests(S), d)
  BY DEF Explained
<1>1. driverStatus[d] = "reserved"
  BY DEF SweptDrivers
<1>2. PICK q \in Requests : request[q].driver = d /\ request[q].status = "matched"
  BY <1>1 DEF ReservedInv, ReservedHasMatch, HasMatchRow
<1>3. CASE q \notin S
  BY <1>2, <1>3 DEF SweptRequests, HasMatchRow
<1>4. CASE q \in S
  <2>1. ~HasActiveRide(d)
    <3>1. ASSUME NEW p \in Requests, ride[p].driver = d,
                 ride[p].status \in ActiveRide
          PROVE  FALSE
      <4>1. request[p].status = "accepted" /\ request[p].driver = d
        BY <3>1 DEF ReservedInv, CommitmentInv, RideIffAccepted, NoRide,
                    ActiveRide
      <4> QED BY <1>2, <3>1, <4>1
              DEF ReservedInv, CommitmentInv, OneCommitment, Committed
    <3> QED BY <3>1 DEF HasActiveRide
  <2>2. HasLiveMatch(SweptRequests(S), d)
    BY <1>1, <1>2, <1>4, <2>1 DEF SweptDrivers
  <2> QED BY <2>2 DEF HasLiveMatch, HasMatchRow
<1> QED BY <1>3, <1>4

LEMMA UndoneExplained ==
  ASSUME ReservedInv, NEW r \in Requests, NEW S \in SUBSET LapsedMatches
  PROVE  Explained(OwnMatchUndone(r, S).request, OwnMatchUndone(r, S).driver)
<1> DEFINE req == SweptRequests(S)
           drv == SweptDrivers(S)
<1>1. /\ Explained(req, drv)
      /\ Loosened(req)
      /\ drv \in [Drivers -> DriverStatus]
  BY SweptExplained, SweptLoosened, SweptType DEF ReservedInv, CommitmentInv
<1>2. CASE Lapsed(req, r)
  <2>1. /\ OwnMatchUndone(r, S).request = [req EXCEPT ![r] = Searching]
        /\ OwnMatchUndone(r, S).driver =
             [drv EXCEPT ![req[r].driver] = "available"]
    BY <1>2 DEF OwnMatchUndone
  <2>2. ASSUME NEW d \in Drivers, OwnMatchUndone(r, S).driver[d] = "reserved"
        PROVE  HasMatchRow(OwnMatchUndone(r, S).request, d)
    <3>1. d # req[r].driver /\ drv[d] = "reserved"
      BY <1>1, <2>1, <2>2
    <3>2. PICK q \in Requests : req[q].driver = d /\ req[q].status = "matched"
      BY <1>1, <3>1 DEF Explained, HasMatchRow
    <3> QED BY <1>1, <2>1, <3>1, <3>2 DEF HasMatchRow, Loosened
  <2> QED BY <2>2 DEF Explained
<1>3. CASE ~Lapsed(req, r)
  BY <1>1, <1>3 DEF OwnMatchUndone
<1> QED BY <1>2, <1>3

LEMMA MatchRideReserved ==
  ASSUME ReservedInv, CommitmentInv', NEW r \in Requests,
         NEW S \in SUBSET LapsedMatches, MatchRide(r, S)
  PROVE  ReservedInv'
<1> DEFINE req == OwnMatchUndone(r, S).request
           drv == OwnMatchUndone(r, S).driver
<1>1. /\ Explained(req, drv)
      /\ Loosened(req)
      /\ req[r].status = "requested"
      /\ drv \in [Drivers -> DriverStatus]
  BY UndoneExplained, UndoneLoosened, UndoneType
     DEF MatchRide, ReservedInv, CommitmentInv
<1>2. CASE request' = req /\ driverStatus' = drv
  BY <1>1, <1>2 DEF Explained, ReservedInv, ReservedHasMatch, HasMatchRow
<1>3. ASSUME NEW d \in Candidates(r, req, drv),
             request' = [req EXCEPT ![r] =
               [status |-> "matched", driver |-> d, window |-> "open"]],
             driverStatus' = [drv EXCEPT ![d] = "reserved"]
      PROVE  ReservedInv'
  <2>1. /\ request'[r].driver = d /\ request'[r].status = "matched"
        /\ \A q \in Requests : q # r => request'[q] = req[q]
        /\ \A e \in Drivers : e # d => driverStatus'[e] = drv[e]
    BY <1>1, <1>3 DEF Loosened
  <2>2. ASSUME NEW e \in Drivers, driverStatus'[e] = "reserved"
        PROVE  HasMatchRow(request', e)
    <3>1. CASE e = d
      BY <2>1, <3>1 DEF HasMatchRow
    <3>2. CASE e # d
      BY <1>1, <2>1, <2>2, <3>2 DEF Explained, HasMatchRow
    <3> QED BY <3>1, <3>2
  <2> QED BY <2>2 DEF ReservedInv, ReservedHasMatch, HasMatchRow
<1> QED BY <1>2, <1>3 DEF MatchRide

LEMMA SweptReserved ==
  ASSUME ReservedInv, CommitmentInv', NEW S \in SUBSET LapsedMatches,
         request' = SweptRequests(S), driverStatus' = SweptDrivers(S)
  PROVE  ReservedInv'
  BY SweptExplained DEF Explained, ReservedInv, ReservedHasMatch, HasMatchRow

LEMMA CancelRequestReserved ==
  ASSUME ReservedInv, CommitmentInv', NEW r \in Requests, CancelRequest(r)
  PROVE  ReservedInv'
<1>1. \A q \in Requests : q # r => request'[q] = request[q]
  BY DEF CancelRequest, ReservedInv, CommitmentInv, TypeOK
<1>2. ASSUME NEW d \in Drivers, driverStatus'[d] = "reserved"
      PROVE  HasMatchRow(request', d)
  <2>1. /\ driverStatus[d] = "reserved"
        /\ ~(request[r].status = "matched" /\ request[r].driver = d)
    BY <1>2 DEF CancelRequest
  <2>2. PICK q \in Requests : request[q].driver = d
                              /\ request[q].status = "matched"
    BY <2>1 DEF ReservedInv, ReservedHasMatch, HasMatchRow
  <2> QED BY <1>1, <2>1, <2>2 DEF HasMatchRow
<1> QED BY <1>2 DEF ReservedInv, ReservedHasMatch, HasMatchRow

LEMMA AcceptRideReserved ==
  ASSUME ReservedInv, CommitmentInv', NEW r \in Requests, AcceptRide(r)
  PROVE  ReservedInv'
<1> DEFINE d == request[r].driver
<1>1. /\ \A q \in Requests : q # r => request'[q] = request[q]
      /\ driverStatus' = [driverStatus EXCEPT ![d] = "on_trip"]
  BY DEF AcceptRide, ReservedInv, CommitmentInv, TypeOK
<1>2. ASSUME NEW e \in Drivers, driverStatus'[e] = "reserved"
      PROVE  HasMatchRow(request', e)
  <2>1. driverStatus[e] = "reserved" /\ e # d
    BY <1>1, <1>2 DEF ReservedInv, CommitmentInv, TypeOK
  <2>2. PICK q \in Requests : request[q].driver = e
                              /\ request[q].status = "matched"
    BY <2>1 DEF ReservedInv, ReservedHasMatch, HasMatchRow
  <2> QED BY <1>1, <2>1, <2>2 DEF HasMatchRow
<1> QED BY <1>2 DEF ReservedInv, ReservedHasMatch, HasMatchRow

LEMMA TransitionRideReserved ==
  ASSUME ReservedInv, CommitmentInv', NEW r \in Requests,
         NEW to \in RideStatus, TransitionRide(r, to)
  PROVE  ReservedInv'
  BY ReservedKept DEF TransitionRide, ReservedInv, CommitmentInv, TypeOK

LEMMA ReservedStep ==
  ASSUME "reserved" \notin AdminTargets
  PROVE  ReservedInv /\ [Next]_vars => ReservedInv'
<1> SUFFICES ASSUME ReservedInv, [Next]_vars PROVE ReservedInv'
  OBVIOUS
<1>1. CommitmentInv'
  BY CommitmentStep DEF ReservedInv
<1>2. TypeOK
  BY DEF ReservedInv, CommitmentInv
<1>3. ASSUME NEW r \in Requests, CreateRequest(r) PROVE ReservedInv'
  BY <1>1, <1>2, <1>3, ReservedKept DEF CreateRequest, TypeOK
<1>4. ASSUME NEW r \in Requests, CancelRequest(r) PROVE ReservedInv'
  BY <1>1, <1>4, CancelRequestReserved
<1>5. ASSUME NEW r \in Requests, NEW S \in SUBSET LapsedMatches,
             MatchReturnsEarly(r, S)
      PROVE  ReservedInv'
  BY <1>1, <1>5, SweptReserved DEF MatchReturnsEarly
<1>6. ASSUME NEW r \in Requests, NEW S \in SUBSET LapsedMatches,
             MatchRide(r, S)
      PROVE  ReservedInv'
  BY <1>1, <1>6, MatchRideReserved
<1>7. ASSUME NEW r \in Requests, DeadlinePasses(r) PROVE ReservedInv'
  BY <1>1, <1>2, <1>7, ReservedKept DEF DeadlinePasses, TypeOK
<1>8. ASSUME NEW r \in Requests, AcceptRide(r) PROVE ReservedInv'
  BY <1>1, <1>8, AcceptRideReserved
<1>9. ASSUME NEW r \in Requests, NEW to \in RideStatus, UserTransition(r, to)
      PROVE  ReservedInv'
  BY <1>1, <1>9, TransitionRideReserved DEF UserTransition
<1>10. ASSUME NEW r \in Requests, VerifyPin(r) PROVE ReservedInv'
  BY <1>1, <1>10, ReservedKept DEF VerifyPin
<1>11. ASSUME NEW d \in Drivers, DriverStep(d) PROVE ReservedInv'
  <2>1. UNCHANGED request
    BY <1>11 DEF DriverStep, ToggleAvailability, RefreshApp,
                 AdminTransitionDriver, RecordReceipt,
                 RecordPayout
  <2>2. \A e \in Drivers : driverStatus'[e] = "reserved"
                             => driverStatus[e] = "reserved"
    BY <1>2, <1>11 DEF DriverStep, ToggleAvailability, RefreshApp,
                       AdminTransitionDriver, RecordReceipt,
                       RecordPayout, TypeOK
  <2> QED BY <1>1, <2>1, <2>2, ReservedKept
<1>12. ASSUME NEW S \in SUBSET LapsedMatches, ExpireMatched(S)
       PROVE  ReservedInv'
  BY <1>1, <1>12, SweptReserved DEF ExpireMatched
<1>13. ASSUME NEW R \in SUBSET Requests, ReadStuckRides(R) PROVE ReservedInv'
  BY <1>1, <1>13, ReservedKept DEF ReadStuckRides
<1>14. ASSUME NEW r \in Requests, CancelStuckRide(r) PROVE ReservedInv'
  BY <1>1, <1>14, TransitionRideReserved DEF CancelStuckRide, RideStatus
<1>15. ASSUME NEW r \in Requests, SkipStuckRide(r) PROVE ReservedInv'
  BY <1>1, <1>15, ReservedKept DEF SkipStuckRide
<1>16. CASE (\E D \in SUBSET Drivers : SelectStaleDrivers(D)) \/ MarkStaleOffline
  BY <1>1, <1>16, ReservedKept DEF SelectStaleDrivers, MarkStaleOffline
<1>17. ASSUME NEW D \in SUBSET StuckReserved, ReleaseStuckReserved(D)
       PROVE  ReservedInv'
  BY <1>1, <1>17, ReservedKept DEF ReleaseStuckReserved
<1>18. CASE UNCHANGED vars
  BY <1>1, <1>18, ReservedKept DEF vars
<1> QED BY <1>3, <1>4, <1>5, <1>6, <1>7, <1>8, <1>9, <1>10, <1>11, <1>12,
           <1>13, <1>14, <1>15, <1>16, <1>17, <1>18
        DEF Next, RequestStep, RideStep, JobStep

LEMMA ReservedInit == Init => ReservedInv
  BY CommitmentInit DEF Init, ReservedInv, ReservedHasMatch

(* As long as administrators do not set "reserved" themselves (the console's *)
(* form does not), no interleaving leaves a driver reserved without a match: *)
(* the job's sweep for such drivers finds nothing.                           *)
THEOREM ReservedHasMatchHolds ==
  ASSUME "reserved" \notin AdminTargets
  PROVE  Spec => []ReservedHasMatch
<1>1. ReservedInv => ReservedHasMatch
  BY DEF ReservedInv
<1> QED BY <1>1, ReservedInit, ReservedStep, PTL DEF Spec

-----------------------------------------------------------------------------
(* expire-rides and its list: an entry never runs ahead of its ride, and an  *)
(* entry that is up to date is for a ride whose trip has not started.        *)

ListInv ==
  /\ CommitmentInv
  /\ \A r \in Requests :
       /\ stuck[r] <= ride[r].version
       /\ stuck[r] = ride[r].version => ride[r].status \in {"none", "assigned",
                                                            "arrived"}

\* An entry has just been read, dropped, or is as it was.
LEMMA ListKept ==
  ASSUME ListInv, CommitmentInv',
         \A r \in Requests :
           /\ ride'[r].version = ride[r].version
           /\ ride'[r].status = ride[r].status
              \/ ride'[r].status \in {"assigned", "arrived"}
           /\ \/ stuck'[r] = stuck[r]
              \/ stuck'[r] = -1
              \/ /\ stuck'[r] = ride[r].version
                 /\ ride'[r].status \in {"assigned", "arrived"}
  PROVE  ListInv'
<1>1. \A r \in Requests : ride[r].version \in Nat /\ stuck[r] \in Nat \cup {-1}
  BY DEF ListInv, CommitmentInv, TypeOK
<1> QED BY <1>1 DEF ListInv

LEMMA TransitionRideList ==
  ASSUME ListInv, CommitmentInv', NEW r \in Requests, NEW to \in RideStatus,
         TransitionRide(r, to),
         stuck' = stuck \/ stuck' = [stuck EXCEPT ![r] = -1]
  PROVE  ListInv'
<1>1. /\ ride'[r].version = ride[r].version + 1
      /\ \A q \in Requests : q # r => ride'[q] = ride[q]
      /\ \A q \in Requests : ride[q].version \in Nat
                             /\ stuck[q] \in Nat \cup {-1}
  BY DEF TransitionRide, ListInv, CommitmentInv, TypeOK
<1>2. stuck'[r] <= ride[r].version
      /\ \A q \in Requests : q # r => stuck'[q] = stuck[q]
  BY <1>1 DEF ListInv, CommitmentInv, TypeOK
<1>3. stuck'[r] \in Nat \cup {-1}
  BY DEF CommitmentInv, TypeOK
<1> QED BY <1>1, <1>2, <1>3 DEF ListInv

LEMMA ListStep == ListInv /\ [Next]_vars => ListInv'
<1> SUFFICES ASSUME ListInv, [Next]_vars PROVE ListInv'
  OBVIOUS
<1>1. CommitmentInv' /\ TypeOK
  BY CommitmentStep DEF ListInv, CommitmentInv
<1> USE DEF rideVars
<1>2. ASSUME NEW r \in Requests, RequestStep(r) PROVE ListInv'
  BY <1>1, <1>2, ListKept
     DEF RequestStep, CreateRequest, CancelRequest, MatchReturnsEarly,
         MatchRide, DeadlinePasses
<1>3. ASSUME NEW r \in Requests, AcceptRide(r) PROVE ListInv'
  <2>1. ride[r] = NoRide
    BY <1>3 DEF ListInv, CommitmentInv, RideIffAccepted, AcceptRide
  <2>2. /\ ride'[r].status = "assigned"
        /\ ride'[r].version = ride[r].version
        /\ \A q \in Requests : q # r => ride'[q] = ride[q]
        /\ UNCHANGED stuck
    BY <1>1, <1>3, <2>1 DEF AcceptRide, NoRide, TypeOK
  <2> QED BY <1>1, <2>2, ListKept
<1>4. ASSUME NEW r \in Requests, NEW to \in RideStatus, UserTransition(r, to)
      PROVE  ListInv'
  BY <1>1, <1>4, TransitionRideList DEF UserTransition
<1>5. ASSUME NEW r \in Requests, VerifyPin(r) PROVE ListInv'
  <2>1. \A q \in Requests : /\ ride'[q].version = ride[q].version
                            /\ ride'[q].status = ride[q].status
    BY <1>1, <1>5 DEF VerifyPin, TypeOK
  <2> QED BY <1>1, <1>5, <2>1, ListKept DEF VerifyPin
<1>6. ASSUME NEW d \in Drivers, DriverStep(d) PROVE ListInv'
  BY <1>1, <1>6, ListKept DEF DriverStep, ToggleAvailability, RefreshApp,
                              AdminTransitionDriver, RecordReceipt,
                              RecordPayout
<1>7. ASSUME NEW R \in SUBSET Requests, ReadStuckRides(R) PROVE ListInv'
  BY <1>1, <1>7, ListKept DEF ReadStuckRides
<1>8. ASSUME NEW r \in Requests, CancelStuckRide(r) PROVE ListInv'
  BY <1>1, <1>8, TransitionRideList DEF CancelStuckRide, RideStatus
<1>9. ASSUME NEW r \in Requests, SkipStuckRide(r) PROVE ListInv'
  BY <1>1, <1>9, ListKept DEF SkipStuckRide, TypeOK
<1>10. ASSUME \/ \E S \in SUBSET LapsedMatches : ExpireMatched(S)
              \/ \E D \in SUBSET Drivers : SelectStaleDrivers(D)
             \/ MarkStaleOffline
              \/ \E D \in SUBSET StuckReserved : ReleaseStuckReserved(D)
       PROVE  ListInv'
  BY <1>1, <1>10, ListKept DEF ExpireMatched, SelectStaleDrivers, MarkStaleOffline,
                               ReleaseStuckReserved
<1>11. CASE UNCHANGED vars
  BY <1>1, <1>11, ListKept DEF vars
<1> QED BY <1>2, <1>3, <1>4, <1>5, <1>6, <1>7, <1>8, <1>9, <1>10, <1>11
        DEF Next, RideStep, JobStep

LEMMA ListInit == Init => ListInv
  BY CommitmentInit DEF Init, ListInv, NoRide

(* What the job cancels has not started: the version it read protects a ride *)
(* the driver has moved on in the meantime.                                  *)
THEOREM JobSparesStartedRidesHolds == Spec => JobSparesStartedRides
<1>1. ASSUME ListInv, [Next]_vars
      PROVE  [\A r \in Requests :
                stuck[r] # -1 /\ stuck'[r] = -1 /\ ride'[r] # ride[r]
                  => ride[r].status \in {"assigned", "arrived"}]_vars
  <2> SUFFICES ASSUME Next, NEW r \in Requests,
                      stuck[r] # -1, stuck'[r] = -1, ride'[r] # ride[r]
               PROVE  ride[r].status \in {"assigned", "arrived"}
    BY <1>1 DEF vars
  <2>1. PICK q \in Requests : CancelStuckRide(q)
    BY DEF Next, RequestStep, RideStep, DriverStep, JobStep, rideVars,
           CreateRequest, CancelRequest, MatchReturnsEarly, MatchRide,
           DeadlinePasses, AcceptRide, UserTransition, VerifyPin,
           ToggleAvailability, RefreshApp, AdminTransitionDriver,
           RecordReceipt, RecordPayout,
           ExpireMatched, ReadStuckRides, SkipStuckRide, SelectStaleDrivers,
           MarkStaleOffline, ReleaseStuckReserved
  <2>2. q = r
    BY <1>1, <2>1 DEF CancelStuckRide, TransitionRide, ListInv, CommitmentInv,
                      TypeOK
  <2>3. ride[r].version = stuck[r] /\ ride[r].status # "none"
    BY <2>1, <2>2 DEF CancelStuckRide, TransitionRide, RideTransitions,
                      ActiveRide
  <2> QED BY <1>1, <2>3 DEF ListInv
<1> QED BY <1>1, ListInit, ListStep, PTL DEF Spec, JobSparesStartedRides

-----------------------------------------------------------------------------
(* A driver on a trip.                                                      *)

\* the driver of a ride under way has no other ride and no match
LEMMA RideIsOnlyCommitment ==
  ASSUME CommitmentInv, NEW d \in Drivers, NEW q \in Requests,
         ride[q].driver = d, ride[q].status \in ActiveRide,
         NEW r \in Requests, r # q
  PROVE  /\ ~(request[r].status = "matched" /\ request[r].driver = d)
         /\ ~(ride[r].status \in ActiveRide /\ ride[r].driver = d)
<1>1. request[q].driver = d /\ Committed(q)
  BY DEF CommitmentInv, RideIffAccepted, NoRide, ActiveRide, Committed
<1>2. ride[r].status \in ActiveRide => request[r].driver = ride[r].driver
  BY DEF CommitmentInv, RideIffAccepted, NoRide, ActiveRide
<1> QED BY <1>1, <1>2 DEF CommitmentInv, OneCommitment, Committed

LEMMA RequestStepOnTrip ==
  ASSUME CommitmentInv, NEW d \in Drivers, driverStatus[d] = "on_trip",
         HasActiveRide(d), NEW r \in Requests, RequestStep(r)
  PROVE  driverStatus'[d] = "on_trip"
<1>1. PICK q \in Requests : ride[q].driver = d /\ ride[q].status \in ActiveRide
  BY DEF HasActiveRide
<1>2. /\ request[q].status = "accepted"
      /\ ~(request[r].status = "matched" /\ request[r].driver = d)
  BY <1>1, RideIsOnlyCommitment
     DEF CommitmentInv, RideIffAccepted, NoRide, ActiveRide
<1>3. CASE CancelRequest(r)
  BY <1>3 DEF CancelRequest
<1>4. ASSUME NEW S \in SUBSET LapsedMatches, MatchReturnsEarly(r, S)
      PROVE  driverStatus'[d] = "on_trip"
  BY <1>4 DEF MatchReturnsEarly, SweptDrivers
<1>5. ASSUME NEW S \in SUBSET LapsedMatches, MatchRide(r, S)
      PROVE  driverStatus'[d] = "on_trip"
  <2> DEFINE drv == OwnMatchUndone(r, S).driver
             req == OwnMatchUndone(r, S).request
  <2>1. drv[d] = "on_trip" /\ drv \in [Drivers -> DriverStatus]
    <3>1. SweptDrivers(S)[d] = "on_trip"
      BY DEF SweptDrivers
    <3>2. CASE Lapsed(SweptRequests(S), r)
      <4>1. SweptRequests(S)[r] = request[r] /\ request[r].status = "matched"
        BY <3>2, SweptLoosened
           DEF Loosened, Lapsed, Searching, CommitmentInv
      <4>2. SweptRequests(S)[r].driver # d
        BY <1>2, <4>1
      <4>3. drv = [SweptDrivers(S) EXCEPT
                     ![SweptRequests(S)[r].driver] = "available"]
        BY <3>2 DEF OwnMatchUndone
      <4> QED BY <3>1, <4>2, <4>3, SweptType, UndoneType DEF CommitmentInv
    <3>3. CASE ~Lapsed(SweptRequests(S), r)
      BY <3>1, <3>3, UndoneType DEF OwnMatchUndone, CommitmentInv
    <3> QED BY <3>2, <3>3
  <2>2. CASE driverStatus' = drv
    BY <2>1, <2>2
  <2>3. ASSUME NEW e \in Candidates(r, req, drv),
               driverStatus' = [drv EXCEPT ![e] = "reserved"]
        PROVE  driverStatus'[d] = "on_trip"
    BY <2>1, <2>3 DEF Candidates
  <2> QED BY <1>5, <2>2, <2>3 DEF MatchRide
<1>6. CASE CreateRequest(r) \/ DeadlinePasses(r)
  BY <1>6 DEF CreateRequest, DeadlinePasses
<1> QED BY <1>3, <1>4, <1>5, <1>6 DEF RequestStep

LEMMA TransitionRideOnTrip ==
  ASSUME CommitmentInv, NEW d \in Drivers, driverStatus[d] = "on_trip",
         HasActiveRide(d)', NEW r \in Requests, NEW to \in RideStatus,
         TransitionRide(r, to)
  PROVE  driverStatus'[d] = "on_trip"
<1>1. /\ ride'[r].status = to
      /\ ride[r].status \in ActiveRide
      /\ \A q \in Requests : q # r => ride'[q] = ride[q]
      /\ driverStatus \in [Drivers -> DriverStatus]
  BY DEF TransitionRide, RideTransitions, ActiveRide, CommitmentInv, TypeOK
<1>2. PICK q \in Requests :
        ride'[q].driver = d /\ ride'[q].status \in ActiveRide
  BY DEF HasActiveRide
<1>3. CASE to \in EndedRide
  <2>1. q # r /\ ride[q].driver = d /\ ride[q].status \in ActiveRide
    BY <1>1, <1>2, <1>3 DEF ActiveRide, EndedRide
  <2>2. ride[r].driver # d
    BY <1>1, <2>1, RideIsOnlyCommitment
  <2> QED BY <1>1, <2>2 DEF TransitionRide
<1>4. CASE to \notin EndedRide
  BY <1>4 DEF TransitionRide
<1> QED BY <1>3, <1>4

(* Once a driver is on a trip only the availability button, administrators  *)
(* and a late stale sweep take the driver off it before the ride ends.      *)
THEOREM OnTripIsKeptHolds == Spec => OnTripIsKept
<1>1. ASSUME CommitmentInv, [Next]_vars
      PROVE  [\A d \in Drivers :
                driverStatus[d] = "on_trip" /\ HasActiveRide(d)
                  /\ HasActiveRide(d)'
                => \/ driverStatus'[d] = "on_trip"
                   \/ ToggleAvailability(d)
                   \/ d \in stale /\ MarkStaleOffline
                   \/ \E to \in AdminTargets : AdminTransitionDriver(d, to)]_vars
  <2> SUFFICES ASSUME Next, NEW d \in Drivers, driverStatus[d] = "on_trip",
                      HasActiveRide(d), HasActiveRide(d)',
                      ~ToggleAvailability(d),
                      ~(d \in stale /\ MarkStaleOffline),
                      ~\E to \in AdminTargets : AdminTransitionDriver(d, to)
               PROVE  driverStatus'[d] = "on_trip"
    BY <1>1 DEF vars
  <2>1. TypeOK
    BY <1>1 DEF CommitmentInv
  <2>2. ASSUME NEW r \in Requests, RequestStep(r)
        PROVE  driverStatus'[d] = "on_trip"
    BY <1>1, <2>2, RequestStepOnTrip
  <2>3. ASSUME NEW r \in Requests, RideStep(r)
        PROVE  driverStatus'[d] = "on_trip"
    <3>1. CASE AcceptRide(r)
      BY <2>1, <3>1 DEF AcceptRide, TypeOK
    <3>2. ASSUME NEW to \in RideStatus, UserTransition(r, to)
          PROVE  driverStatus'[d] = "on_trip"
      BY <1>1, <3>2, TransitionRideOnTrip DEF UserTransition
    <3>3. CASE VerifyPin(r)
      BY <3>3 DEF VerifyPin
    <3> QED BY <2>3, <3>1, <3>2, <3>3 DEF RideStep
  <2>4. ASSUME NEW e \in Drivers, DriverStep(e)
        PROVE  driverStatus'[d] = "on_trip"
    BY <2>1, <2>4 DEF DriverStep, ToggleAvailability, RefreshApp,
                      AdminTransitionDriver, RecordReceipt,
                      RecordPayout, TypeOK
  <2>5. ASSUME NEW r \in Requests, CancelStuckRide(r)
        PROVE  driverStatus'[d] = "on_trip"
    BY <1>1, <2>5, TransitionRideOnTrip DEF CancelStuckRide, RideStatus
  <2>6. ASSUME \/ \E S \in SUBSET LapsedMatches : ExpireMatched(S)
               \/ \E R \in SUBSET Requests : ReadStuckRides(R)
               \/ \E r \in Requests : SkipStuckRide(r)
               \/ \E D \in SUBSET Drivers : SelectStaleDrivers(D)
               \/ MarkStaleOffline
               \/ \E D \in SUBSET StuckReserved : ReleaseStuckReserved(D)
        PROVE  driverStatus'[d] = "on_trip"
    BY <2>1, <2>6 DEF ExpireMatched, SweptDrivers, ReadStuckRides,
                      SkipStuckRide, SelectStaleDrivers, MarkStaleOffline,
                      ReleaseStuckReserved, StuckReserved, TypeOK
  <2> QED BY <2>2, <2>3, <2>4, <2>5, <2>6 DEF Next, JobStep
<1> QED BY <1>1, CommitmentInit, CommitmentStep, PTL DEF Spec, OnTripIsKept
-----------------------------------------------------------------------------
(* Dispatch implements RideLifecycle.                                        *)

Phases   == [r \in Requests |-> PhaseOf(request[r], ride[r])]
Partners == [r \in Requests |-> request[r].driver]

LEMMA CasesOfPhase ==
  ASSUME NEW req, NEW rid
  PROVE  /\ rid.status \in ActiveRide => PhaseOf(req, rid) = "riding"
         /\ rid.status \in EndedRide => PhaseOf(req, rid) = rid.status
         /\ rid.status \notin ActiveRide \cup EndedRide =>
              /\ req.status = "matched" => PhaseOf(req, rid) = "offered"
              /\ req.status = "requested" => PhaseOf(req, rid) = "searching"
              /\ req.status = "cancelled" => PhaseOf(req, rid) = "dropped"
              /\ req.status \notin {"matched", "requested", "cancelled"}
                   => PhaseOf(req, rid) = "none"
<1>1. CASE rid.status \in ActiveRide
  BY <1>1 DEF PhaseOf, ActiveRide, EndedRide
<1>2. CASE rid.status \in EndedRide
  BY <1>2 DEF PhaseOf, ActiveRide, EndedRide
<1>3. CASE rid.status \notin ActiveRide \cup EndedRide
  BY <1>3 DEF PhaseOf, ActiveRide, EndedRide
<1> QED BY <1>1, <1>2, <1>3

\* In a state of Dispatch a request without a ride has the phase its own
\* row says.
LEMMA PhaseOfRequest ==
  ASSUME CommitmentInv, NEW r \in Requests
  PROVE  /\ request[r].status = "none"      => Phases[r] = "none"
         /\ request[r].status = "requested" => Phases[r] = "searching"
         /\ request[r].status = "matched"   => Phases[r] = "offered"
         /\ request[r].status = "cancelled" => Phases[r] = "dropped"
         /\ ride[r].status \in ActiveRide   => Phases[r] = "riding"
         /\ Phases[r] \in {"offered", "riding"} => Committed(r)
<1>1. request[r].status # "accepted" => ride[r].status = "none"
  BY DEF CommitmentInv, RideIffAccepted, NoRide
<1>2. Phases[r] = PhaseOf(request[r], ride[r])
  BY DEF Phases
<1>3. ride[r].status \in RideStatus /\ request[r].status \in RequestStatus
  BY DEF CommitmentInv, TypeOK
<1> QED BY <1>1, <1>2, <1>3, CasesOfPhase
        DEF Committed, ActiveRide, EndedRide, RideStatus, RequestStatus

LEMMA RefinesInit == Init => Lifecycle!LifecycleInit
<1> SUFFICES ASSUME Init PROVE Lifecycle!LifecycleInit
  OBVIOUS
<1>1. \A r \in Requests : PhaseOf(request[r], ride[r]) = "none"
  BY CasesOfPhase DEF Init, Unborn, NoRide, ActiveRide, EndedRide
<1>2. \A r \in Requests : request[r].driver = NoDriver
  BY DEF Init, Unborn
<1> QED BY <1>1, <1>2 DEF Lifecycle!LifecycleInit

\* What a step looks like through the mapping.
LEMMA SamePhases ==
  ASSUME CommitmentInv, UNCHANGED <<request, ride>>
  PROVE  UNCHANGED <<Phases, Partners>>
  BY DEF Phases, Partners

\* Taking matches back is withdrawing offers.
LEMMA LoosenedWithdraws ==
  ASSUME CommitmentInv, NEW req, Loosened(req)
  PROVE  \E S \in SUBSET Requests :
           /\ \A q \in S : Phases[q] = "offered"
           /\ \A q \in Requests :
                /\ PhaseOf(req[q], ride[q]) =
                     IF q \in S THEN "searching" ELSE Phases[q]
                /\ req[q].driver = IF q \in S THEN NoDriver ELSE Partners[q]
                /\ q \notin S => req[q] = request[q]
<1> DEFINE S == {q \in Requests : req[q] # request[q]}
<1>1. ASSUME NEW q \in S
      PROVE  /\ Phases[q] = "offered"
             /\ req[q].driver = NoDriver
             /\ PhaseOf(req[q], ride[q]) = "searching"
  <2>1. request[q].status = "matched" /\ req[q] = Searching
    BY DEF Loosened
  <2>2. ride[q] = NoRide
    BY <2>1 DEF CommitmentInv, RideIffAccepted
  <2> QED BY <2>1, <2>2, PhaseOfRequest
          DEF PhaseOf, Searching, NoRide, ActiveRide, EndedRide
<1>2. ASSUME NEW q \in Requests, q \notin S
      PROVE  /\ PhaseOf(req[q], ride[q]) = Phases[q]
             /\ req[q].driver = Partners[q]
             /\ req[q] = request[q]
  BY <1>2 DEF Phases, Partners
<1> WITNESS S \in SUBSET Requests
<1> QED BY <1>1, <1>2

LEMMA LooseningImplements ==
  ASSUME CommitmentInv, Loosened(request'), UNCHANGED ride
  PROVE  Lifecycle!LifecycleNext
<1>1. PICK S \in SUBSET Requests :
           /\ \A q \in S : Phases[q] = "offered"
           /\ \A q \in Requests :
                /\ PhaseOf(request'[q], ride[q]) =
                     IF q \in S THEN "searching" ELSE Phases[q]
                /\ request'[q].driver = IF q \in S THEN NoDriver ELSE Partners[q]
  BY LoosenedWithdraws
<1>2. Lifecycle!Withdraw(S)
  BY <1>1 DEF Lifecycle!Withdraw, Lifecycle!Withdrawn, Lifecycle!Unpaired,
              Phases, Partners
<1> QED BY <1>2 DEF Lifecycle!LifecycleNext

LEMMA MatchRideImplements ==
  ASSUME CommitmentInv, NEW r \in Requests, NEW S \in SUBSET LapsedMatches,
         MatchRide(r, S)
  PROVE  Lifecycle!LifecycleNext
<1> DEFINE req == OwnMatchUndone(r, S).request
           drv == OwnMatchUndone(r, S).driver
<1>1. /\ Loosened(req) /\ req[r].status = "requested" /\ UNCHANGED ride
      /\ req \in [Requests -> [status : RequestStatus,
                               driver : Drivers \cup {NoDriver},
                               window : {"none", "open", "passed"}]]
  BY UndoneLoosened, UndoneType DEF MatchRide, CommitmentInv, rideVars
<1>2. CASE request' = req
  BY <1>1, <1>2, LooseningImplements
<1>3. ASSUME NEW d \in Candidates(r, req, drv),
             request' = [req EXCEPT ![r] =
               [status |-> "matched", driver |-> d, window |-> "open"]]
      PROVE  Lifecycle!LifecycleNext
  <2>1. PICK W \in SUBSET Requests :
           /\ \A q \in W : Phases[q] = "offered"
           /\ \A q \in Requests :
                /\ PhaseOf(req[q], ride[q]) =
                     IF q \in W THEN "searching" ELSE Phases[q]
                /\ req[q].driver = IF q \in W THEN NoDriver ELSE Partners[q]
                /\ q \notin W => req[q] = request[q]
    BY <1>1, LoosenedWithdraws
  <2>2. ride[r].status = "none"
    BY <1>1 DEF CommitmentInv, RideIffAccepted, Loosened, Searching, NoRide
  <2>3. PhaseOf(req[r], ride[r]) = "searching"
    BY <1>1, <2>2 DEF PhaseOf, ActiveRide, EndedRide
  <2>4. ASSUME NEW q \in Requests \ W, Phases[q] \in {"offered", "riding"}
        PROVE  Partners[q] # d
    <3>1. /\ req[q] = request[q]
          /\ request[q].status = "matched" \/ ride[q].status \in ActiveRide
      BY <2>1, <2>4, PhaseOfRequest DEF Committed
    <3>2. req[q].driver # d
      BY <1>1, <3>1, CandidateFree
    <3> QED BY <3>1, <3>2 DEF Partners
  <2>5. /\ request'[r].status = "matched" /\ request'[r].driver = d
        /\ \A q \in Requests : q # r => request'[q] = req[q]
        /\ d \in Drivers
    BY <1>1, <1>3 DEF Candidates
  <2>6. PhaseOf(request'[r], ride'[r]) = "offered"
    BY <1>1, <2>2, <2>5 DEF PhaseOf, ActiveRide, EndedRide
  <2> DEFINE withdrawn == [q \in Requests |-> IF q \in W THEN "searching"
                                                          ELSE Phases[q]]
             unpaired == [q \in Requests |-> IF q \in W THEN NoDriver
                                                         ELSE Partners[q]]
  <2>7. /\ withdrawn[r] = "searching"
        /\ Phases' = [withdrawn EXCEPT ![r] = "offered"]
        /\ Partners' = [unpaired EXCEPT ![r] = d]
    <3>1. withdrawn[r] = "searching"
      BY <2>1, <2>3
    <3>2. /\ PhaseOf(request'[r], ride'[r]) = "offered"
          /\ request'[r].driver = d
      BY <2>5, <2>6
    <3>3. ASSUME NEW q \in Requests, q # r
          PROVE  /\ PhaseOf(request'[q], ride'[q]) = withdrawn[q]
                 /\ request'[q].driver = unpaired[q]
      BY <1>1, <2>1, <2>5, <3>3
    <3>4. /\ Phases' = [q \in Requests |-> PhaseOf(request'[q], ride'[q])]
          /\ Partners' = [q \in Requests |-> request'[q].driver]
      BY DEF Phases, Partners
    <3> HIDE DEF withdrawn, unpaired
    <3>5. /\ [withdrawn EXCEPT ![r] = "offered"] =
               [q \in Requests |-> IF q = r THEN "offered" ELSE withdrawn[q]]
          /\ [unpaired EXCEPT ![r] = d] =
               [q \in Requests |-> IF q = r THEN d ELSE unpaired[q]]
      BY DEF withdrawn, unpaired
    <3> QED BY <3>1, <3>2, <3>3, <3>4, <3>5
  <2>8. Lifecycle!Offer(W, r, d)
    <3>1. /\ Lifecycle!Withdrawn(W) = withdrawn
          /\ Lifecycle!Unpaired(W) = unpaired
      BY DEF Lifecycle!Withdrawn, Lifecycle!Unpaired, Phases, Partners
    <3> QED BY <2>1, <2>4, <2>7, <3>1 DEF Lifecycle!Offer, Phases, Partners
  <2> QED BY <2>5, <2>8 DEF Lifecycle!LifecycleNext
<1> QED BY <1>2, <1>3 DEF MatchRide

\* A step that changes one request and its ride only.
LEMMA OneRequestPhase ==
  ASSUME NEW r \in Requests, NEW phase, NEW partner,
         PhaseOf(request'[r], ride'[r]) = phase,
         request'[r].driver = partner,
         \A q \in Requests : q # r => /\ request'[q] = request[q]
                                      /\ ride'[q] = ride[q]
  PROVE  /\ Phases' = [Phases EXCEPT ![r] = phase]
         /\ Partners' = [Partners EXCEPT ![r] = partner]
  BY DEF Phases, Partners

LEMMA CreateImplements ==
  ASSUME CommitmentInv, NEW r \in Requests, CreateRequest(r)
  PROVE  Lifecycle!LifecycleNext
<1>1. /\ request[r].status = "none" /\ request'[r] = Searching
      /\ request[r].driver = NoDriver
      /\ UNCHANGED ride
      /\ \A q \in Requests : q # r => request'[q] = request[q]
  BY DEF CreateRequest, CommitmentInv, TypeOK, RowsAgree, rideVars
<1>2. ride[r].status = "none"
  BY <1>1 DEF CommitmentInv, RideIffAccepted, NoRide
<1>3. PhaseOf(request'[r], ride'[r]) = "searching"
  BY <1>1, <1>2 DEF PhaseOf, Searching, ActiveRide, EndedRide
<1>4. /\ Phases' = [Phases EXCEPT ![r] = "searching"]
      /\ Partners' = [Partners EXCEPT ![r] = NoDriver]
      /\ Partners[r] = NoDriver
      /\ Phases[r] = "none"
  BY <1>1, <1>3, OneRequestPhase, PhaseOfRequest DEF Searching, Partners
<1>5. Partners' = Partners
  BY <1>4 DEF Partners
<1> QED BY <1>4, <1>5
        DEF Lifecycle!LifecycleNext, Lifecycle!Ask, Phases, Partners

LEMMA CancelImplements ==
  ASSUME CommitmentInv, NEW r \in Requests, CancelRequest(r)
  PROVE  Lifecycle!LifecycleNext
<1>1. /\ request[r].status \in {"requested", "matched"}
      /\ request'[r] = Dropped
      /\ UNCHANGED ride
      /\ \A q \in Requests : q # r => request'[q] = request[q]
  BY DEF CancelRequest, CommitmentInv, TypeOK, rideVars
<1>2. ride[r].status = "none"
  BY <1>1 DEF CommitmentInv, RideIffAccepted, NoRide
<1>3. PhaseOf(request'[r], ride'[r]) = "dropped"
  BY <1>1, <1>2 DEF PhaseOf, Dropped, ActiveRide, EndedRide
<1>4. /\ Phases' = [Phases EXCEPT ![r] = "dropped"]
      /\ Partners' = [Partners EXCEPT ![r] = NoDriver]
      /\ Phases[r] \in {"searching", "offered"}
  BY <1>1, <1>3, OneRequestPhase, PhaseOfRequest DEF Dropped
<1> QED BY <1>4 DEF Lifecycle!LifecycleNext, Lifecycle!Drop, Phases, Partners

LEMMA AcceptImplements ==
  ASSUME CommitmentInv, NEW r \in Requests, AcceptRide(r)
  PROVE  Lifecycle!LifecycleNext
<1>1. /\ request[r].status = "matched"
      /\ request'[r].driver = request[r].driver
      /\ \A q \in Requests : q # r => request'[q] = request[q]
  BY DEF AcceptRide, CommitmentInv, TypeOK
<1>2. ride[r] = NoRide
  BY <1>1 DEF CommitmentInv, RideIffAccepted
<1>3. /\ ride'[r].status = "assigned"
      /\ \A q \in Requests : q # r => ride'[q] = ride[q]
  BY <1>2 DEF AcceptRide, CommitmentInv, TypeOK, NoRide
<1>4. PhaseOf(request'[r], ride'[r]) = "riding"
  BY <1>3 DEF PhaseOf, ActiveRide
<1>5. /\ Phases' = [Phases EXCEPT ![r] = "riding"]
      /\ Partners' = [Partners EXCEPT ![r] = request[r].driver]
      /\ Phases[r] = "offered"
  BY <1>1, <1>3, <1>4, OneRequestPhase, PhaseOfRequest
<1>6. Partners' = Partners
  BY <1>5 DEF Partners
<1> QED BY <1>5, <1>6
        DEF Lifecycle!LifecycleNext, Lifecycle!StartRide, Phases, Partners

LEMMA TransitionImplements ==
  ASSUME CommitmentInv, NEW r \in Requests, NEW to \in RideStatus,
         TransitionRide(r, to)
  PROVE  Lifecycle!LifecycleNext \/ UNCHANGED <<Phases, Partners>>
<1>1. /\ ride'[r].status = to
      /\ ride[r].status \in ActiveRide
      /\ \A q \in Requests : q # r => ride'[q] = ride[q]
      /\ UNCHANGED request
  BY DEF TransitionRide, RideTransitions, ActiveRide, CommitmentInv, TypeOK
<1>2. Phases[r] = "riding" /\ Partners' = Partners
  BY <1>1, PhaseOfRequest DEF Partners
<1>3. CASE to \in EndedRide
  <2>1. PhaseOf(request'[r], ride'[r]) = to
    BY <1>1, <1>3 DEF PhaseOf, ActiveRide, EndedRide
  <2>2. Phases' = [Phases EXCEPT ![r] = to]
    BY <1>1, <2>1, OneRequestPhase
  <2>3. Lifecycle!EndRide(r, to)
    BY <1>2, <2>2 DEF Lifecycle!EndRide, Phases, Partners
  <2> QED BY <1>3, <2>3 DEF Lifecycle!LifecycleNext, EndedRide
<1>4. CASE to \notin EndedRide
  <2>1. PhaseOf(request'[r], ride'[r]) = "riding"
    BY <1>1, <1>4 DEF PhaseOf, TransitionRide, RideTransitions, ActiveRide,
                      EndedRide
  <2>2. Phases' = [Phases EXCEPT ![r] = "riding"]
    BY <1>1, <2>1, OneRequestPhase
  <2> QED BY <1>2, <2>2 DEF Phases
<1> QED BY <1>3, <1>4

LEMMA RefinesStep ==
  CommitmentInv /\ [Next]_vars
    => [Lifecycle!LifecycleNext]_(Lifecycle!lifecycleVars)
<1> SUFFICES ASSUME CommitmentInv, [Next]_vars
             PROVE  Lifecycle!LifecycleNext \/ UNCHANGED <<Phases, Partners>>
  BY DEF Lifecycle!lifecycleVars, Phases, Partners
<1>1. TypeOK
  BY DEF CommitmentInv
<1> USE DEF rideVars
<1>2. ASSUME NEW r \in Requests, RequestStep(r)
      PROVE  Lifecycle!LifecycleNext \/ UNCHANGED <<Phases, Partners>>
  <2>1. CASE CreateRequest(r)
    BY <2>1, CreateImplements
  <2>2. CASE CancelRequest(r)
    BY <2>2, CancelImplements
  <2>3. ASSUME NEW S \in SUBSET LapsedMatches, MatchReturnsEarly(r, S)
        PROVE  Lifecycle!LifecycleNext
    BY <1>1, <2>3, SweptLoosened, LooseningImplements DEF MatchReturnsEarly
  <2>4. ASSUME NEW S \in SUBSET LapsedMatches, MatchRide(r, S)
        PROVE  Lifecycle!LifecycleNext
    BY <2>4, MatchRideImplements
  <2>5. CASE DeadlinePasses(r)
    <3>1. /\ UNCHANGED ride
          /\ \A q \in Requests : /\ request'[q].status = request[q].status
                                 /\ request'[q].driver = request[q].driver
      BY <1>1, <2>5 DEF DeadlinePasses, TypeOK
    <3> QED BY <3>1 DEF Phases, Partners, PhaseOf
  <2> QED BY <1>2, <2>1, <2>2, <2>3, <2>4, <2>5 DEF RequestStep
<1>3. ASSUME NEW r \in Requests, RideStep(r)
      PROVE  Lifecycle!LifecycleNext \/ UNCHANGED <<Phases, Partners>>
  <2>1. CASE AcceptRide(r)
    BY <2>1, AcceptImplements
  <2>2. ASSUME NEW to \in RideStatus, UserTransition(r, to)
        PROVE  Lifecycle!LifecycleNext \/ UNCHANGED <<Phases, Partners>>
    BY <2>2, TransitionImplements DEF UserTransition
  <2>3. CASE VerifyPin(r)
    <3>1. /\ UNCHANGED request
          /\ \A q \in Requests : ride'[q].status = ride[q].status
      BY <1>1, <2>3 DEF VerifyPin, TypeOK
    <3> QED BY <3>1 DEF Phases, Partners, PhaseOf
  <2> QED BY <1>3, <2>1, <2>2, <2>3 DEF RideStep
<1>4. ASSUME NEW d \in Drivers, DriverStep(d)
      PROVE  UNCHANGED <<Phases, Partners>>
  BY <1>4, SamePhases DEF DriverStep, ToggleAvailability, RefreshApp,
                          AdminTransitionDriver, RecordReceipt,
                          RecordPayout
<1>5. ASSUME NEW S \in SUBSET LapsedMatches, ExpireMatched(S)
      PROVE  Lifecycle!LifecycleNext
  BY <1>1, <1>5, SweptLoosened, LooseningImplements DEF ExpireMatched
<1>6. ASSUME NEW r \in Requests, CancelStuckRide(r)
      PROVE  Lifecycle!LifecycleNext \/ UNCHANGED <<Phases, Partners>>
  BY <1>6, TransitionImplements DEF CancelStuckRide, RideStatus
<1>7. ASSUME \/ \E R \in SUBSET Requests : ReadStuckRides(R)
             \/ \E r \in Requests : SkipStuckRide(r)
             \/ \E D \in SUBSET Drivers : SelectStaleDrivers(D)
             \/ MarkStaleOffline
             \/ \E D \in SUBSET StuckReserved : ReleaseStuckReserved(D)
      PROVE  UNCHANGED <<Phases, Partners>>
  BY <1>7, SamePhases DEF ReadStuckRides, SkipStuckRide, SelectStaleDrivers,
         MarkStaleOffline,
                          ReleaseStuckReserved
<1>8. CASE UNCHANGED vars
  BY <1>8, SamePhases DEF vars
<1> QED BY <1>2, <1>3, <1>4, <1>5, <1>6, <1>7, <1>8 DEF Next, JobStep

(* Every behaviour of the dispatch transactions is a behaviour of the life   *)
(* cycle: each request is asked for, offered, ridden and ended in order, and *)
(* no offer goes to a driver who already has one or is on a ride.            *)
THEOREM DispatchImplementsLifecycle == Spec => ImplementsLifecycle
  BY RefinesInit, RefinesStep, CommitmentInit, CommitmentStep, PTL
     DEF Spec, ImplementsLifecycle, Lifecycle!LifecycleSpec
=============================================================================
