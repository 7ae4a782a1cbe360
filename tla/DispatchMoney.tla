---------------------------- MODULE DispatchMoney ----------------------------
(***************************************************************************)
(* Theorems about the money of Dispatch: holds, wallets, the cash a driver  *)
(* owes.                                                                    *)
(***************************************************************************)
EXTENDS DispatchProofs, SumLemmas

-----------------------------------------------------------------------------
(* Money: what the holds and the settlement accounts say about the rides.   *)

(* Every hold is in the state its ride is in.                               *)

HoldInv == CommitmentInv /\ HoldFollowsRide

\* HoldFollowsRide, spelt out for one request
HoldOf(r) ==
  /\ PaymentOf[r] = "cash" => hold[r] = "none"
  /\ PaymentOf[r] # "cash" =>
       /\ ride[r].status \in ActiveRide => hold[r] = "active"
       /\ ride[r].status = "completed" => hold[r] = "captured"
       /\ ride[r].status = "canceled" => hold[r] = "released"
       /\ ride[r].status = "none" => hold[r] = "none"

LEMMA HoldOfEach ==
  ASSUME TypeOK
  PROVE  HoldFollowsRide <=> \A r \in Requests : HoldOf(r)
<1>1. ASSUME NEW r \in Requests
      PROVE  ride[r].status \in RideStatus
  BY DEF TypeOK
<1> QED BY <1>1 DEF HoldFollowsRide, HoldOf, RideStatus, ActiveRide

LEMMA HoldOfEachNext ==
  ASSUME CommitmentInv'
  PROVE  HoldFollowsRide' <=> \A r \in Requests : HoldOf(r)'
<1>1. ASSUME NEW r \in Requests
      PROVE  ride'[r].status \in RideStatus
  BY DEF CommitmentInv, TypeOK
<1> QED BY <1>1 DEF HoldFollowsRide, HoldOf, RideStatus, ActiveRide

LEMMA HoldKept ==
  ASSUME HoldInv, CommitmentInv', UNCHANGED hold,
         \A r \in Requests : ride'[r].status = ride[r].status
  PROVE  HoldInv'
  BY DEF HoldInv, HoldFollowsRide

LEMMA AcceptRideHold ==
  ASSUME HoldInv, CommitmentInv', NEW r \in Requests, AcceptRide(r)
  PROVE  HoldInv'
<1>1. ride[r] = NoRide
  BY DEF HoldInv, CommitmentInv, RideIffAccepted, AcceptRide
<1>2. /\ ride'[r].status = "assigned"
      /\ \A q \in Requests : q # r => ride'[q] = ride[q]
  BY <1>1 DEF HoldInv, CommitmentInv, TypeOK, AcceptRide, NoRide
<1>3. hold \in [Requests -> HoldStatus]
  BY DEF HoldInv, CommitmentInv, TypeOK
<1>4. \A q \in Requests : HoldOf(q)
  BY HoldOfEach DEF HoldInv, CommitmentInv
<1>5. \A q \in Requests : HoldOf(q)'
  <2>1. CASE PaymentOf[r] = "cash"
    BY <1>2, <1>4, <2>1 DEF AcceptRide, HoldOf
  <2>2. CASE PaymentOf[r] # "cash"
    <3>1. hold' = [hold EXCEPT ![r] = "active"]
      BY <1>1, <1>4, <2>2, ConstantsAssumption
         DEF AcceptRide, PlaceHold, HoldOf, NoRide
    <3> QED BY <1>2, <1>3, <1>4, <2>2, <3>1 DEF HoldOf, ActiveRide
  <2> QED BY <2>1, <2>2
<1> QED BY <1>5, HoldOfEachNext DEF HoldInv

LEMMA TransitionRideHold ==
  ASSUME HoldInv, CommitmentInv', NEW r \in Requests, NEW to \in RideStatus,
         TransitionRide(r, to)
  PROVE  HoldInv'
<1>1. /\ ride'[r].status = to
      /\ \A q \in Requests : q # r => ride'[q] = ride[q]
      /\ hold \in [Requests -> HoldStatus]
      /\ ride[r].status \in ActiveRide
  BY DEF HoldInv, CommitmentInv, TypeOK, TransitionRide, RideTransitions,
         ActiveRide
<1>2. \A q \in Requests : HoldOf(q)
  BY HoldOfEach DEF HoldInv, CommitmentInv
<1>3. to \in ActiveRide \cup EndedRide
  BY DEF TransitionRide, RideTransitions, ActiveRide, EndedRide
<1>4. /\ \A q \in Requests : q # r => hold'[q] = hold[q]
      /\ HoldOf(r)'
  <2>1. SettleRide(r, to)
    BY DEF TransitionRide
  <2>2. CASE to \in ActiveRide
    BY <1>1, <1>2, <2>1, <2>2
       DEF SettleRide, moneyVars, ActiveRide, EndedRide, HoldOf
  <2>3. CASE to = "canceled"
    <3>1. CASE PaymentOf[r] = "wallet"
      BY <1>1, <1>2, <2>1, <2>3, <3>1
         DEF SettleRide, EndedRide, ReleaseHold, HoldOf, ActiveRide
    <3>2. CASE PaymentOf[r] # "wallet"
      BY <1>1, <1>2, <2>1, <2>3, <3>2, ConstantsAssumption
         DEF SettleRide, EndedRide, HoldOf
    <3> QED BY <3>1, <3>2
  <2>4. CASE to = "completed"
    <3>1. CASE PaymentOf[r] = "wallet"
      <4>1. CaptureHold(r) /\ hold[r] = "active"
        BY <1>1, <1>2, <2>1, <2>4, <3>1 DEF SettleRide, EndedRide, HoldOf
      <4>2. hold' = [hold EXCEPT ![r] = "captured"]
        BY <4>1 DEF CaptureHold
      <4> QED BY <1>1, <2>4, <3>1, <4>2 DEF HoldOf, ActiveRide
    <3>2. CASE PaymentOf[r] # "wallet"
      BY <1>1, <1>2, <2>1, <2>4, <3>2, ConstantsAssumption
         DEF SettleRide, EndedRide, HoldOf
    <3> QED BY <3>1, <3>2
  <2> QED BY <1>3, <2>2, <2>3, <2>4 DEF EndedRide
<1>5. \A q \in Requests : HoldOf(q)'
  BY <1>1, <1>2, <1>4 DEF HoldOf
<1> QED BY <1>5, HoldOfEachNext DEF HoldInv

LEMMA HoldStep == HoldInv /\ [Next]_vars => HoldInv'
<1> SUFFICES ASSUME HoldInv, [Next]_vars PROVE HoldInv'
  OBVIOUS
<1>1. CommitmentInv'
  BY CommitmentStep DEF HoldInv
<1> USE DEF rideVars, moneyVars
<1>2. ASSUME NEW r \in Requests, RequestStep(r) PROVE HoldInv'
  BY <1>1, <1>2, HoldKept
     DEF RequestStep, CreateRequest, CancelRequest, MatchReturnsEarly,
         MatchRide, DeadlinePasses
<1>3. ASSUME NEW r \in Requests, AcceptRide(r) PROVE HoldInv'
  BY <1>1, <1>3, AcceptRideHold
<1>4. ASSUME NEW r \in Requests, NEW to \in RideStatus, UserTransition(r, to)
      PROVE  HoldInv'
  BY <1>1, <1>4, TransitionRideHold DEF UserTransition
<1>5. ASSUME NEW r \in Requests, VerifyPin(r) PROVE HoldInv'
  BY <1>1, <1>5, HoldKept DEF VerifyPin, HoldInv, CommitmentInv, TypeOK
<1>6. ASSUME NEW d \in Drivers, DriverStep(d) PROVE HoldInv'
  BY <1>1, <1>6, HoldKept DEF DriverStep, ToggleAvailability, RefreshApp,
                              AdminTransitionDriver, RecordReceipt,
                              RecordPayout
<1>7. ASSUME NEW r \in Requests, CancelStuckRide(r) PROVE HoldInv'
  BY <1>1, <1>7, TransitionRideHold DEF CancelStuckRide, RideStatus
<1>8. ASSUME \/ \E S \in SUBSET LapsedMatches : ExpireMatched(S)
             \/ \E R \in SUBSET Requests : ReadStuckRides(R)
             \/ \E r \in Requests : SkipStuckRide(r)
             \/ \E D \in SUBSET Drivers : SelectStaleDrivers(D)
             \/ MarkStaleOffline
             \/ \E D \in SUBSET StuckReserved : ReleaseStuckReserved(D)
      PROVE  HoldInv'
  BY <1>1, <1>8, HoldKept
     DEF ExpireMatched, ReadStuckRides, SkipStuckRide, SelectStaleDrivers,
         MarkStaleOffline,
         ReleaseStuckReserved
<1>9. CASE UNCHANGED vars
  BY <1>1, <1>9, HoldKept DEF vars
<1> QED BY <1>2, <1>3, <1>4, <1>5, <1>6, <1>7, <1>8, <1>9
        DEF Next, RideStep, JobStep

LEMMA HoldInit == Init => HoldInv
  BY CommitmentInit DEF Init, HoldInv, HoldFollowsRide, NoRide, ActiveRide

(* A hold stands exactly while its wallet ride is under way; it is captured  *)
(* with a completed ride and released with a canceled one, never the other   *)
(* way round and never twice.                                                *)
THEOREM HoldFollowsRideHolds == Spec => []HoldFollowsRide
<1>1. HoldInv => HoldFollowsRide
  BY DEF HoldInv
<1> QED BY <1>1, HoldInit, HoldStep, PTL DEF Spec

-----------------------------------------------------------------------------
(* What a driver owes for cash rides.                                       *)

CashRideIn(rides, r, d) ==
  /\ PaymentOf[r] = "cash"
  /\ rides[r].driver = d /\ rides[r].status \in ActiveRide

\* what d is owed or owes, payouts since the last cash ride apart
Standing(d) == settlement[d] + paidOut[d]

\* the fee of a cash ride under way still fits
CashInv ==
  /\ CommitmentInv
  /\ CashExposureBounded
  /\ \A r \in Requests, d \in Drivers :
       CashRideIn(ride, r, d) => Standing(d) >= -CashLimit

\* a driver's standing only gets better, and new cash rides are within the
\* limit
LEMMA CashKept ==
  ASSUME CashInv, CommitmentInv',
         \A d \in Drivers :
            \/ Standing(d)' >= Standing(d)
            \/ Standing(d)' >= -CashLimit,
         \A r \in Requests, d \in Drivers :
            CashRideIn(ride', r, d)
              => CashRideIn(ride, r, d) \/ Standing(d)' >= -CashLimit
  PROVE  CashInv'
<1>1. \A d \in Drivers : /\ settlement[d] \in Int /\ settlement'[d] \in Int
                         /\ paidOut[d] \in Nat /\ paidOut'[d] \in Nat
  BY DEF CashInv, CommitmentInv, TypeOK
<1>2. CashLimit \in Nat /\ PlatformFee \in Nat
  BY ConstantsAssumption
<1>3. CashExposureBounded'
  BY <1>1, <1>2 DEF CashInv, CashExposureBounded, Standing
<1>4. \A r \in Requests, d \in Drivers :
        CashRideIn(ride', r, d) => Standing(d)' >= -CashLimit
  BY <1>1, <1>2 DEF CashInv, Standing
<1> QED  BY <1>3, <1>4 DEF CashInv, CashRideIn

LEMMA QuietCash ==
  ASSUME CashInv, CommitmentInv', UNCHANGED <<settlement, paidOut>>,
         \A r \in Requests : /\ ride'[r].status = ride[r].status
                             /\ ride'[r].driver = ride[r].driver
  PROVE  CashInv'
<1>1. \A d \in Drivers : Standing(d) \in Int /\ Standing(d)' = Standing(d)
  BY DEF CashInv, CommitmentInv, TypeOK, Standing
<1> QED  BY <1>1, CashKept DEF CashRideIn

\* a receipt improves the standing, a payout is counted on both sides
LEMMA RecordedCash ==
  ASSUME CashInv, CommitmentInv', NEW d \in Drivers,
         \/ \E n \in ReceiptAmounts : RecordReceipt(d, n)
         \/ \E n \in PayoutAmounts : RecordPayout(d, n)
  PROVE  CashInv'
<1>1. /\ settlement \in [Drivers -> Int] /\ paidOut \in [Drivers -> Nat]
      /\ UNCHANGED ride
  BY DEF RecordReceipt, RecordPayout, CashInv, CommitmentInv, TypeOK
<1>2. \A e \in Drivers : Standing(e)' >= Standing(e)
  <2>1. ASSUME NEW n \in ReceiptAmounts, RecordReceipt(d, n)
        PROVE  \A e \in Drivers : Standing(e)' >= Standing(e)
    BY <1>1, <2>1, ConstantsAssumption DEF RecordReceipt, Standing
  <2>2. ASSUME NEW n \in PayoutAmounts, RecordPayout(d, n)
        PROVE  \A e \in Drivers : Standing(e)' >= Standing(e)
    BY <1>1, <2>2, ConstantsAssumption DEF RecordPayout, Standing
  <2> QED  BY <2>1, <2>2
<1> QED  BY <1>1, <1>2, CashKept

LEMMA AcceptRideCash ==
  ASSUME CashInv, CommitmentInv', NEW r \in Requests, AcceptRide(r)
  PROVE  CashInv'
<1> DEFINE d == request[r].driver
<1>1. /\ \A q \in Requests : q # r => ride'[q] = ride[q]
      /\ ride'[r].driver = d
      /\ PaymentOf[r] = "cash" => settlement[d] >= -CashLimit
      /\ settlement \in [Drivers -> Int] /\ paidOut \in [Drivers -> Nat]
      /\ settlement' = settlement
      /\ paidOut' = [paidOut EXCEPT ![d] = IF PaymentOf[r] = "cash" THEN 0
                                                                   ELSE @]
  BY DEF AcceptRide, WithinCashLimit, CashInv, CommitmentInv, TypeOK
<1>2. \A e \in Drivers : Standing(e)' >= Standing(e) \/ Standing(e)' >= -CashLimit
  BY <1>1, ConstantsAssumption DEF Standing
<1>3. ASSUME NEW q \in Requests, NEW e \in Drivers, CashRideIn(ride', q, e)
      PROVE  CashRideIn(ride, q, e) \/ Standing(e)' >= -CashLimit
  <2>1. CASE q # r
    BY <1>1, <1>3, <2>1 DEF CashRideIn
  <2>2. CASE q = r
    <3>1. e = d /\ PaymentOf[r] = "cash"
      BY <1>1, <1>3, <2>2 DEF CashRideIn
    <3>2. settlement'[e] >= -CashLimit /\ paidOut'[e] = 0
      BY <1>1, <3>1
    <3>3. settlement'[e] \in Int
      BY <1>1
    <3> QED  BY <3>2, <3>3, ConstantsAssumption DEF Standing
  <2> QED  BY <2>1, <2>2
<1> QED BY <1>2, <1>3, CashKept

LEMMA TransitionRideCash ==
  ASSUME CashInv, CommitmentInv', NEW r \in Requests, NEW to \in RideStatus,
         TransitionRide(r, to)
  PROVE  CashInv'
<1> DEFINE d == ride[r].driver
<1>1. /\ ride'[r].status = to /\ ride'[r].driver = d
      /\ \A q \in Requests : q # r => ride'[q] = ride[q]
      /\ ride[r].status \in ActiveRide
      /\ SettleRide(r, to)
  BY DEF TransitionRide, RideTransitions, ActiveRide, CashInv, CommitmentInv,
         TypeOK
<1> USE DEF Standing
<1>5. UNCHANGED paidOut
  BY <1>1, ConstantsAssumption DEF SettleRide, moneyVars, EndedRide
<1>2. \A q \in Requests, e \in Drivers :
        CashRideIn(ride', q, e) => CashRideIn(ride, q, e)
  BY <1>1 DEF CashRideIn
<1>3. CASE UNCHANGED settlement
  <2>1. \A e \in Drivers : Standing(e) \in Int /\ Standing(e)' = Standing(e)
    BY <1>3, <1>5 DEF CashInv, CommitmentInv, TypeOK
  <2> QED  BY <1>2, <2>1, CashKept
<1>4. CASE ~UNCHANGED settlement
  <2>1. /\ to = "completed" /\ PaymentOf[r] = "cash"
        /\ settlement' = [settlement EXCEPT ![d] = settlement[d] - PlatformFee]
    BY <1>1, <1>4, ConstantsAssumption DEF SettleRide, moneyVars, EndedRide
  <2>2. /\ request[r].status = "accepted" /\ request[r].driver = d
        /\ d \in Drivers
    BY <1>1 DEF CashInv, CommitmentInv, RideIffAccepted, RowsAgree, NoRide,
                ActiveRide
  <2>3. Standing(d) >= -CashLimit
    BY <1>1, <2>1, <2>2 DEF CashInv, CashRideIn
  <2>4. ASSUME NEW q \in Requests PROVE ~CashRideIn(ride', q, d)
    <3>1. CASE q = r
      BY <1>1, <2>1, <3>1 DEF CashRideIn, ActiveRide
    <3>2. CASE q # r
      <4>1. SUFFICES ASSUME ride[q].driver = d, ride[q].status \in ActiveRide
                     PROVE  FALSE
        BY <1>1, <3>2 DEF CashRideIn
      <4>2. request[q].driver = d
        BY <4>1 DEF CashInv, CommitmentInv, RideIffAccepted, NoRide, ActiveRide
      <4> QED BY <1>1, <2>2, <3>2, <4>1, <4>2
              DEF CashInv, CommitmentInv, OneCommitment, Committed
    <3> QED BY <3>1, <3>2
  <2>5. /\ \A e \in Drivers : settlement[e] \in Int
        /\ settlement \in [Drivers -> Int]
        /\ paidOut \in [Drivers -> Nat]
        /\ CashLimit \in Nat /\ PlatformFee \in Nat
    BY ConstantsAssumption DEF CashInv, CommitmentInv, TypeOK
  <2>6. /\ settlement'[d] = settlement[d] - PlatformFee
        /\ \A e \in Drivers : e # d => settlement'[e] = settlement[e]
    BY <2>1, <2>2, <2>5
  <2>7. CashExposureBounded'
    BY <1>5, <2>3, <2>5, <2>6 DEF CashInv, CashExposureBounded
  <2>8. ASSUME NEW q \in Requests, NEW e \in Drivers, CashRideIn(ride', q, e)
        PROVE  Standing(e)' >= -CashLimit
    BY <1>2, <1>5, <2>4, <2>6, <2>8 DEF CashInv
  <2> QED BY <2>7, <2>8 DEF CashInv, CashRideIn
<1> QED BY <1>3, <1>4

LEMMA CashStep == CashInv /\ [Next]_vars => CashInv'
<1> SUFFICES ASSUME CashInv, [Next]_vars PROVE CashInv'
  OBVIOUS
<1>1. CommitmentInv'
  BY CommitmentStep DEF CashInv
<1> USE DEF rideVars, moneyVars
<1>2. ASSUME NEW r \in Requests, RequestStep(r) PROVE CashInv'
  BY <1>1, <1>2, QuietCash
     DEF RequestStep, CreateRequest, CancelRequest, MatchReturnsEarly,
         MatchRide, DeadlinePasses
<1>3. ASSUME NEW r \in Requests, AcceptRide(r) PROVE CashInv'
  BY <1>1, <1>3, AcceptRideCash
<1>4. ASSUME NEW r \in Requests, NEW to \in RideStatus, UserTransition(r, to)
      PROVE  CashInv'
  BY <1>1, <1>4, TransitionRideCash DEF UserTransition
<1>5. ASSUME NEW r \in Requests, VerifyPin(r) PROVE CashInv'
  <2>1. \A q \in Requests : /\ ride'[q].status = ride[q].status
                            /\ ride'[q].driver = ride[q].driver
    BY <1>5 DEF VerifyPin, CashInv, CommitmentInv, TypeOK
  <2>2. UNCHANGED <<settlement, paidOut>>
    BY <1>5 DEF VerifyPin
  <2> QED BY <1>1, <2>1, <2>2, QuietCash
<1>6. ASSUME NEW d \in Drivers, DriverStep(d) PROVE CashInv'
  <2>1. CASE \/ \E n \in ReceiptAmounts : RecordReceipt(d, n)
             \/ \E n \in PayoutAmounts : RecordPayout(d, n)
    BY <1>1, <2>1, RecordedCash
  <2>2. CASE \/ ToggleAvailability(d) \/ RefreshApp(d)
             \/ \E to \in AdminTargets : AdminTransitionDriver(d, to)
    BY <1>1, <2>2, QuietCash
       DEF ToggleAvailability, RefreshApp, AdminTransitionDriver
  <2> QED BY <1>6, <2>1, <2>2 DEF DriverStep
<1>7. ASSUME NEW r \in Requests, CancelStuckRide(r) PROVE CashInv'
  BY <1>1, <1>7, TransitionRideCash DEF CancelStuckRide, RideStatus
<1>8. ASSUME \/ \E S \in SUBSET LapsedMatches : ExpireMatched(S)
             \/ \E R \in SUBSET Requests : ReadStuckRides(R)
             \/ \E r \in Requests : SkipStuckRide(r)
             \/ \E D \in SUBSET Drivers : SelectStaleDrivers(D)
             \/ MarkStaleOffline
             \/ \E D \in SUBSET StuckReserved : ReleaseStuckReserved(D)
      PROVE  CashInv'
  BY <1>1, <1>8, QuietCash
     DEF ExpireMatched, ReadStuckRides, SkipStuckRide, SelectStaleDrivers,
         MarkStaleOffline,
         ReleaseStuckReserved
<1>9. CASE UNCHANGED vars
  BY <1>1, <1>9, QuietCash DEF vars
<1> QED BY <1>2, <1>3, <1>4, <1>5, <1>6, <1>7, <1>8, <1>9
        DEF Next, RideStep, JobStep

LEMMA CashInit == Init => CashInv
<1>1. ASSUME Init PROVE CashExposureBounded
  BY <1>1, ConstantsAssumption DEF Init, CashExposureBounded
<1> QED BY <1>1, CommitmentInit DEF Init, CashInv, CashRideIn, NoRide, ActiveRide

(* For any amounts received from drivers and paid out to them, at any time:  *)
(* what a driver owes beyond the limit and one fee was paid out to the driver *)
(* since the last cash ride was accepted.  There is never a second fee on     *)
(* its way (OneCommitment), and the limit is read again at acceptance.        *)
THEOREM CashExposureBoundedHolds == Spec => []CashExposureBounded
<1>1. CashInv => CashExposureBounded
  BY DEF CashInv
<1> QED BY <1>1, CashInit, CashStep, PTL DEF Spec
-----------------------------------------------------------------------------
(* What the accounts of riders hold, and the balances of all of them.       *)

ActiveHolds(u) == {r \in Requests : RiderOf[r] = u /\ hold[r] = "active"}
Balances == [u \in Users |-> wallet[u].balance]

\* Holds are placed one by one, so there are finitely many at any time.
FewHolds == IsFiniteSet({r \in Requests : hold[r] # "none"})

\* A hold is given back or spent at the height it was placed at, because the
\* account still holds at least that much; each capture pays one driver.
WalletInv == HoldInv /\ FewHolds /\ HeldIsSumOfHolds /\ MoneyConserved

LEMMA FiniteActiveHolds ==
  ASSUME FewHolds, NEW u
  PROVE  /\ IsFiniteSet(ActiveHolds(u))
         /\ ActiveHolds(u) \subseteq Requests
         /\ \A q \in ActiveHolds(u) : FareOf[q] \in Nat /\ FareOf[q] \in Int
<1>1. /\ ActiveHolds(u) \in SUBSET {r \in Requests : hold[r] # "none"}
      /\ ActiveHolds(u) \subseteq Requests
  BY DEF ActiveHolds
<1> QED  BY <1>1, FS_Subset, ConstantsAssumption DEF FewHolds

LEMMA WalletType ==
  ASSUME WalletInv, NEW u \in Users
  PROVE  /\ wallet \in [Users -> [balance : Nat, held : Nat]]
         /\ wallet[u].balance \in Nat /\ wallet[u].held \in Nat
         /\ hold \in [Requests -> HoldStatus]
  BY DEF WalletInv, HoldInv, CommitmentInv, TypeOK

LEMMA HeldOfAccount ==
  ASSUME WalletInv, NEW u \in Users
  PROVE  /\ wallet[u].held = SumFunctionOnSet(FareOf, ActiveHolds(u))
         /\ wallet[u].held <= wallet[u].balance
  BY DEF WalletInv, HeldIsSumOfHolds, ActiveHolds

LEMMA HeldFromEach ==
  ASSUME \A u \in Users :
           /\ wallet'[u].held = SumFunctionOnSet(FareOf, ActiveHolds(u)')
           /\ wallet'[u].held <= wallet'[u].balance
  PROVE  HeldIsSumOfHolds'
  BY DEF HeldIsSumOfHolds, ActiveHolds

(* A hold that becomes active joins the sum of its rider, one that ceases   *)
(* to be active leaves it; no other sum changes.                            *)
LEMMA ActiveHoldMoves ==
  ASSUME hold \in [Requests -> HoldStatus], FewHolds,
         NEW r \in Requests, NEW to \in HoldStatus \ {"none"},
         (to = "active") # (hold[r] = "active"),
         hold' = [hold EXCEPT ![r] = to]
  PROVE  /\ FewHolds'
         /\ \A u \in Users \ {RiderOf[r]} : ActiveHolds(u)' = ActiveHolds(u)
         /\ SumFunctionOnSet(FareOf, ActiveHolds(RiderOf[r])) \in Nat
         /\ SumFunctionOnSet(FareOf, ActiveHolds(RiderOf[r])')
              = SumFunctionOnSet(FareOf, ActiveHolds(RiderOf[r]))
                + (IF to = "active" THEN FareOf[r] ELSE -FareOf[r])
<1> DEFINE Held == {q \in Requests : hold[q] # "none"}
           R == ActiveHolds(RiderOf[r])
<1>1. /\ hold'[r] = to /\ \A q \in Requests \ {r} : hold'[q] = hold[q]
      /\ FareOf[r] \in Nat
  BY RequestConstants
<1>2. FewHolds'
  <2>1. IsFiniteSet(Held \cup {r})
    BY FS_AddElement DEF FewHolds
  <2>2. {q \in Requests : hold'[q] # "none"} = Held \cup {r}
    BY <1>1
  <2> QED  BY <2>1, <2>2 DEF FewHolds
<1>3. \A u \in Users \ {RiderOf[r]} : ActiveHolds(u)' = ActiveHolds(u)
  BY <1>1 DEF ActiveHolds
<1>4. IsFiniteSet(R) /\ \A q \in R : FareOf[q] \in Nat /\ FareOf[q] \in Int
  BY FiniteActiveHolds
<1>5. SumFunctionOnSet(FareOf, R) \in Nat
  <2> HIDE DEF R
  <2> QED  BY <1>4, SumNat
<1>6. CASE to = "active"
  <2>1. r \notin R /\ ActiveHolds(RiderOf[r])' = R \cup {r}
    BY <1>1, <1>6 DEF ActiveHolds
  <2>2. SumFunctionOnSet(FareOf, R \cup {r})
          = FareOf[r] + SumFunctionOnSet(FareOf, R)
    <3> HIDE DEF R
    <3> QED  BY <1>1, <1>4, <2>1, SumAdd
  <2> QED  BY <1>1, <1>2, <1>3, <1>5, <1>6, <2>1, <2>2
<1>7. CASE to # "active"
  <2>1. r \in R /\ ActiveHolds(RiderOf[r])' = R \ {r}
    BY <1>1, <1>7 DEF ActiveHolds
  <2>2. SumFunctionOnSet(FareOf, R)
          = FareOf[r] + SumFunctionOnSet(FareOf, R \ {r})
    <3> HIDE DEF R
    <3> QED  BY <1>4, <2>1, SumRemove
  <2>3. SumFunctionOnSet(FareOf, R \ {r}) \in Int
    <3>1. IsFiniteSet(R \ {r})
      BY <1>4, FS_RemoveElement
    <3> QED  BY <3>1, <1>4, SumType
  <2> QED  BY <1>1, <1>2, <1>3, <1>5, <1>7, <2>1, <2>2, <2>3
<1> QED  BY <1>6, <1>7

(* A rider's account holds at least what each active hold asks for.         *)
LEMMA HeldCoversFare ==
  ASSUME WalletInv, NEW r \in Requests, hold[r] = "active"
  PROVE  FareOf[r] <= wallet[RiderOf[r]].held
<1> DEFINE R == ActiveHolds(RiderOf[r])
<1>1. r \in R
  BY DEF ActiveHolds
<1>2. IsFiniteSet(R) /\ \A q \in R : FareOf[q] \in Nat
  BY FiniteActiveHolds DEF WalletInv
<1>3. FareOf[r] <= SumFunctionOnSet(FareOf, R)
  <2> HIDE DEF R
  <2> QED  BY <1>1, <1>2, SumCoversEach
<1> QED  BY <1>3, HeldOfAccount, RequestConstants

LEMMA WalletKept ==
  ASSUME WalletInv, HoldInv', UNCHANGED <<hold, wallet>>
  PROVE  WalletInv'
  BY DEF WalletInv, FewHolds, HeldIsSumOfHolds, MoneyConserved

\* When balances stay what they are, so does their sum.
LEMMA SameBalances ==
  ASSUME MoneyConserved, \A u \in Users : wallet'[u].balance = wallet[u].balance
  PROVE  MoneyConserved'
<1>1. Balances' = Balances
  BY DEF Balances
<1> QED  BY <1>1 DEF MoneyConserved, Balances

LEMMA AcceptRideWallet ==
  ASSUME WalletInv, HoldInv', NEW r \in Requests, AcceptRide(r)
  PROVE  WalletInv'
<1> DEFINE u == RiderOf[r]
<1>1. CASE PaymentOf[r] # "wallet"
  BY <1>1, WalletKept DEF AcceptRide
<1>2. CASE PaymentOf[r] = "wallet"
  <2>1. PlaceHold(r) /\ hold[r] = "none"
    <3>1. ride[r] = NoRide
      BY DEF WalletInv, HoldInv, CommitmentInv, RideIffAccepted, AcceptRide
    <3>2. HoldOf(r)
      BY HoldOfEach DEF WalletInv, HoldInv, CommitmentInv
    <3> QED  BY <1>2, <3>1, <3>2 DEF AcceptRide, HoldOf, NoRide
  <2>2. /\ hold' = [hold EXCEPT ![r] = "active"]
        /\ wallet' = [wallet EXCEPT ![u].held = wallet[u].held + FareOf[r]]
        /\ wallet[u].balance - wallet[u].held >= FareOf[r]
    BY <2>1 DEF PlaceHold, Available
  <2>3. u \in Users /\ FareOf[r] \in Nat
    BY RequestConstants
  <2>4. /\ FewHolds'
        /\ \A v \in Users \ {u} : ActiveHolds(v)' = ActiveHolds(v)
        /\ SumFunctionOnSet(FareOf, ActiveHolds(u)')
             = SumFunctionOnSet(FareOf, ActiveHolds(u)) + FareOf[r]
    BY <2>1, <2>2, <2>3, ActiveHoldMoves, WalletType DEF WalletInv, HoldStatus
  <2>5. ASSUME NEW v \in Users
        PROVE  /\ wallet'[v].balance = wallet[v].balance
               /\ wallet'[v].held = SumFunctionOnSet(FareOf, ActiveHolds(v)')
               /\ wallet'[v].held <= wallet'[v].balance
    <3>1. /\ wallet'[v].balance = wallet[v].balance
          /\ wallet'[v].held
               = wallet[v].held + (IF v = u THEN FareOf[r] ELSE 0)
          /\ wallet[v].balance \in Nat /\ wallet[v].held \in Nat
      BY <2>2, <2>3, WalletType
    <3> QED  BY <2>2, <2>3, <2>4, <3>1, HeldOfAccount
  <2>6. HeldIsSumOfHolds' /\ MoneyConserved'
    BY <2>5, HeldFromEach, SameBalances DEF WalletInv
  <2> QED  BY <2>4, <2>6 DEF WalletInv
<1> QED  BY <1>1, <1>2

LEMMA ReleaseHoldWallet ==
  ASSUME WalletInv, HoldInv', NEW r \in Requests, ReleaseHold(r)
  PROVE  WalletInv'
<1> DEFINE u == RiderOf[r]
<1>1. CASE hold[r] # "active"
  BY <1>1, WalletKept DEF ReleaseHold
<1>2. CASE hold[r] = "active"
  <2>1. u \in Users /\ FareOf[r] \in Nat
    BY RequestConstants
  <2>2. /\ hold' = [hold EXCEPT ![r] = "released"]
        /\ wallet' = [wallet EXCEPT ![u].held = wallet[u].held - FareOf[r]]
    BY <1>2, <2>1, HeldCoversFare, WalletType DEF ReleaseHold
  <2>3. /\ FewHolds'
        /\ \A v \in Users \ {u} : ActiveHolds(v)' = ActiveHolds(v)
        /\ SumFunctionOnSet(FareOf, ActiveHolds(u)')
             = SumFunctionOnSet(FareOf, ActiveHolds(u)) + -FareOf[r]
    BY <1>2, <2>1, <2>2, ActiveHoldMoves, WalletType DEF WalletInv, HoldStatus
  <2>4. ASSUME NEW v \in Users
        PROVE  /\ wallet'[v].balance = wallet[v].balance
               /\ wallet'[v].held = SumFunctionOnSet(FareOf, ActiveHolds(v)')
               /\ wallet'[v].held <= wallet'[v].balance
    <3>1. /\ wallet'[v].balance = wallet[v].balance
          /\ wallet'[v].held
               = wallet[v].held - (IF v = u THEN FareOf[r] ELSE 0)
          /\ wallet[v].balance \in Nat /\ wallet[v].held \in Nat
      BY <2>1, <2>2, WalletType
    <3> QED  BY <2>1, <2>3, <3>1, HeldOfAccount
  <2>5. HeldIsSumOfHolds' /\ MoneyConserved'
    BY <2>4, HeldFromEach, SameBalances DEF WalletInv
  <2> QED  BY <2>3, <2>5 DEF WalletInv
<1> QED  BY <1>1, <1>2

(* A capture takes the fare from the rider and gives it to the driver.      *)
LEMMA CaptureHoldWallet ==
  ASSUME WalletInv, HoldInv', NEW r \in Requests, CaptureHold(r),
         ride[r].driver \in Drivers
  PROVE  WalletInv'
<1> DEFINE u == RiderOf[r]
           d == ride[r].driver
<1>1. CASE UNCHANGED <<hold, wallet>>
  BY <1>1, WalletKept
<1>2. CASE ~UNCHANGED <<hold, wallet>>
  <2> DEFINE account == [balance |-> wallet[u].balance - FareOf[r],
                         held    |-> wallet[u].held - FareOf[r]]
             debited == [wallet EXCEPT ![u] = account]
  <2>1. /\ hold[r] = "active" /\ hold' = [hold EXCEPT ![r] = "captured"]
        /\ wallet' = [debited EXCEPT ![d].balance = debited[d].balance + FareOf[r]]
    BY <1>2 DEF CaptureHold
  <2>2. u \in Users /\ d \in Users /\ d # u /\ FareOf[r] \in Nat
    BY RequestConstants DEF Users
  <2>3. /\ FewHolds'
        /\ \A v \in Users \ {u} : ActiveHolds(v)' = ActiveHolds(v)
        /\ SumFunctionOnSet(FareOf, ActiveHolds(u)')
             = SumFunctionOnSet(FareOf, ActiveHolds(u)) + -FareOf[r]
    <3>1. /\ hold \in [Requests -> HoldStatus] /\ FewHolds
          /\ hold[r] = "active" /\ hold' = [hold EXCEPT ![r] = "captured"]
          /\ "captured" \in HoldStatus \ {"none"}
      BY <2>1, <2>2, WalletType DEF WalletInv, HoldStatus
    <3> QED  BY <3>1, ActiveHoldMoves
  <2>4. ASSUME NEW v \in Users
        PROVE  /\ wallet[v].balance \in Nat /\ wallet[v].held \in Nat
               /\ wallet'[v].held
                    = wallet[v].held - (IF v = u THEN FareOf[r] ELSE 0)
               /\ wallet'[v].balance
                    = IF v = u THEN wallet[v].balance - FareOf[r]
                      ELSE wallet[v].balance + (IF v = d THEN FareOf[r] ELSE 0)
    <3>1. /\ wallet \in [Users -> [balance : Nat, held : Nat]]
          /\ wallet[v].balance \in Nat /\ wallet[v].held \in Nat
      BY WalletType
    <3>2. CASE v = u
      BY <2>1, <2>2, <3>1, <3>2
    <3>3. CASE v = d
      <4>1. debited[d] = wallet[d]
        BY <2>2, <3>1
      <4> QED  BY <2>1, <2>2, <3>1, <3>3, <4>1
    <3>4. CASE v # u /\ v # d
      BY <2>1, <2>2, <3>1, <3>4
    <3> QED  BY <3>2, <3>3, <3>4
  <2>5. HeldIsSumOfHolds'
    <3>1. ASSUME NEW v \in Users
          PROVE  /\ wallet'[v].held = SumFunctionOnSet(FareOf, ActiveHolds(v)')
                 /\ wallet'[v].held <= wallet'[v].balance
      BY <2>2, <2>3, <2>4, HeldOfAccount
    <3> QED  BY <3>1, HeldFromEach
  <2>6. MoneyConserved'
    <3> DEFINE paid == [v \in Users |-> IF v = u THEN Balances[u] - FareOf[r]
                                        ELSE Balances[v]]
               after == Balances'
    <3>1. /\ \A v \in Users : Balances[v] \in Int /\ after[v] \in Int
          /\ \A v \in Users : paid[v] \in Int
          /\ \A v \in Users \ {u} : paid[v] = Balances[v]
          /\ \A v \in Users \ {d} : after[v] = paid[v]
          /\ paid[u] = Balances[u] - FareOf[r]
          /\ after[d] = paid[d] + FareOf[r]
      BY <2>2, <2>4 DEF Balances
    <3>2. /\ SumFunctionOnSet(paid, Users)
               = SumFunctionOnSet(Balances, Users) + paid[u] - Balances[u]
          /\ SumFunctionOnSet(after, Users)
               = SumFunctionOnSet(paid, Users) + after[d] - paid[d]
          /\ SumFunctionOnSet(Balances, Users) \in Int
      <4> HIDE DEF paid, after
      <4> QED  BY <2>2, <3>1, SumUpdate, SumType, UsersAssumption
    <3>3. /\ Balances[u] \in Int /\ paid[u] \in Int
          /\ after[d] \in Int /\ paid[d] \in Int
      BY <2>2, <3>1
    <3>4. SumFunctionOnSet(after, Users) = SumFunctionOnSet(Balances, Users)
      <4> HIDE DEF paid, after
      <4> QED  BY <2>2, <3>1, <3>2, <3>3
    <3> QED  BY <3>4 DEF WalletInv, MoneyConserved, Balances
  <2> QED  BY <2>3, <2>5, <2>6 DEF WalletInv
<1> QED  BY <1>1, <1>2

LEMMA TransitionRideWallet ==
  ASSUME WalletInv, HoldInv', NEW r \in Requests, NEW to \in RideStatus,
         TransitionRide(r, to)
  PROVE  WalletInv'
<1>1. SettleRide(r, to) /\ ride[r].status \in ActiveRide
  BY DEF TransitionRide, RideTransitions, ActiveRide
<1>2. CASE UNCHANGED <<hold, wallet>>
  BY <1>2, WalletKept
<1>3. CASE ReleaseHold(r)
  BY <1>3, ReleaseHoldWallet
<1>4. CASE CaptureHold(r)
  <2>1. ride[r].driver \in Drivers
    BY <1>1 DEF WalletInv, HoldInv, CommitmentInv, RideIffAccepted, RowsAgree,
                NoRide, ActiveRide
  <2> QED  BY <1>4, <2>1, CaptureHoldWallet
<1> QED  BY <1>1, <1>2, <1>3, <1>4 DEF SettleRide, moneyVars

LEMMA WalletStep == WalletInv /\ [Next]_vars => WalletInv'
<1> SUFFICES ASSUME WalletInv, [Next]_vars PROVE WalletInv'
  OBVIOUS
<1>1. HoldInv'
  BY HoldStep DEF WalletInv
<1> USE DEF rideVars, moneyVars
<1>2. ASSUME NEW r \in Requests, RequestStep(r) PROVE WalletInv'
  BY <1>1, <1>2, WalletKept
     DEF RequestStep, CreateRequest, CancelRequest, MatchReturnsEarly,
         MatchRide, DeadlinePasses
<1>3. ASSUME NEW r \in Requests, AcceptRide(r) PROVE WalletInv'
  BY <1>1, <1>3, AcceptRideWallet
<1>4. ASSUME NEW r \in Requests, NEW to \in RideStatus, UserTransition(r, to)
      PROVE  WalletInv'
  BY <1>1, <1>4, TransitionRideWallet DEF UserTransition
<1>5. ASSUME NEW r \in Requests, VerifyPin(r) PROVE WalletInv'
  BY <1>1, <1>5, WalletKept DEF VerifyPin
<1>6. ASSUME NEW d \in Drivers, DriverStep(d) PROVE WalletInv'
  BY <1>1, <1>6, WalletKept DEF DriverStep, ToggleAvailability, RefreshApp,
                                AdminTransitionDriver, RecordReceipt,
                                RecordPayout
<1>7. ASSUME NEW r \in Requests, CancelStuckRide(r) PROVE WalletInv'
  BY <1>1, <1>7, TransitionRideWallet DEF CancelStuckRide, RideStatus
<1>8. ASSUME \/ \E S \in SUBSET LapsedMatches : ExpireMatched(S)
             \/ \E R \in SUBSET Requests : ReadStuckRides(R)
             \/ \E r \in Requests : SkipStuckRide(r)
             \/ \E D \in SUBSET Drivers : SelectStaleDrivers(D)
             \/ MarkStaleOffline
             \/ \E D \in SUBSET StuckReserved : ReleaseStuckReserved(D)
      PROVE  WalletInv'
  BY <1>1, <1>8, WalletKept
     DEF ExpireMatched, ReadStuckRides, SkipStuckRide, SelectStaleDrivers,
         MarkStaleOffline, ReleaseStuckReserved
<1>9. CASE UNCHANGED vars
  BY <1>1, <1>9, WalletKept DEF vars
<1> QED BY <1>2, <1>3, <1>4, <1>5, <1>6, <1>7, <1>8, <1>9
        DEF Next, RideStep, JobStep

LEMMA WalletInit == Init => WalletInv
<1> SUFFICES ASSUME Init PROVE WalletInv
  OBVIOUS
<1>1. HoldInv
  BY HoldInit
<1>2. FewHolds
  <2>1. {r \in Requests : hold[r] # "none"} = {}
    BY DEF Init
  <2> QED  BY <2>1, FS_EmptySet DEF FewHolds
<1>3. HeldIsSumOfHolds
  <2>1. \A u \in Users :
          {r \in Requests : RiderOf[r] = u /\ hold[r] = "active"} = {}
    BY DEF Init
  <2>2. \A u \in Users : wallet[u].held = 0 /\ wallet[u].balance >= 0
    BY ConstantsAssumption DEF Init
  <2> QED  BY <2>1, <2>2, SumEmpty DEF HeldIsSumOfHolds
<1>4. MoneyConserved
  <2>1. /\ \A u \in Users : Balances[u] \in Int
        /\ \A u \in Users \ Riders : Balances[u] = 0
        /\ \A u \in Riders : OpeningBalance[u] \in Int
                             /\ Balances[u] = OpeningBalance[u]
        /\ Riders \in SUBSET Users
    BY ConstantsAssumption DEF Init, Balances, Users
  <2>2. IsFiniteSet(Users) /\ IsFiniteSet(Riders)
    BY <2>1, UsersAssumption, FS_Subset
  <2>3. SumFunctionOnSet(Balances, Users) = SumFunctionOnSet(Balances, Riders)
    <3> HIDE DEF Balances
    <3> QED  BY <2>1, <2>2, SumIgnoresZeros
  <2>4. SumFunctionOnSet(Balances, Riders)
          = SumFunctionOnSet(OpeningBalance, Riders)
    <3> HIDE DEF Balances
    <3> QED  BY <2>1, <2>2, SumAgrees
  <2> QED  BY <2>3, <2>4 DEF MoneyConserved, Balances
<1> QED  BY <1>1, <1>2, <1>3, <1>4 DEF WalletInv

(* What an account shows as held is the sum of its rider's active holds and  *)
(* the balance covers it, for any number of rides of one rider accepted at   *)
(* any distance from their matches.                                          *)
THEOREM HeldIsSumOfHoldsHolds == Spec => []HeldIsSumOfHolds
<1>1. WalletInv => HeldIsSumOfHolds
  BY DEF WalletInv
<1> QED BY <1>1, WalletInit, WalletStep, PTL DEF Spec

(* No transition of a ride, accept, cancellation or job creates or destroys  *)
(* money: what riders lose drivers gain, to the dinar.                       *)
THEOREM MoneyConservedHolds == Spec => []MoneyConserved
<1>1. WalletInv => MoneyConserved
  BY DEF WalletInv
<1> QED BY <1>1, WalletInit, WalletStep, PTL DEF Spec
=============================================================================
