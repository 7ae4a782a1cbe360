SPECIFICATION Spec
CONSTANTS
  d1 = d1
  d2 = d2
  u1 = u1
  r1 = r1
  r2 = r2
  Drivers = {d1, d2}
  Riders = {u1}
  Requests = {r1, r2}
  NoDriver = NoDriver
  RiderOf <- OneRider
  PaymentOf <- AllWallet
  FareOf <- ScarceFares
  PinRequired = {u1}
  OpeningBalance <- Opening
  CashLimit = 1
  PlatformFee = 1
  MaxPending = 2
  StaleLimit = 1
  AdminTargets <- ConsoleTargets
  ReceiptAmounts = {}
  PayoutAmounts = {}
  MaxCredit = 0
  MaxPaidOut = 0
SYMMETRY DriverSymmetry
INVARIANTS
  TypeOK
  ReservedHasMatch
  OneCommitment
  HoldFollowsRide
  HeldIsSumOfHolds
  MoneyConserved
PROPERTIES
  OnTripIsKept
  JobSparesStartedRides
