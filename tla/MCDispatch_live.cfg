SPECIFICATION FairSpec
CONSTANTS
  d1 = d1
  d2 = d2
  u1 = u1
  r1 = r1
  r2 = r2
  Drivers = {d1}
  Riders = {u1}
  Requests = {r1, r2}
  NoDriver = NoDriver
  RiderOf <- OneRider
  PaymentOf <- WalletThenCash
  FareOf <- UnitFares
  PinRequired = {}
  OpeningBalance <- Opening
  CashLimit = 1
  PlatformFee = 2
  MaxPending = 2
  StaleLimit = 1
  AdminTargets <- NoSuspension
  ReceiptAmounts = {1}
  PayoutAmounts = {2}
  MaxCredit = 0
  MaxPaidOut = 2
INVARIANTS
  CashExposureBounded
PROPERTIES
  StuckRideEnds
  LapsedMatchResolved
  OrphanIsReleased
  ImplementsLifecycle
