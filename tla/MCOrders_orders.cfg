SPECIFICATION Spec
CONSTANTS
  o1 = o1
  d1 = d1
  d2 = d2
  payoutA = payoutA
  payoutB = payoutB
  paidIn = paidIn
  fee = fee
  Parties = {d1, d2}
  Payments = {paidIn}
  Payouts = {payoutA, payoutB}
  Postings = {fee}
  PartyOf <- PartyOfKey
  AmountOf <- Amounts
  OpeningBalance <- Opening
  NoAccount = NoAccount
  Orders = {o1}
  Drivers = {d1, d2}
  CashEnabled = {d1, d2}
  Methods = {"cod", "wallet"}
  CashLimit = 1
  NoDriver = NoDriver
CHECK_DEADLOCK FALSE
INVARIANTS
  OrdersTypeOK
  PostedIfApproved
  AccountIsItsLedger
PROPERTIES
  OverdrawnByOverlapOnly
  CashCarriersWithinLimit
  FirstClaimStands
