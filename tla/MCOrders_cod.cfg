SPECIFICATION FairSpec
CONSTANTS
  o1 = o1
  d1 = d1
  d2 = d2
  payoutA = payoutA
  payoutB = payoutB
  paidIn = paidIn
  fee = fee
  Parties = {d1, d2}
  Payments = {}
  Payouts = {}
  Postings = {}
  PartyOf <- PartyOfKey
  AmountOf <- Amounts
  OpeningBalance <- Opening
  NoAccount = NoAccount
  Orders = {o1}
  Drivers = {d1, d2}
  CashEnabled = {d1}
  Methods = {"cod"}
  CashLimit = 1
  NoDriver = NoDriver
CHECK_DEADLOCK FALSE
PROPERTIES
  CashDeliveryEnds
