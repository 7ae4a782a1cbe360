SPECIFICATION FairSpec
CONSTANTS
  u1 = u1
  w1 = w1
  w2 = w2
  j1 = j1
  j2 = j2
  s1 = s1
  Users = {u1}
  Withdrawals = {w1}
  UserOf <- OneUser
  AmountOf <- Amounts
  OpeningBalance <- Opening
  DailyCap = 2
  Jobs = {j1}
  WithdrawalOf <- FirstRequest
  Senders = {s1}
  NoSender = NoSender
  NoPayout = NoPayout
CHECK_DEADLOCK FALSE
PROPERTIES
  MadePayoutSettles
