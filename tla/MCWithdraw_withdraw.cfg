SPECIFICATION Spec
CONSTANTS
  u1 = u1
  w1 = w1
  w2 = w2
  j1 = j1
  j2 = j2
  s1 = s1
  Users = {u1}
  Withdrawals = {w1, w2}
  UserOf <- OneUser
  AmountOf <- Amounts
  OpeningBalance <- Opening
  DailyCap = 1
  Jobs = {j1, j2}
  WithdrawalOf <- FirstRequest
  Senders = {s1}
  NoSender = NoSender
  NoPayout = NoPayout
SYMMETRY JobSymmetry
CHECK_DEADLOCK FALSE
INVARIANTS
  WithdrawTypeOK
  HoldFollowsRequest
  AccountAddsUp
  CancelledIsNeverSent
  JobsTellTheTruth
PROPERTIES
  ImplementsReservation
