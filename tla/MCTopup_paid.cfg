SPECIFICATION FairSpec
CONSTANTS
  i1 = i1
  open = open
  paid = paid
  refused = refused
  e1 = e1
  e2 = e2
  e3 = e3
  w1 = w1
  w2 = w2
  p1 = p1
  Reports = {paid, refused}
  Events = {e2, e3}
  EventOf <- IdPerDelivery
  Nameless = {}
  Ignorable = {}
  NoReport = NoReport
  NoEvent = NoEvent
  Workers = {w1, w2}
  MaxAttempts = 2
  Intents = {i1}
  IntentOf <- OneIntent
  SaysOf <- Says
  NeedsTx = {i1}
  Replays = {}
  Pollers = {}
  NoIntent = NoIntent
  MaxCredits = 2
CHECK_DEADLOCK FALSE
INVARIANTS
  CreditedOnce
PROPERTIES
  JobEnds
  PaidIsCredited
