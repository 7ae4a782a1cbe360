SPECIFICATION Spec
CONSTANTS
  c1 = c1
  r1 = r1
  r2 = r2
  u1 = u1
  u2 = u2
  d1 = d1
  d2 = d2
  t1 = t1
  t2 = t2
  Users = {u1, u2}
  Devices = {d1, d2}
  Tokens = {t1, t2}
  FirstDevices <- MCFirstDevices
  Registrations <- Reinstalled
  Notices <- MCNotices
  UserOf <- MCUserOf
  Workers = {w1, w2}
  Nobody = Nobody
  NoToken = NoToken
  NoItem = NoItem
  Campaigns = {c1}
  Runs = {r1, r2}
  MaxDeciding = 1
  FirstPreferences <- MCFirstPreferences
  Settings <- MCSettings
  TokensOnly = TRUE
  NoNotice = NoNotice
SYMMETRY Symmetry
INVARIANT CampaignsTypeOK
INVARIANT RecordedSentWasSent
INVARIANT CountNeverOverstates
INVARIANT AcceptedIsNotRetried
INVARIANT MutedAreLeftAlone
CHECK_DEADLOCK FALSE
