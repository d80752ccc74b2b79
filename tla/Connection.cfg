SPECIFICATION FairSpec
CONSTANTS
  Grants = {g1, g2}
  Offline = {g1}
  States = {s1, s2}
  Handlers = {h1, h2}
  NoGrant = NoGrant
  Unissued = Unissued
  Gone = Gone
  TTL = 4
  Life = 3
  StateLife = 1
  Horizon = 4
INVARIANTS TypeOK RetentionKept UsedInTime
PROPERTY PastDeadlineForgotten
CHECK_DEADLOCK FALSE
