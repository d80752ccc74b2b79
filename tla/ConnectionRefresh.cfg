SPECIFICATION Spec
CONSTANTS
  Grants = {g1}
  Offline = {g1}
  States = {s1}
  Handlers = {h1, h2}
  NoGrant = NoGrant
  Unissued = Unissued
  Gone = Gone
  TTL = 4
  Life = 3
  StateLife = 1
  Horizon = 4
PROPERTY RefreshKeepsConnection
CHECK_DEADLOCK FALSE
