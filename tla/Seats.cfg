SPECIFICATION FairSpec
CONSTANTS
  host = host
  ann = ann
  bob = bob
  cat = cat
  n1 = n1
  n2 = n2
  h1 = h1
  h2 = h2
  NoName = NoName
  People = {host, ann, bob, cat}
  Host = host
  Names = {n1, n2}
  Topics = {1}
  Handlers = {h1, h2}
  MaxPlayers = 2
  Retention = 2
INVARIANTS TypeOK LimitNearlyHolds TwinsRaced
PROPERTIES UsedRoomsStay EmptyRoomsGo
CHECK_DEADLOCK FALSE
