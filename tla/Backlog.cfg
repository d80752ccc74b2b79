SPECIFICATION Spec
CONSTANTS
  t1 = t1
  t2 = t2
  t3 = t3
  k1 = k1
  k2 = k2
  h1 = h1
  h2 = h2
  None = None
  NoKey = NoKey
  Ids = {t1, t2, t3}
  Keys = {k1, k2}
  Listings <- TrackerLists
  Handlers = {h1, h2}
  MaxTopics = 2
  MaxTyped = 1
  LastPlace = 1
SYMMETRY Interchangeable
INVARIANTS TypeOK LimitHoldsAlone KeysOnce ClashesNeedOthers ImportsComplete NewTopicsLast
CHECK_DEADLOCK FALSE
