SPECIFICATION FairSpec
CONSTANTS
  ann = ann
  bob = bob
  h1 = h1
  c1 = c1
  c2 = c2
  People = {ann, bob}
  Host = ann
  Handlers = {h1}
  Conns = {c1, c2}
  Owner <- OwnerValue
  Cap = 1
INVARIANTS TypeOK NothingForgotten
PROPERTIES ViewsCatchUp UnlistedLeave RemovedLeave
CHECK_DEADLOCK FALSE
