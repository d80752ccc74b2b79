SPECIFICATION Spec
CONSTANTS
  ann = ann
  bob = bob
  five = five
  coffee = coffee
  h1 = h1
  Players = {ann, bob}
  Host = ann
  Topics = {1, 2}
  Estimates = {five}
  Escapes = {coffee}
  NoCard = NoCard
  Serial = TRUE
  Decks = {{five}, {coffee}}
  Modes = {"sync", "async"}
  Autos = {TRUE}
  Handlers = {h1}
  Ops = {"cast", "clear", "reveal", "reset", "finalize", "delete", "focus",
         "next", "prev", "kick", "profile", "join", "deck",
         "connect", "disconnect"}
INVARIANTS TypeOK CurrentHasRow
PROPERTY PlaysPlanningPoker
CHECK_DEADLOCK FALSE
