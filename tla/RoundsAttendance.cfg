SPECIFICATION Spec
CONSTANTS
  ann = ann
  bob = bob
  five = five
  coffee = coffee
  h1 = h1
  h2 = h2
  Players = {ann, bob}
  Host = ann
  Topics = {1}
  Estimates = {five}
  Escapes = {coffee}
  NoCard = NoCard
  Serial = FALSE
  Decks = {{five}}
  Modes = {"sync", "async"}
  Autos = {TRUE, FALSE}
  Handlers = {h1, h2}
  Ops = {"cast", "delete", "kick", "join", "profile", "settings",
         "connect", "disconnect", "abort"}
SYMMETRY Interchangeable
INVARIANTS AutoRevealEarned CardsHaveOwners
CHECK_DEADLOCK FALSE
