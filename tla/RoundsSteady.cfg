SPECIFICATION FairSpec
CONSTANTS
  ann = ann
  bob = bob
  five = five
  coffee = coffee
  h1 = h1
  h2 = h2
  Players = {ann, bob}
  Host = ann
  Topics = {1}
  Estimates = {five}
  Escapes = {coffee}
  NoCard = NoCard
  Serial = FALSE
  Decks = {{five}}
  Modes = {"sync", "async"}
  Autos = {TRUE}
  Handlers = {h1, h2}
  Ops = {"cast", "clear", "reveal", "reset", "finalize", "join"}
INVARIANTS RevealNotMissed ColumnsAgree
PROPERTY VotedTurnsFaceUp
CHECK_DEADLOCK FALSE
