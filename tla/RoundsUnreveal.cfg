SPECIFICATION Spec
CONSTANTS
  ann = ann
  bob = bob
  five = five
  coffee = coffee
  h1 = h1
  h2 = h2
  Players = {ann, bob}
  Host = ann
  Topics = {1}
  Estimates = {five}
  Escapes = {coffee}
  NoCard = NoCard
  Serial = FALSE
  Decks = {{five}}
  Modes = {"async"}
  Autos = {TRUE}
  Handlers = {h1, h2}
  Ops = {"cast", "reveal", "reset"}
PROPERTY FaceUpStays
CHECK_DEADLOCK FALSE
