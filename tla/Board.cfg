SPECIFICATION Spec
CONSTANTS
  ann = ann
  bob = bob
  cat = cat
  t1 = t1
  h1 = h1
  h2 = h2
  NoNumber = NoNumber
  NoTopic = NoTopic
  Players = {ann, bob, cat}
  Viewers = {ann}
  Authors = {ann, bob}
  Topics = {t1}
  Handlers = {h1, h2}
  MaxNotes = 1
  Labels <- MCLabels
  Blank = ""
  Folded <- MCFolded
  Value <- MCValue
  Hundredth = 10
  Default <- MCDefault
  MinDeck = 2
  MaxDeck = 3
  MaxPlayers = 3
  Decks <- MCDecks
  Length = 4
SYMMETRY Alike
INVARIANTS TypeOK CanVoteIsTrue NotesNearlyLimited ListsTidy SummaryRight
PROPERTIES PeeksPass
CHECK_DEADLOCK FALSE
