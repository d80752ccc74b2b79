SPECIFICATION Spec
CONSTANTS
    h1 = h1
    h2 = h2
    five = five
    xl = xl
    unknown = unknown
    none = none
    bug = bug
    Handlers = {h1, h2}
    v1 = v1
    Voters = {v1}
    Deck = {five, xl, unknown}
    Escapes = {unknown}
    Numbers = {five}
    NoCard = none
    Labels = {bug}
    LastName = 2
SYMMETRY Alike
INVARIANTS TypeOK
PROPERTIES SentIsThere LabelsKept StoredFaceUp
