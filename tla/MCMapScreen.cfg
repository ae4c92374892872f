SPECIFICATION Spec
CONSTANTS
    akul = akul
    library = library
    Pin = {akul, library}
    None = None
    FirstBoard = FirstBoard
INVARIANTS
    TypeOK
    OpensTappedBoard
    PinsCanBeTapped
    CentresOnUser
PROPERTIES
    TapOpensBoard
    TapPlacesPins
