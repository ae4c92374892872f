SPECIFICATION Spec
CONSTANTS
    d1 = d1
    Device = {d1}
    Board = {"akul", "library"}
    Seeded <- MCSeeded
    Cached <- MCCached
    Scopes <- MCAll
INVARIANTS
    TypeOK
    PostsOfCurrentBoard
    EachPageListedOnce
PROPERTY
    PagesArrive
