SPECIFICATION Spec
CONSTANTS
    d1 = d1
    Device = {d1}
    Board = {"akul", "library"}
    Seeded <- MCSeeded
    Cached <- MCSeeded
    Scopes <- MCTwice
INVARIANTS
    NoOldPosts
