SPECIFICATION Spec
CONSTANTS
    d1 = d1
    d2 = d2
    Device = {d1, d2}
    Username <- MCUsername
    Password <- MCPassword
    ValidUsername = {"alice", "bobby"}
    ValidPassword = {"Secret123"}
    Hash <- MCHash
    Existing <- MCNone
    MaxTaps = 1
    MaxViews = 1
    Scopes <- MCRaceScopes
INVARIANTS
    UniqueUsernames
