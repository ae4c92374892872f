SPECIFICATION Spec
CONSTANTS
    d1 = d1
    d2 = d2
    Device = {d1, d2}
    Username <- MCUsername
    Password <- MCPassword
    ValidUsername = {"alice", "bobby"}
    ValidPassword = {"Secret123"}
    Hash <- MCHash
    Existing <- MCExisting
    MaxTaps = 2
    MaxViews = 2
    Scopes <- MCScopes
INVARIANTS
    TypeOK
    OneAccountPerDevice
    AccountsWellFormed
PROPERTIES
    RequestsSettle
    ImplementsDirectory
