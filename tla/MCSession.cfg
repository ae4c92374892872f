SPECIFICATION Spec
CONSTANTS
    d1 = d1
    Device = {d1}
    Username <- MCUsername
    Password <- MCPassword
    Hash <- MCHash
    Account <- MCAccount
    Existing <- MCExisting
    Guest = "guest"
    MaxInFlight = 2
    MaxScreens = 3
    MaxTaps = 3
INVARIANTS
    TypeOK
    MapImpliesAccount
    Nesting
    LoggedOutMeansNoAccount
PROPERTIES
    AccountNeedsCredentials
    OnlyLateAnswersMislead
    ImplementsSessions
