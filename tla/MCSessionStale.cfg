SPECIFICATION Spec
CONSTANTS
    d1 = d1
    Device = {d1}
    Username <- MCUsername
    Password <- MCPassword
    Hash <- MCHash
    Account <- MCAccount
    Existing <- MCExisting
    Guest = "guest"
    MaxInFlight = 2
    MaxScreens = 2
    MaxTaps = 3
PROPERTIES
    LoginOnlyOnMatch
