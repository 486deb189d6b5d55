CONSTANTS
    Pins = {1, 2}
    PinLength <- MCPinLength
    MinLengths = {4, 6}
    DefaultMin = 4
    MaxRetries = 3
    MaxMismatches = 2
    RPs = {r1, r2}
    NoRp = NoRp
    Requests <- MCRequests
    UsageLimit = 0
    ResetWindow = 1
    MaxForgotten = 1
SPECIFICATION Spec
SYMMETRY MCSymmetry
INVARIANTS
    TypeOK
    GuessLimit
    PowerUpLimit
    PolicyHolds
    TokenOfThisPin
    OneRelyingParty
    OnePresence
