SPECIFICATION PortalSpec
CONSTANTS
    Visitors = {v1}
    Requests = {q1, q2}
    Pins = {p1, p2}
    NoPin = NoPin
    PinLimit = 1
    MaxVersion = 2
    MaxEventVersion = 3
    MaxWindow = 2
    LegacyPin = FALSE
    LateClocks = FALSE
SYMMETRY Alike
CHECK_DEADLOCK FALSE
INVARIANTS
    CookiesMatchPin
    ShownPinOpens
    GuessesAreCapped
PROPERTIES
    RevokedStaysRevoked
