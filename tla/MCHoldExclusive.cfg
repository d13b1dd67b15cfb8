\* One request at a time, no expiry: p1 cancels a cancelled check-in.
SPECIFICATION Spec
CONSTANTS
    Passengers = {p1, p2}
    Seats = {s1}
    CheckInHandlers = {c1}
    ExpiryHandlers = {}
    WaitlistHandlers = {}
    None = None
    MaxEvents = 0
    MaxCrashes = 0
    Starters = {p1, p2}
    Cancellers = {p1, p2}
    DeclaredBaggage = {}
    OrderlyClients = FALSE
    Joiners = {}
SYMMETRY Symmetry
PROPERTIES
    HoldIsExclusive
