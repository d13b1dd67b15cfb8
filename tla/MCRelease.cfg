\* Two expiry handlers (notification and sweep, or two instances) against the
\* requests of two passengers for one seat.
SPECIFICATION RecordSpec
CONSTANTS
    Passengers = {p1, p2}
    Seats = {s1}
    CheckInHandlers = {c1}
    ExpiryHandlers = {e1, e2}
    WaitlistHandlers = {}
    None = None
    MaxEvents = 0
    MaxCrashes = 0
    Starters = {p1, p2}
    Cancellers = {p1, p2}
    DeclaredBaggage = {"within", "excess"}
    OrderlyClients = FALSE
    Joiners = {}
SYMMETRY Symmetry
INVARIANTS
    ReleasedAtMostOnce
    
PROPERTIES
    NoEarlyRelease
    ReleaseCancelsCheckIn
