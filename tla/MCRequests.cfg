\* Two passengers compete for one seat: two overlapping requests (start, confirm
\* with and without excess baggage, cancel) and one expiry handler, with locks
\* expiring at any time.
SPECIFICATION Spec
CONSTANTS
    Passengers = {p1, p2}
    Seats = {s1}
    CheckInHandlers = {c1, c2}
    ExpiryHandlers = {e1}
    WaitlistHandlers = {}
    None = None
    MaxEvents = 0
    MaxCrashes = 0
    Starters = {p1, p2}
    Cancellers = {p1, p2}
    DeclaredBaggage = {"within", "excess"}
    OrderlyClients = FALSE
    Joiners = {}
SYMMETRY Symmetry
INVARIANTS
    TypeOK
    HeldSeatHasActiveCheckIn
    ExcessBaggageIsPaid
PROPERTIES
    HoldsTakeFreeSeatsOnly
