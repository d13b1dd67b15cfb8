\* A confirmation outlives its hold; no cancellation, no excess baggage.
SPECIFICATION Spec
CONSTANTS
    Passengers = {p1, p2}
    Seats = {s1}
    CheckInHandlers = {c1, c2}
    ExpiryHandlers = {e1}
    WaitlistHandlers = {}
    None = None
    MaxEvents = 0
    MaxCrashes = 0
    Starters = {p1, p2}
    Cancellers = {}
    DeclaredBaggage = {"within"}
    OrderlyClients = FALSE
    Joiners = {}
SYMMETRY Symmetry
INVARIANTS
    NoDoubleBooking
