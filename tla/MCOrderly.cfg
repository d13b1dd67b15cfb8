\* Orderly clients that confirm, with and without excess baggage, and cancel. In the
\* end everybody is checked in or turned away, and the system stops.
SPECIFICATION Spec
CONSTANTS
    Passengers = {p1, p2, p3}
    Seats = {s1}
    CheckInHandlers = {c1, c2}
    ExpiryHandlers = {e1}
    WaitlistHandlers = {}
    None = None
    MaxEvents = 0
    MaxCrashes = 0
    Starters = {p1, p2, p3}
    Cancellers = {p1, p2, p3}
    DeclaredBaggage = {"within", "excess"}
    OrderlyClients = TRUE
    Joiners = {}
SYMMETRY Symmetry
CHECK_DEADLOCK FALSE
INVARIANTS
    CompletedCheckInOwnsSeat
    NoDoubleBooking
PROPERTIES
    HoldIsExclusive
    CheckInLifecycle
    BookingRefined
