\* The seat p1 gives back while an earlier run of the waitlist still owns the lock.
SPECIFICATION FairSpec
CONSTANTS
    Passengers = {p1, p2}
    Seats = {s1}
    CheckInHandlers = {c1}
    ExpiryHandlers = {}
    WaitlistHandlers = {w1, w2}
    None = None
    MaxEvents = 1
    MaxCrashes = 0
    Starters = {p1}
    Cancellers = {p1}
    DeclaredBaggage = {}
    OrderlyClients = FALSE
    Joiners = {p2}
PROPERTIES
    FreedSeatIsAssigned
