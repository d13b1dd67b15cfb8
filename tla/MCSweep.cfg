\* Overdue holds end, although a handler may be lost at any step, notifications may
\* not arrive and the other passenger may keep asking for the seat.
SPECIFICATION FairSpec
CONSTANTS
    Passengers = {p1, p2}
    Seats = {s1}
    CheckInHandlers = {c1}
    ExpiryHandlers = {e1}
    WaitlistHandlers = {}
    None = None
    MaxEvents = 0
    MaxCrashes = 1
    Starters = {p1, p2}
    Cancellers = {}
    DeclaredBaggage = {"within"}
    OrderlyClients = FALSE
    Joiners = {}
PROPERTIES
    OverdueHoldsEnd
