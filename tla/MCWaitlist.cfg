\* One seat: p1 and p3 take it and let their holds expire, p2 waits for it, and two
\* waitlist handlers overlap (join, leave, process); assigned holds expire too.
SPECIFICATION RecordSpec
CONSTANTS
    Passengers = {p1, p2, p3}
    Seats = {s1}
    CheckInHandlers = {c1}
    ExpiryHandlers = {e1}
    WaitlistHandlers = {w1, w2}
    None = None
    MaxEvents = 1
    MaxCrashes = 0
    Starters = {p1, p3}
    Cancellers = {}
    DeclaredBaggage = {}
    OrderlyClients = FALSE
    Joiners = {p2}
SYMMETRY StarterSymmetry
INVARIANTS
    AssignedEntryHasCheckIn
    ReleasedEntryExpires
    
    NoticesAreTrue
PROPERTIES
    ExpiredEntryStaysExpired
    ListRefined
