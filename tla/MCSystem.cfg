\* All three services on two seats: one handler each, assigned and sweeping seats one
\* after the other, with one handler or event lost.
SPECIFICATION Spec
CONSTANTS
    Passengers = {p1, p2}
    Seats = {s1, s2}
    CheckInHandlers = {c1}
    ExpiryHandlers = {e1}
    WaitlistHandlers = {w1}
    None = None
    MaxEvents = 1
    MaxCrashes = 1
    Starters = {p1}
    Cancellers = {p1}
    DeclaredBaggage = {}
    OrderlyClients = FALSE
    Joiners = {p2}
SYMMETRY SeatSymmetry
INVARIANTS
    HoldKeysNameCheckIns
    LocksAreOwned
PROPERTIES
    LedgerRefined
