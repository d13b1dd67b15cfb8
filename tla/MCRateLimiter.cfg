\* Two clients over a time in which windows, keys and abuse events run out.
SPECIFICATION Spec
CONSTANTS
    Clients = {c1, c2}
    MaxRequests = 3
    WindowMs = 4
    MaxDelay = 1
    Retention = 1
    MaxEvents = 1
    MaxTime = 5
INVARIANTS
    WindowBound
    AbuseEventsAreTrue
