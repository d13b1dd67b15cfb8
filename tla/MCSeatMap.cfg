\* Two requests and two changes of the flight's seats, whose invalidations may
\* be late or lost, over a time in which a cached map runs out twice.
SPECIFICATION Spec
CONSTANTS
    Visits = {v1, v2}
    CacheTtl = 2
    MaxFill = 1
    MaxVersion = 2
    MaxTime = 6
INVARIANTS
    AnswersAreRecent
    StaleMapHasCause
