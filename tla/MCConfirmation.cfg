\* Two confirmations with one retry each: the allowance itself, just above it (half
\* a cent, which may be rounded to 0), a larger excess, and a weight that does not
\* fit its column.
SPECIFICATION FairSpec
CONSTANTS
    Calls = {c1, c2}
    MaxRetries = 1
    None = None
    MaxBaggage = 25000
    FeePerKg = 10
    Weights = {25000, 25050, 26590, 999995}
CHECK_DEADLOCK FALSE
INVARIANTS
    ConfirmedIsCharged
    FailureIsExhausted
    CompletedIsPaid
    FeeIsNearest
    AwaitedFeeIsForWeight
PROPERTIES
    BillingRefined
    ConfirmationEnds
