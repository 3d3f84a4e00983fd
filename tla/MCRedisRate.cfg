\* Two handlers at a time: the limit itself is not kept.
SPECIFICATION RSpec
CONSTANTS
    k1 = k1
    r1 = r1
    r2 = r2
    r3 = r3
    r4 = r4
    Request = {r1, r2}
    ApiKey = {k1}
    KeyOf <- MCKeyOf
    Allowed = {k1}
    Limit = 1
    Window = 2
    FailLimit = 1
    FailWindow = 2
    MaxTime = 1
    MaxInFlight = 2
    MaxDelay = 1
SYMMETRY MCSymmetry
INVARIANT RateHolds
CHECK_DEADLOCK FALSE
