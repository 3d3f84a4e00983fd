\* Two handlers at a time on one Redis, commands interleaved, calls that fail.
SPECIFICATION RSpec
CONSTANTS
    k1 = k1
    r1 = r1
    r2 = r2
    r3 = r3
    r4 = r4
    Request = {r1, r2, r3, r4}
    ApiKey = {k1}
    KeyOf <- MCKeyOf
    Allowed = {k1}
    Limit = 1
    Window = 3
    FailLimit = 1
    FailWindow = 2
    MaxTime = 3
    MaxInFlight = 2
    MaxDelay = 1
SYMMETRY MCSymmetry
INVARIANTS RTypeOK OvershootBounded
PROPERTIES CircuitRespected QuietClientServed
CHECK_DEADLOCK FALSE
