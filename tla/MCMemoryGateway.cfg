\* Concurrent handlers on one memory limiter, restarts included.
SPECIFICATION MSpec
CONSTANTS
    k1 = k1
    stranger = stranger
    r1 = r1
    r2 = r2
    r3 = r3
    r4 = r4
    r5 = r5
    Request = {r1, r2, r3, r4, r5}
    ApiKey = {k1, stranger}
    KeyOf <- MCKeyOf
    Allowed = {k1}
    Limit = 2
    Window = 2
    FailLimit = 2
    FailWindow = 3
    MaxTime = 4
SYMMETRY MCSymmetry
INVARIANT GTypeOK
PROPERTIES WindowImplemented CircuitRespected QuietClientServed
CHECK_DEADLOCK FALSE
