SPECIFICATION Spec
CONSTANTS
    b1 = b1
    b2 = b2
    k = k
    Buckets = {b1, b2}
    Keys = {k}
    Star = Star
    None = None
    Http = Http
    Connections = {c1, c2}
    Requests = {r1, r2}
    Topics <- OneTopic
    Registrations <- Lists
    Secured = TRUE
    PublicRead = TRUE
    MaxRegistrations = 2
    MaxBreaks = 1
SYMMETRY Symmetry
CHECK_DEADLOCK FALSE
INVARIANTS TypeOK AnsweredOnce EveryEventOnce EventsAreOfSuccesses BucketUnderItsName
