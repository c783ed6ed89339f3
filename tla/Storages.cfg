SPECIFICATION Spec
CONSTANTS
    Keys = {k1, k2}
    Requests = {r1, r2}
    Master = Master
    Absent = Absent
    None = None
    MaxToggles = 2
    MaxRestarts = 1
    MaxSyncs = 1
    MaxClock = 1
    MaxGenerated = 3
SYMMETRY Symmetry
CHECK_DEADLOCK FALSE
INVARIANTS TypeOK EventsTellWhatIsServed FreshKeys
