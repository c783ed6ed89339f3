SPECIFICATION Spec
CONSTANTS
    Keys = {k1}
    Connections = {c1, c2}
    Requests = {r1, r2}
    NoRecord = NoRecord
    MaxFaults = 0
SYMMETRY Symmetry
INVARIANT CloseCleansUp
