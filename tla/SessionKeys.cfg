SPECIFICATION FairSpec
CONSTANTS
    Keys = {k1}
    Connections = {c1, c2}
    Requests = {r1, r2, r3}
    NoRecord = NoRecord
    MaxFaults = 1
INVARIANTS TypeOK OpenIsRegistered ClosedIsRemoved
PROPERTIES RemovedForAReason SessionRecordsGo
