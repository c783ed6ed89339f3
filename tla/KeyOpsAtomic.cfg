SPECIFICATION FairSpec
CONSTANTS
    Keys = {k1}
    Requests = {r1, r2, r3}
    Ops = {"create", "patch", "rootPatch"}
    Legacy = legacy
    NoRecord = NoRecord
    Nobody = Nobody
    Fallible = {"put", "putMeta", "open"}
    MaxFaults = 1
    MaxCrashes = 1
PROPERTIES EverySettles ImplementsAtomic
