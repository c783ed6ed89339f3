SPECIFICATION Spec
CONSTANTS
    Keys = {k1}
    Requests = {r1, r2, r3}
    Ops <- AllOps
    Legacy = legacy
    NoRecord = NoRecord
    Nobody = Nobody
    Fallible = {"read", "put", "putMeta", "open"}
    MaxFaults = 1
    MaxCrashes = 2
SYMMETRY Symmetry
INVARIANTS TypeOK MetaAgrees MirrorAgrees NoLostPatch SingleCreator NoStaleSession
