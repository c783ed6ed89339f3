SPECIFICATION FairSpec
CONSTANTS
    Keys = {k1}
    Kinds = {"value", "falsy", "deleted"}
    KeepLocal = FALSE
    Absent = Absent
    Local = Local
    None = None
    MaxChanges = 2
    MaxBroadcasts = 1
    MaxDrops = 1
    MaxFaults = 1
INVARIANTS TypeOK Agrees
PROPERTIES NoStepBack Settles
