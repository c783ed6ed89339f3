SPECIFICATION Spec
CONSTANTS
    Keys = {k1, k2}
    Kinds = {"value"}
    KeepLocal = FALSE
    Absent = Absent
    Local = Local
    None = None
    MaxChanges = 2
    MaxBroadcasts = 0
    MaxDrops = 0
    MaxFaults = 0
INVARIANT Converges
