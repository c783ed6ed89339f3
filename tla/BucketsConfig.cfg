SPECIFICATION Spec
CONSTANTS
    Ids = {x}
    Tasks = {t1, t2}
    Ops = {"write", "configure"}
    Generations = 4
    NoBucket = NoBucket
    NoConfig = NoConfig
    Nobody = Nobody
    MaxFaults = 0
    MaxCrashes = 0
SYMMETRY Symmetry
INVARIANT StoredConfigKept
