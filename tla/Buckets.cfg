SPECIFICATION FairSpec
CONSTANTS
    Ids = {x}
    Tasks = {t1, t2}
    Ops <- AllOps
    Generations = 4
    NoBucket = NoBucket
    NoConfig = NoConfig
    Nobody = Nobody
    MaxFaults = 1
    MaxCrashes = 1
INVARIANTS TypeOK  DeletesWhatItClosed
PROPERTIES WritesAreServed EverySettles
