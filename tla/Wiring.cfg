SPECIFICATION FairSpec
CONSTANTS
    Buckets = {b}
    Masters = {m1, m2}
    Off = Off
    Paths = {p}
    Nothing = Nothing
    MaxEdits = 2
    MaxFailures = 2
    MaxCrashes = 1
CHECK_DEADLOCK FALSE
INVARIANTS TypeOK RetryingIsCurrent ConnectedIsTrue EverythingRouted
PROPERTIES FedByItsMaster FollowsConfiguration
