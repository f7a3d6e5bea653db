CONSTANTS
    KeyIds = {1}
    Secrets = {s1}
    Goroutines = {g1, g2}
    Savers = {p1}
    MaxVersion = 2
    Nobody = Nobody
    Keep = Keep
SPECIFICATION FairSpec
INVARIANTS TypeOK SettledPoolIsCurrent
PROPERTIES PoolNeverGoesBack OpsReturn WritesReachPool
CHECK_DEADLOCK FALSE
