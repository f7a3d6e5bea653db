CONSTANTS
    portRule = portRule
    offlineRule = offlineRule
    Workers = {w1}
    Targets = {1}
    Kinds = {"port"}
    Rules = {portRule, offlineRule}
    Condition <- PortAndOffline
    NoRule = NoRule
    MaxScans = 3
    MaxFaults = 1
SPECIFICATION FairSpec
INVARIANTS TypeOK NothingGoesUnreported DiffsFollowEachOther AlertsAreTrue
PROPERTIES ScansEnd
CHECK_DEADLOCK FALSE
