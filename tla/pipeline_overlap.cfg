CONSTANTS
    portRule = portRule
    offlineRule = offlineRule
    Workers = {w1, w2}
    Targets = {1}
    Kinds = {"port"}
    Rules = {portRule, offlineRule}
    Condition <- PortAndOffline
    NoRule = NoRule
    MaxScans = 2
    MaxFaults = 0
SPECIFICATION Spec
INVARIANT NoMutualDiffs
CHECK_DEADLOCK FALSE
