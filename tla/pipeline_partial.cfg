CONSTANTS
    portRule = portRule
    offlineRule = offlineRule
    Workers = {w1}
    Targets = {1, 2}
    Kinds = {"port"}
    Rules = {portRule, offlineRule}
    Condition <- PortAndOffline
    NoRule = NoRule
    MaxScans = 2
    MaxFaults = 0
SPECIFICATION Spec
INVARIANT OfflineIsObserved
CHECK_DEADLOCK FALSE
