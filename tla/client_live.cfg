CONSTANTS
    KeyIds = {1, 2}
    Secrets = {s1}
    Callers = {c1}
    Refreshers = {r1}
    MaxRetries = 1
    NoKey = NoKey
SPECIFICATION FairSpec
PROPERTIES CallsReturn RefreshesEnd RejectionSticks CooldownIsServed
CHECK_DEADLOCK FALSE
