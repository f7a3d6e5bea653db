CONSTANTS
    KeyIds = {1, 2}
    Secrets = {s1}
    c1 = c1
    c2 = c2
    Callers = {c1, c2}
    Refreshers = {}
    MaxRetries = 1
    NoKey = NoKey
SPECIFICATION ObservedSpec
SYMMETRY CallerSymmetry
PROPERTY RejectedKeyIsSkipped
CHECK_DEADLOCK FALSE
