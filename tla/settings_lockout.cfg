CONSTANTS
    cors = cors
    on = on
    RestartKeys = {cors}
    Values = {on}
    Schedules = {daily}
    Names = {blank}
    Blank = blank
    Admin = admin
    Rejected = {outOfRange}
    Pinned <- CorsPinned
    Passwords = {chosen}
    Generated = generated
    NoPassword = noPassword
SPECIFICATION Spec
INVARIANTS EnabledHasAdmin
CHECK_DEADLOCK FALSE
