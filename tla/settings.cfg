CONSTANTS
    cors = cors
    on = on
    RestartKeys = {port, cors}
    Values = {on, off, outOfRange}
    Schedules = {daily, hourly, garbled}
    Names = {blank, bob}
    Blank = blank
    Admin = admin
    Rejected = {outOfRange, garbled}
    Pinned <- CorsPinned
    Passwords = {chosen}
    Generated = generated
    NoPassword = noPassword
SPECIFICATION Spec
INVARIANTS TypeOK ShownIsStored ComponentsFollow FileStarts
PROPERTIES PasswordIsForTheAdmin
CHECK_DEADLOCK FALSE
