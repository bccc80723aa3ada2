SPECIFICATION Spec
CONSTANTS
    Runs = {1, 2, 3}
    Members = {alice, bob}
    NoMember = NoMember
    Withheld = {}
    Conns <- OneConn
    MaxAttempts = 2
    Budget = 0
    Cooldown = 0
    RunLimit = 3
    PageLimit = 1
    Quota = 1
    Cap = 1
    Day = 1
    MaxTime = 1
    None = None
    default = default
    backup = backup
    spare = spare
VIEW LogView
INVARIANTS
    QuotaHolds
CHECK_DEADLOCK FALSE
