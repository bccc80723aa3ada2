SPECIFICATION Spec
CONSTANTS
    Runs = {1, 2}
    Members = {}
    NoMember = NoMember
    Withheld = {backup}
    Conns <- ThreeConns
    MaxAttempts = 2
    Budget = 0
    Cooldown = 1
    RunLimit = 1
    PageLimit = 1
    Quota = 1
    Cap = 1
    Day = 1
    MaxTime = 2
    None = None
    default = default
    backup = backup
    spare = spare
INVARIANTS
    GrantsHold
CHECK_DEADLOCK FALSE
