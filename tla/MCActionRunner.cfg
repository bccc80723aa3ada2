SPECIFICATION MCSpec
CONSTANTS
    Runs = {1, 2, 3}
    Members = {alice}
    NoMember = NoMember
    Withheld = {backup}
    Conns <- ThreeConns
    MaxAttempts = 2
    Budget = 0
    Cooldown = 1
    RunLimit = 2
    PageLimit = 2
    Quota = 1
    Cap = 2
    Day = 1
    MaxTime = 2
    None = None
    default = default
    backup = backup
    spare = spare
VIEW View
INVARIANTS
    TypeOK
    FallsBackOnlyWhenAllowed
    LatelyFailedComeLast
    PageIsNewest
    QuotaHoldsWhileRowsFit
CHECK_DEADLOCK FALSE
