SPECIFICATION MCSpec
CONSTANTS
    Callers = {c1, c2}
    Names = {n1}
    Kinds = {"api_key", "oauth", "oauth_without_refresh_token"}
    MaxSerial = 4
    None = None
INVARIANTS
    TypeOK
    LatestGrantKept
    OneRefreshPerRevision
    RefreshMapExact
PROPERTIES
    AnswerWasHeld
    CallsEnd
CHECK_DEADLOCK FALSE
