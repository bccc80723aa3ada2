SPECIFICATION MCSpec
CONSTANTS
    None = None
    Flows = {f1, f2}
    Clients = {app1, app2}
    Callbacks = {1, 2}
    MaxAge = 1
    Requests = {1, 2, 3}
    Members = {alice, bob}
    Tokens = {t1, t2}
    Garbage = Garbage
    Writers = {1, 2}
    Callers = {c1, c2}
    Keys = {k1, k2}
    MaxBoots = 4
    Uploads = {1, 2}
    Reads = {r1}
    Deletes = {d1}
    TTL = 1
    MaxTime = 2
INVARIANTS
    TypesOK
    OneCallbackPerState
    GrantsAreInTimeAndRecorded
    RevocationReachesAll
    DeactivatedKeepOnlySpared
    PolicyMirroredUnlessCrossed
    SameVersionSamePolicy
    RetriesAfresh
    ReadsAreWhole
    SweepClears
PROPERTIES
    RunsAsOwner
    NewerEntrySurvives
CHECK_DEADLOCK FALSE
