SPECIFICATION Spec
CONSTANTS
    Requests = {r1, r2, r3}
    Keys = {k1, k2}
    Identities = {i1, i2}
    Tokens = {t1}
    Retention = 2
    MaxTime = 3
    Backends = {"sqlite", "d1"}
    None = None
SYMMETRY Symmetry
INVARIANTS
    TypeOK
    AnswersHaveCause
    RowsBelongToOwners
PROPERTIES
    LeaseHonoured
    ImplementsContract
CHECK_DEADLOCK FALSE
