SPECIFICATION Spec
CONSTANTS
    Requests = {r1, r2}
    Keys = {k1}
    Identities = {i1, i2}
    Tokens = {t1, t2}
    Retention = 1
    MaxTime = 1
    Backends = {"sqlite"}
    None = None
SYMMETRY Symmetry
INVARIANTS
    ConflictMeansOtherIdentity
CHECK_DEADLOCK FALSE
