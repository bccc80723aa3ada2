SPECIFICATION MCSpec
CONSTANTS
    Handlers = {h1, h2}
    Members = {root, alice}
    First = root
    Sessions = {s1, s2}
    FirstSession = s1
    Cold = Cold
    Garbage = Garbage
    Reading = Reading
    None = None
SYMMETRY Symmetry
VIEW View
INVARIANTS
    TypeOK
    HasActiveAdmin
    SessionsAreActivated
    DeactivationSticksUnlessWiped
CHECK_DEADLOCK FALSE
