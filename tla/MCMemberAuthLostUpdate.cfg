SPECIFICATION Spec
CONSTANTS
    Handlers = {h1, h2}
    Members = {root, alice}
    First = root
    Sessions = {s1, s2}
    FirstSession = s1
    Cold = Cold
    Garbage = Garbage
    Reading = Reading
    None = None
SYMMETRY Symmetry
INVARIANTS
    DeactivationSticks
CHECK_DEADLOCK FALSE
