SPECIFICATION Spec
CONSTANTS
    Writers = {w1, w2}
    Readers = {g1}
    Keys = {k1, k2}
    Cold = Cold
    None = None
INVARIANTS
    NothingWiped
