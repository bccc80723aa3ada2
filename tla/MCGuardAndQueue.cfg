SPECIFICATION MCSpec
CONSTANTS
    Requests = {r1, r2, r3, r4}
    Members = {alice, bob}
    NoMember = NoMember
    OptMaxGlobal = 3
    OptMaxPerMember = 2
    Writers = {w1, w2}
    Readers = {g1}
    Connections = {k1, k2}
    Cold = Cold
    None = None
INVARIANTS
    TypeOK
    CountersMatchSlots
    CapsRespected
    DisableTypeOK
    WipedOnlyByBadLoad
PROPERTIES
    RefusedOnlyWhenFull
    CapacityReturns
    QueueDrains
