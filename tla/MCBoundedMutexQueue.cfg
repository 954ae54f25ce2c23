\* Safety and refinement: 2 producers, 2 consumers, one closing thread.
SPECIFICATION Spec
CONSTANTS
    Producers = {p1, p2}
    Consumers = {c1, c2}
    Closers = {k1}
    Capacity = 2
    MaxEvents = 2
    CopyMayThrow = TRUE
    Empty = Empty
SYMMETRY Symmetry
INVARIANTS
    TypeOK
    RingOK
    NothingLost
    EndIsFinal
    ConsumerWakeups
    CloseReleases
PROPERTY ImplementsContract
