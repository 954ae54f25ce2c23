\* Calls that do not wait around close and close_and_discard, and calls that wait, are cancelled or closed upon.
SPECIFICATION FairSpec
CONSTANTS
    p1 = p1  p2 = p2  c1 = c1  c2 = c2  k1 = k1
    Producers = {p1, p2}
    Consumers = {c1, c2}
    Closers = {k1}
    Programs <- Mixed
    Capacity = 2
    Empty = Empty
    NoThread = NoThread
INVARIANTS
    TypeOK
    SlotsOwned
    NothingLost
PROPERTIES
    ImplementsFifo
    ProducersReleased
    ConsumersReleased
    CancelReturns
