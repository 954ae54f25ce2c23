\* Liveness on a one-slot queue: two producers compete for the slot one consumer frees.
SPECIFICATION FairSpec
CONSTANTS
    Producers = {p1, p2}
    Consumers = {c1}
    Closers = {k1}
    Capacity = 1
    MaxEvents = 2
    CopyMayThrow = FALSE
    Empty = Empty
INVARIANT ProducerWakeups
PROPERTIES
    ProducersReleased
    ConsumersReleased
