\* Closing while two consumers wait.
SPECIFICATION FairSpec
CONSTANTS
    p1 = p1  p2 = p2  c1 = c1  c2 = c2  k1 = k1
    Producers = {p1}
    Consumers = {c1, c2}
    Closers = {k1}
    Programs <- TwoWaiting
    Capacity = 2
    Empty = Empty
    NoThread = NoThread
PROPERTY ConsumersReleased
