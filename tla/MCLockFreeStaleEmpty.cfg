\* A pop that races with the last push and close.
SPECIFICATION Spec
CONSTANTS
    p1 = p1  p2 = p2  c1 = c1  c2 = c2  k1 = k1
    Producers = {p1}
    Consumers = {c1}
    Closers = {k1}
    Programs <- LastPush
    Capacity = 2
    Empty = Empty
    NoThread = NoThread
INVARIANT ClosedIsFinal
