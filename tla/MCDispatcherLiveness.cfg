\* What callbacks may call, shutdowns and destruction.
SPECIFICATION FairSpec
CONSTANTS
    p1 = p1
    w1 = w1
    w2 = w2
    c1 = c1
    c2 = c2
    s1 = s1
    s2 = s2
    ow = ow
    a = a
    b = b
    Publishers = {p1}
    Workers = {w1, w2}
    Clients = {c1, c2}
    Stoppers = {s1, s2}
    Owner = ow
    Subscribers = {a, b}
    Programs <- Liveness
    NoThread = NoThread
    QueueCapacity = 1
    WorkerBatchSize = 2
    BatchLength = 2
INVARIANTS
    TypeOK
    InQueueOrder
PROPERTIES
    EventsAreHandled
    CallsReturn
