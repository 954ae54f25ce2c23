\* Membership against two workers; concurrent shutdowns; membership against shutdown.
SPECIFICATION Spec
CONSTANTS
    p1 = p1
    w1 = w1
    w2 = w2
    c1 = c1
    c2 = c2
    s1 = s1
    s2 = s2
    ow = ow
    a = a
    b = b
    Publishers = {p1}
    Workers = {w1, w2}
    Clients = {c1, c2}
    Stoppers = {s1, s2}
    Owner = ow
    Subscribers = {a, b}
    Programs <- Safety
    NoThread = NoThread
    QueueCapacity = 1
    WorkerBatchSize = 2
    BatchLength = 2
SYMMETRY Symmetry
INVARIANTS
    EveryAudienceHears
    SilentAfterUnsubscribe
    ShutdownIsComplete
    MetricsExact
PROPERTY MembershipFrozen
