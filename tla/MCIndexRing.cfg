\* A ring of two indices, initially full or empty: two threads that enqueue and dequeue.
SPECIFICATION FairSpec
CONSTANTS
    Enqueuers = {a, b}
    Dequeuers = {a, b}
    Capacity = 2
    Initials = {TRUE, FALSE}
    MaxCalls = 8
INVARIANTS
    TypeOK
    IndexConserved
    NotStranded
    TicketsBounded
    HonestEmpty
PROPERTY SomeCallReturns
