\* Every policy, unsubscribed by its owner or its callback, against both kinds of shutdown.
SPECIFICATION FairSpec
CONSTANTS
    Workers = {w1, w2}
    Executor = ex
    Owner = ow
    Stopper = sd
    NoThread = NoThread
    Subscriptions <- Varied
    MailboxCapacity = 1
    MaxOffers = 3
INVARIANTS
    TypeOK
    SilentAfterUnsubscribe
    StoppedUnlessLeaving
    EveryOfferAccounted
    DrainDelivers
PROPERTIES
    MailboxIsQueue
    MailboxWakesUp
    CallsReturn
