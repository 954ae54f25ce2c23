\* Self-unsubscription of an isolated callback while shutdown joins its executor.
SPECIFICATION FairSpec
CONSTANTS
    Workers = {w1, w2}
    Executor = ex
    Owner = ow
    Stopper = sd
    NoThread = NoThread
    Subscriptions <- SelfLeaving
    MailboxCapacity = 1
    MaxOffers = 1
PROPERTY CallbackEnds
