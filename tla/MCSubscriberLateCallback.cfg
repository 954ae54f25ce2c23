\* A self-unsubscribed callback that shutdown no longer sees.
SPECIFICATION Spec
CONSTANTS
    Workers = {w1, w2}
    Executor = ex
    Owner = ow
    Stopper = sd
    NoThread = NoThread
    Subscriptions <- SelfLeaving
    MailboxCapacity = 1
    MaxOffers = 1
INVARIANT StoppedIsSilent
