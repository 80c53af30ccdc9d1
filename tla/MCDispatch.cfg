SPECIFICATION FairSpec
CONSTANTS
    Topics <- MCTopics
    Consumers <- MCConsumers
    Wants <- MCWants
    QueueSize = 2
    InboxSize = 1
    MaxMessages = 4
INVARIANTS
    SingleDrain
    InOrder
    NoSilentGap
PROPERTIES
    NewestDelivered
    ImplementsChannel
CHECK_DEADLOCK FALSE
