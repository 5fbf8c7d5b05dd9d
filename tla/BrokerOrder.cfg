SPECIFICATION Spec
CONSTANTS
    Broker = b
    p1 = p1
    p2 = p2
    s1 = s1
    s2 = s2
    Publishers = {p1}
    Subscribers = {s1, s2}
    TopicOf <- OneTopic
    TopicsOf <- OneTopicTwice
    QueueLimit = 2
    ShutdownTimeout = 1
    MaxPublications = 2
    MaxSignals = 1
    MaxKills = 1
    Removable = FALSE
INVARIANTS
    TypeOK
    DeliveredInOrder
    NoStaleSubscription
CHECK_DEADLOCK FALSE
