SPECIFICATION FairSpec
CONSTANTS
    Broker = b
    p1 = p1
    p2 = p2
    s1 = s1
    s2 = s2
    Publishers = {p1}
    Subscribers = {s1}
    TopicOf <- OneTopic
    TopicsOf <- OneTopicOnce
    QueueLimit = 2
    ShutdownTimeout = 1
    MaxPublications = 1
    MaxSignals = 1
    MaxKills = 0
    Removable = FALSE
PROPERTIES
    SubscriberEndsWhenTold
CHECK_DEADLOCK FALSE
