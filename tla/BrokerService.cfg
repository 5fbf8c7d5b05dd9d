SPECIFICATION FairSpec
CONSTANTS
    Broker = b
    p1 = p1
    p2 = p2
    s1 = s1
    s2 = s2
    Publishers = {p1, p2}
    Subscribers = {s1}
    TopicOf <- TwoTopics
    TopicsOf <- BothOrOne
    QueueLimit = 3
    ShutdownTimeout = 1
    MaxPublications = 1
    MaxSignals = 1
    MaxKills = 0
    Removable = TRUE
INVARIANTS
    ClientsServed
PROPERTIES
    EndsTogether
    EveryPublicationArrives
CHECK_DEADLOCK FALSE
