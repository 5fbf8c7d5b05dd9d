CONSTANTS
    None = None
    p1 = p1
    c1 = c1
    c2 = c2
    Producers = {p1}
    Consumers = {c1, c2}
    SystemV = TRUE
    MaxCrashes = 2
    SegmentWords = 27
    MinLength = 1
    MaxLength = 3
SPECIFICATION FairSpec
INVARIANTS
    TypeOK
    MutualExclusion
    TakenByOne
    Consistent
    DrainedBeforeRemoval
PROPERTIES
    ImplementsPool
    EverybodyFinishes
