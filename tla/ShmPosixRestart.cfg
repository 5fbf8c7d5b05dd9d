CONSTANTS
    None = None
    p1 = p1
    p2 = p2
    c1 = c1
    c2 = c2
    Producers = {p1, p2}
    Consumers = {c1, c2}
    SystemV = FALSE
    MaxCrashes = 0
    SegmentWords = 22
    MinLength = 1
    MaxLength = 3
SYMMETRY Symmetry
SPECIFICATION Spec
INVARIANTS
    MutualExclusion
