SPECIFICATION Spec
CHECK_DEADLOCK FALSE
CONSTANTS
    p1 = p1
    p2 = p2
    p3 = p3
    e1 = e1
    e2 = e2
    LastNames = {1, 2}
    Names = {"n"}
    MaxItems = 1
INVARIANTS
    TypeOK
    PeersAgree
    CopiesTrue
    Numbered
    StructuresSound
    WorkSound
PROPERTIES
    ChatEnds
    NobodyWaits
    ListsImplement
    TreeImplements
    FollowsMask
