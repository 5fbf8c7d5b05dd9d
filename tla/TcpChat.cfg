SPECIFICATION FairSpec
CONSTANTS
    c1 = c1
    c2 = c2
    c3 = c3
    c4 = c4
    Clients = {c1, c2, c3, c4}
    SlotMax = 3
    ServerOut = 1
    ClientOut = 1
    IncomingMax = 1
    Wire = 1
    Size = 1
    Scripts <- MCScripts
INVARIANTS
    TypeOK
    SlotsOwned
    InOrderOnce
    FramesAccepted
    NoOrphans
PROPERTIES
    SettlesDown
