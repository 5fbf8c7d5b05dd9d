SPECIFICATION FairSpec
CONSTANTS
    Drivers = {1, 2}
    DriverMax = 2
    Timers = {1}
    Second = 2
    InputFrames = 1
    SocketRoom = 5
    ChunkMax = 2
    MaxCommands = 4
    ForkWeight = 2
    MaxKills = 1
    MaxTime = 2
INVARIANTS
    TypeOK
    TablesTrue
    AnswersTrue
    NobodyLeftBehind
PROPERTIES
    ServiceGoesOn
    EndsWhenTold
