SPECIFICATION FairSpec
CONSTANTS
    Drivers = {1}
    DriverMax = 1
    Timers = {1}
    Second = 2
    InputFrames = 1
    SocketRoom = 1
    ChunkMax = 4
    MaxCommands = 4
    ForkWeight = 1
    MaxKills = 0
    MaxTime = 0
PROPERTIES
    EndsWhenTold
CHECK_DEADLOCK FALSE
