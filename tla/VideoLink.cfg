\* Three frames in up to two runs, two connections of one frame each.
SPECIFICATION Spec
CONSTANTS
    Sockets <- TwoSockets
    SocketRoom = 2
    BufferLimit = 4
    BufferKeep = 3
    MaxFrames = 3
    MaxRuns = 2
    MaxDisturbances = 1
INVARIANTS
    TypeOK
    ShowsWholeFrames
    NothingLeftOpen
PROPERTIES
    NeverGoesBack
    NewestIsShown
    AlwaysRetries
