\* A live window on a camera that cannot be opened.
SPECIFICATION Spec
CONSTANTS
    FrameQueueSize = 0
    CacheCapacity = 2
    TelemetryCapacity = 1
    InvisibleLimit = 1
    SourceFrames = 3
    MaxEvents = 1
    MaxCanFrames = 1
    Configs <- UnopenedCamera
PROPERTIES
    QuitEndsRun
