\* Files of up to three frames, cameras and synthetic frames through a frame queue and a telemetry queue of one each.
SPECIFICATION Spec
CONSTANTS
    FrameQueueSize = 0
    CacheCapacity = 2
    TelemetryCapacity = 1
    InvisibleLimit = 1
    SourceFrames = 3
    MaxEvents = 1
    MaxCanFrames = 1
    Configs <- SomeConfigs
INVARIANTS
    TypeOK
    EveryFrameAnalysed
    NoThreadSurvives
    TelemetryComplete
PROPERTIES
    RunEnds
