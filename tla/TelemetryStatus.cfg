\* The status of a run in which nothing failed: does it get to the broker?
SPECIFICATION Spec
CONSTANTS
    Capacity = 2
    Inflight = 1
    MaxFailures = 2
    Frames = 1
    MaxEvents = 1
    CanVersions <- SomeVersions
INVARIANTS
    StatusReachesBroker
