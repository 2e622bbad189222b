\* One frame with up to one event, a queue of two, a window of one, two faults.
SPECIFICATION Spec
CONSTANTS
    Capacity = 2
    Inflight = 1
    MaxFailures = 2
    Frames = 1
    MaxEvents = 1
    CanVersions <- SomeVersions
INVARIANTS
    TypeOK
    LeaksBounded
    LibraryOutlivesClients
    FirstArrivalsInOrder
PROPERTIES
    ImplementsOutbox
