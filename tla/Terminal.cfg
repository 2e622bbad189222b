\* Two frames of the vehicle program, two of the bus of the board, one mishap.
SPECIFICATION Spec
CONSTANTS
    MaxRows = 1
    MaxVersions = 2
    MaxLocal = 2
    MaxLosses = 1
    BusIds = {"speed"}
INVARIANTS
    TypeOK
    DisplayFollowsSource
    ConvergesToNewest
    ConnectionLabelRight
