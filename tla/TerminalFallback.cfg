\* The local CAN interface fails while the vehicle program keeps publishing.
SPECIFICATION Spec
CONSTANTS
    MaxRows = 1
    MaxVersions = 2
    MaxLocal = 2
    MaxLosses = 1
    BusIds = {"speed"}
PROPERTIES
    FallbackWhenUnavailable
