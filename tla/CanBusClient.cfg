\* Three frames of every kind, two of them in the socket at a time.
SPECIFICATION Spec
CONSTANTS
    MaxFrames = 3
    RxLimit = 2
INVARIANTS
    TypeOK
    ReadsOpenSocketOnly
    SignalsAreLastReceived
PROPERTIES
    StopReturns
