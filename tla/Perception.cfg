\* Three frames, the first with any two rows or some three of them.
SPECIFICATION Spec
CONSTANTS
    FrameWidth = 12
    FrameHeight = 24
    InputSize = 12
    CocoClasses = 2
    ScoreThreshold = 2500
    NmsThreshold = 4500
    MinIou = 2500
    PedestrianFrom = 0
    TruckFrom = 1
    MaxMissed = 1
    TrajectoryLimit = 2
    TensorRows = 8
    Forms <- AllForms
    Outputs <- SomeOutputs
    Predictions <- SomePredictions
INVARIANTS
    TypeOK
    KeptExactlyWhileRecent
    DetectionsAreExact
    OneTrackPerObject
PROPERTIES
    MatchingIsGreedy
