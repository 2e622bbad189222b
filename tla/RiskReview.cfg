\* Up to two tracks in a frame, replies of up to two objects.  The number 3
\* does not fit into an int.
SPECIFICATION Spec
CONSTANTS
    TrackIds = {1, 2}
    TrackShapes <- MCTrackShapes
    MaxInt = 2
    ReplyIds = {0, 1, 3}
    ReplyBehaviors <- MCReplyBehaviors
    ReplyRisks = {"low", "medium", "unknown"}
    MaxObjects = 2
INVARIANTS
    TypeOK
    ReviewIsWhole
    EchoKeepsRisks
