\* --mqtt-queue-size 0: pushes are accepted and dropped, nobody has to pop.
SPECIFICATION Spec
CONSTANTS
    p1 = p1
    p2 = p2
    c1 = c1
    c2 = c2
    Producers <- TwoProducers
    Consumers <- TwoConsumers
    Capacity = 0
    MaxCalls = 3
PROPERTIES
    PushReturns
