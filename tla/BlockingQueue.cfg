\* Two producers and two consumers contend for two slots.
SPECIFICATION ConsumingSpec
CONSTANTS
    p1 = p1
    p2 = p2
    c1 = c1
    c2 = c2
    Producers <- TwoProducers
    Consumers <- TwoConsumers
    Capacity = 2
    MaxCalls = 2
INVARIANTS
    TypeOK
    FifoOrder
    NoConsumerForgotten
    NoProducerForgotten
PROPERTIES
    ImplementsClosableQueue
    CloseReleasesEveryone
    AcceptedIsDelivered
