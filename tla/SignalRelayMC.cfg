\* One client with two connections in turn and one sender of three events.
SPECIFICATION FairSpec
CONSTANTS
    Senders = {x1}
    Streams = {s1, s2}
    BufferSize = 1
    PullLimit = 1
    MaxEvents = 3
    Gone = Gone
INVARIANTS
    NoSilentLoss
    StreamFifo
PROPERTIES
    AtMostOnce
    DeliveredOrStranded
