SPECIFICATION MCSpec
CONSTANTS
    Producers = {p1, p2}
    Consumers = {c1, c2}
    MaxLength = 3
    Microsecs = {1}
    MaxPushes = 5
    Null = Null
    ArraySize = 2
    MaxLost = 3
    MaxFd = 3
    MaxBacklog = 2
    ServerWorkers = {s1, s2}
    Careless = FALSE
    KernelRoom = 2
    MaxBytes = 4
    BlockSizes = {1, 2, 3}
    MaxSignals = 1
    FlushSizes = {0, 1, 2}
    DatagramSize = 2
CHECK_DEADLOCK FALSE
INVARIANTS
    SlotsDisjoint
    BytesArriveInOrder
PROPERTIES
    ImplementsQueue
    CallsReturn
    ResourcesAreKept
    DescriptorsAreKept
    CallsAreWhole
