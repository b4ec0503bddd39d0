\* A ring of two slots with one buffer to spare, fragments of several kinds.
CONSTANTS
    b1 = b1
    b2 = b2
    b3 = b3
    i1 = i1
    i2 = i2
    Bufs = {b1, b2, b3}
    NULL = NULL
    NDesc = 2
    Interfaces = {i1, i2}
    BadInterface = BadInterface
    Headers <- MixedHeaders
    MaxRead = 2
    MaxFrags = 3
    MaxMapErrors = 1
    DeviceMayFail = TRUE
    BothWays = FALSE
    PollWhileReading = FALSE
SPECIFICATION Spec
SYMMETRY BufSymmetry
CHECK_DEADLOCK FALSE
INVARIANTS
    OneOwner
    DeviceWindowMapped
    StreamInOrder
    NoSleepWithData
    StallNotForgotten
    DescriptorsNotForgotten
