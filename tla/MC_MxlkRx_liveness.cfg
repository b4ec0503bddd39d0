\* One spare buffer, fragments longer than a read; no device or mapping failure.
CONSTANTS
    b1 = b1
    b2 = b2
    b3 = b3
    i1 = i1
    i2 = i2
    Bufs = {b1, b2, b3}
    NULL = NULL
    NDesc = 2
    Interfaces = {i1}
    BadInterface = BadInterface
    Headers <- LongHeaders
    MaxRead = 1
    MaxFrags = 3
    MaxMapErrors = 0
    DeviceMayFail = FALSE
    BothWays = TRUE
    PollWhileReading = FALSE
SPECIFICATION FromFirstSlot
CHECK_DEADLOCK FALSE
PROPERTIES
    EveryByteRead
