\* Two interfaces that write at once, fewer buffers than they want, a DMA
\* mapping failure, and a device that may fall silent.
CONSTANTS
    b1 = b1
    b2 = b2
    i1 = i1
    i2 = i2
    Bufs = {b1, b2}
    NULL = NULL
    NDesc = 2
    Interfaces = {i1, i2}
    NoInterface = NoInterface
    MaxWrites = 2
    MaxLen = 1
    MaxMapErrors = 1
    DeviceMayFail = TRUE
    BothWays = TRUE
SPECIFICATION FromFirstSlot
CHECK_DEADLOCK FALSE
INVARIANTS
    OneOwner
    DeviceWindowFilled
    RingInOrder
    PipelineInOrder
    DoorbellNotLost
    SleeperWillBeWoken
PROPERTIES
    DeviceWindowStable
    IsFifo
    EveryFragmentDelivered
