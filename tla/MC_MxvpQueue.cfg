\* Commands and replies, the longest of which an empty queue may refuse.
CONSTANTS
    Size = 21
    Lengths <- MC_Lengths
    MaxPushes = 7
SPECIFICATION QueueSpec
CHECK_DEADLOCK FALSE
INVARIANTS
    ElementsInPlace
PROPERTIES
    IsFifo
