\* Tests that want three blocks, one and none, of three; the tail of the
\* memory is too short for a block.
CONSTANTS
    Users = {"multi_dma", "mem_fill", "fence"}
    MemSize = 13
    BlockSize = 4
    Frags = 2
    MaxStores = 4
SPECIFICATION Spec
CHECK_DEADLOCK FALSE
INVARIANTS
    NoBlockLost
PROPERTIES
    IsPool
