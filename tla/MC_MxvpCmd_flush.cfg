\* Three commands compete for two entries and are sent again; the list is
\* flushed once, while replies are on their way.
CONSTANTS
    c1 = c1
    c2 = c2
    c3 = c3
    d1 = d1
    d2 = d2
    d3 = d3
    None = None
    Cmds = {c1, c2, c3}
    ListOf <- MC_ListOf
    N = 2
    Throughput <- MC_NoTest
    Kinds = {"cmdq_reset"}
    Budget = 1
    MaxSends = 3
    MaxAsync = 1
    MayClean = FALSE
SPECIFICATION Spec
SYMMETRY CmdSymmetry
CHECK_DEADLOCK FALSE
INVARIANTS
    OneEntryEach
    FirstFlushReachesAll
PROPERTIES
    IsChannel
