\* The two DMAs of the throughput test, another one and a command share the
\* interrupt, and the DMAs two entries; the work items handle one reply at a time;
\* the driver may be removed at any time.
CONSTANTS
    c1 = c1
    c2 = c2
    c3 = c3
    d1 = d1
    d2 = d2
    d3 = d3
    None = None
    Cmds = {c1, d1, d2, d3}
    ListOf <- MC_ListOf
    N = 2
    Throughput <- MC_Throughput
    Kinds = {}
    Budget = 1
    MaxSends = 1
    MaxAsync = 0
    MayClean = TRUE
SPECIFICATION FairSpec
CHECK_DEADLOCK FALSE
INVARIANTS
    HandlersMeetLists
PROPERTIES
    EveryCommandAnswered
