\* Two callers, one of whose images needs the second stage loader.
CONSTANTS
    u1 = u1
    u2 = u2
    None = None
    Callers = {u1, u2}
    Length <- MC_Length
    Tries = 1
    MaxLoads = 3
    DeviceMayFail = TRUE
SPECIFICATION FairSpec
CHECK_DEADLOCK FALSE
INVARIANTS
    LoadedMeansRead
    StrayReadOnlyAfterTimeout
    PartialBootOnlyAfterError
PROPERTIES
    EveryLoadReturns
