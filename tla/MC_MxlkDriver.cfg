\* Two processes, one of which loads the driver; one reset or boot, and a
\* removal.
CONSTANTS
    u1 = u1
    u2 = u2
    None = None
    Users = {u1, u2}
    MaxOps = 1
    OpsMayFail = TRUE
    DeviceMayFault = TRUE
    Layouts <- MC_Layouts
    MXLK_CAP_TTL = 3
SPECIFICATION DriverSpec
SYMMETRY UserSymmetry
CHECK_DEADLOCK FALSE
INVARIANTS
    ReleasedOnce
    UpAfterCalls
    WorkCancelled
    OneFile
    GoneLeavesNothing
    CapFindIsReachability
