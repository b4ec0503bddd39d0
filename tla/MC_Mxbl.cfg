\* One device, probed twice; the second probe is one too many.
CONSTANTS
    d1 = d1
    Devices = {d1}
    MaxDevices = 1
    MaxProbes = 2
    MaxChanges = 2
    StepsMayFail = TRUE
SPECIFICATION Spec
CHECK_DEADLOCK FALSE
INVARIANTS
    ReleasedIsNotUsed
    AbsentLeavesNothing
    BootModeIsServed
