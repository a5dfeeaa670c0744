SPECIFICATION Spec
CONSTANTS
    Controllers = {"uboot"}
    MaxVersion = 1
    Faults = {}
    MaxFaults = 0
INVARIANT
    RevertsPrepared
CHECK_DEADLOCK FALSE
