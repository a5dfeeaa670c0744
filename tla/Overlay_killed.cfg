SPECIFICATION Spec
CONSTANTS
    MaxVersion = 1
    Faults = {"process"}
    MaxFaults = 1
INVARIANT AppliesKilled
