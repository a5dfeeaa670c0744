SPECIFICATION Spec
CONSTANTS
    rootfs = rootfs
    firmware = firmware
    Components <- MCComponents
    Removable <- MCRemovable
    UpdatePriority <- MCOrdered
    RebootPriority <- MCTogether
    Faults = {"power", "process", "reboot"}
    MaxFaults = 1
    MaxVersion = 1
INVARIANTS
    TypeOK
    UpdatedIsVerified
    AppliedIsCommitted
    RebootsWhenAllUpdated
PROPERTIES
    PriorityOrder
