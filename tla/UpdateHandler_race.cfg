SPECIFICATION Spec
CONSTANTS
    rootfs = rootfs
    firmware = firmware
    Components <- MCComponents
    Removable = {}
    UpdatePriority <- MCTogether
    RebootPriority <- MCTogether
    Faults = {"race"}
    MaxFaults = 1
    MaxVersion = 1
INVARIANT
    UpdatedIsVerified
