SPECIFICATION FairSpec
CONSTANTS
    rootfs = rootfs
    firmware = firmware
    Components <- MCComponent
    Removable = {}
    UpdatePriority <- MCSingle
    RebootPriority <- MCSingle
    Faults = {"power", "reboot", "save", "init"}
    MaxFaults = 2
    MaxVersion = 2
INVARIANTS
    RevertedIsRestored
    ReportedVersions
PROPERTIES
    CommitsOnlyUpgrades
    ImplementsCycle
    UpdateEnds
