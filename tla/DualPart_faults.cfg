SPECIFICATION Spec
CONSTANTS
    Controllers = {"uboot", "efi"}
    MaxVersion = 2
    Faults = {"power", "process", "io", "check", "init"}
    MaxFaults = 2
INVARIANTS
    TypeOK
    AlwaysBootable
    PreviousKept
    AppliedMirrors
    RevertRestores
    VerifiedBoots
PROPERTY
    KeepsContract
CHECK_DEADLOCK FALSE
