SPECIFICATION Spec
CONSTANTS
    MaxVersion = 2
    Faults = {"power", "process", "io", "check", "init"}
    MaxFaults = 3
INVARIANTS
    TypeOK
    AppliedIsInstalled
    RevertRestores
    VerifiedOverBase
PROPERTIES
    MergesOnlyApplied
    KeepsContract
