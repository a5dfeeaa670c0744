SPECIFICATION Spec
CONSTANTS
    DbVersion = 3
    Migrations = {0, 1, 2}
    MaxVersion = 2
    MaxFaults = 2
INVARIANTS
    TypeOK
    AppliedVersion
    NeverAhead
PROPERTY
    ComesUp
