SPECIFICATION Spec
CONSTANTS
    PartCount = 2
    OldIds = 2
INVARIANTS
    TypeOK
    CurrentIsBooted
    BootOrderIsRight
    PanicsWithoutOthers
    CacheIsFile
PROPERTIES
    ImplementsControl
    EnvUnmounted
CHECK_DEADLOCK FALSE
