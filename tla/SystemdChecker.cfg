SPECIFICATION Spec
CONSTANTS
    SystemServices = {network, storage}
    UserServices = {display}
INVARIANT
    AllActivated
CHECK_DEADLOCK FALSE
