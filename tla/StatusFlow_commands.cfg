SPECIFICATION FairSpec
CONSTANTS
    ChannelSize = 1
    MaxInFlight = 1
INVARIANTS
    TypeOK
    CMKnowsState
    NobodyWaits
PROPERTIES
    ImplementsCycle
    TransitionEnds
    StatusDelivered
