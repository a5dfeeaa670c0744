SPECIFICATION Spec
CONSTANTS
    ChannelSize = 1
    MaxInFlight = 2
INVARIANT
    StatusNotified
