CONSTANTS
    MaxSessions = 2
    MaxDeliveries = 1
    MaxEvents = 0
    MaxDuration = 7
    ReconnectInitial = 1
    ReconnectMax = 1
SPECIFICATION Spec
PROPERTIES
    InterruptDrains
    LostSessionReleased
