CONSTANTS
    MaxSessions = 2
    MaxDeliveries = 3
    MaxEvents = 3
    MaxDuration = 7
    ReconnectInitial = 1
    ReconnectMax = 2
SPECIFICATION Spec
INVARIANTS
    TypeOK
    RenderedInOrder
    NoGap
    LimitRespected
    NilReturnJustified
    OneLiveSession
    AtMostOneLateSession
PROPERTIES
    ImplementsTraceStream
    LostSessionRunsDown
