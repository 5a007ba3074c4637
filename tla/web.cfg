CONSTANTS
    Clients = {c1, c2}
    Buffer = 1
    MaxTraces = 3
SPECIFICATION Spec
INVARIANTS
    TypeOK
    ClientsAreOpen
    StreamInOrder
PROPERTIES
    NothingLostWithinBuffer
    CloseReturns
    BufferedIsWritten
    GoneHandlerEnds
    ImplementsBroadcast
    ClosedRunsDown
