CONSTANTS
    MaxDuration = 15
    DefaultInitial = 1
    DefaultMax = 6
SPECIFICATION Spec
INVARIANTS
    TypeOK
    BackoffBounded
PROPERTIES
    BackoffGrows
    CancelStopsRetries
