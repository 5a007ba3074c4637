CONSTANTS
    Streams <- AllStreams
    MaxTraces = 4
    TopN = 2
SPECIFICATION Spec
INVARIANTS
    GraphAgreesWithSummary
    PageAgreesWithGraph
    TablesShowTheTop
    DrawingsShowTheGraph
    StatsdAgreesWithSummary
    NamesRecovered
    DestinationsKept
CHECK_DEADLOCK FALSE
