CONSTANTS
    Clients = {c1}
    Buffer = 1
    MaxTraces = 3
SPECIFICATION Spec
INVARIANTS
    GraphCatchesUp
