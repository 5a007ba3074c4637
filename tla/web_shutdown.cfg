CONSTANTS
    Clients = {c1}
    Buffer = 1
    MaxTraces = 1
SPECIFICATION Spec
PROPERTIES
    TimeoutOnlyWhenStalled
