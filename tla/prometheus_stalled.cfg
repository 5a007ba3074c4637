CONSTANTS
    s1 = s1
    s2 = s2
    Scrapes <- TwoScrapes
    Stalled <- OneStalled
    Traces <- TwoKinds
    MaxTraces = 1
SPECIFICATION FairSpec
PROPERTIES
    CancellationExits
CHECK_DEADLOCK FALSE
