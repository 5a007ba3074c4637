CONSTANTS
    s1 = s1
    s2 = s2
    Scrapes <- TwoScrapes
    Stalled <- NoneStalled
    Traces <- ThreeKinds
    MaxTraces = 3
SPECIFICATION FairSpec
INVARIANTS
    ScrapesAreAtomic
PROPERTIES
    CloseReturns
    ScrapesAreAnswered
    ImplementsCounter
