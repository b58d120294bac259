SPECIFICATION FairPullSpec
CONSTANTS
    a = a
    b = b
    c = c
    CompanyEvents = {a, b, c}
    PageLimit = 2
    MaxPages = 2
    MaxChanges = 4
    MaxVersion = 4
    MaxPullFaults = 1
INVARIANTS
    NoGapWithinRun
PROPERTIES
    FeedSpec
    CatchesUp
