\* Five items, two at a time.
SPECIFICATION FairSpec
CONSTANTS
    Items = 5
    MaxParallel = 2
INVARIANTS
    TypeOK
    ParallelBound
    OkMeansAllEnded
    ResultsExact
PROPERTIES
    Returns
CHECK_DEADLOCK FALSE
