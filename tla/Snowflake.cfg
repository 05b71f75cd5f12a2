\* Two ids (one bit) for two nodes and four starts: the third start recycles.
\* A start may instead be configured with the id 0.
SPECIFICATION Spec
CONSTANTS
    n1 = n1
    n2 = n2
    Node = {n1, n2}
    ConfigurableIds = {0}
    MaxWorkId = 2
    ByteRange = 4
    MayStall <- Stalling
    ExpireAfter = 3
    MaxTime = 4
    MaxStarts = 3
    MaxSequence = 1
INVARIANTS
    TypeOK
    DistinctWorkIds
    PunctualNotRecyclable
    FailsOnlyAtLimit
PROPERTIES
    IdsAreFresh
CHECK_DEADLOCK FALSE
