\* A byte of four values and eight ids claimed, as 256 and 1024 in the code.
SPECIFICATION Spec
CONSTANTS
    n1 = n1
    n2 = n2
    Node = {n1, n2}
    ConfigurableIds = {}
    MaxWorkId = 8
    ByteRange = 4
    MayStall <- Stalling
    ExpireAfter = 3
    MaxTime = 1
    MaxStarts = 5
    MaxSequence = 0
INVARIANT
    SupportsMaxWorkIdNodes
CHECK_DEADLOCK FALSE
