\* The second row of the barrier cannot be inserted.
SPECIFICATION BSpec
CONSTANTS
    NoRequest = NoRequest
    Branch = {1, 2}
    Failing = {2}
    Call = {1, 2}
    MayFail = {"current"}
INVARIANT
    NoOrphanCompensation
CHECK_DEADLOCK FALSE
