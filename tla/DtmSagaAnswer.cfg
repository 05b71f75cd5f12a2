\* An exception in a handler is answered with 200.
SPECIFICATION Spec
CONSTANTS
    NoRequest = NoRequest
    Branch = {1, 2}
    Failing = {2}
    Call = {1, 2, 3, 4}
    MayFail = {"body"}
INVARIANT
    NothingLeft
CHECK_DEADLOCK FALSE
