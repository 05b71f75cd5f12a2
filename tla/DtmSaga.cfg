\* SagaOut and SagaInError: four requests and one repetition.
SPECIFICATION Spec
CONSTANTS
    NoRequest = NoRequest
    Branch = {1, 2}
    Failing = {2}
    Call = {1, 2, 3, 4, 5}
    MayFail = {"origin", "current", "body", "commit"}
INVARIANTS
    TypeOK
    OnlySharedDeadlock
    FailureIsSeen
    NothingLeftWhenWell
PROPERTIES
    KeepsPromise
CHECK_DEADLOCK FALSE
