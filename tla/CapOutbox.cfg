\* Up to three calls in any nesting, or two of any style, with and without CAP.
SPECIFICATION OutboxSpec
CONSTANTS
    Styles = {"plain", "task"}
    MaxCalls = 3
    MaxWrites = 1
    TaskCalls = 2
INVARIANTS
    TypeOK
    PlainFailedLeaveNothing
    OneTransaction
    NothingLeftOpen
    OutboxTypeOK
    SentWasCommitted
    OwnerDecides
CHECK_DEADLOCK FALSE
