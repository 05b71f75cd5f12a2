\* One method that returns its Task.
SPECIFICATION Spec
CONSTANTS
    Styles = {"task"}
    MaxCalls = 1
    MaxWrites = 1
INVARIANT
    FailedLeaveNothing
CHECK_DEADLOCK FALSE
