\* Two queries and two commands on one key.
SPECIFICATION FairSpec
CONSTANTS
    r1 = r1
    r2 = r2
    w1 = w1
    w2 = w2
    Reader = {r1, r2}
    Writer = {w1, w2}
    FirstVersion = 0
    ExpireSec = 2
    Free = Free
    Absent = Absent
INVARIANTS
    TypeOK
    SingleLoader
    StaleHasACause
PROPERTIES
    AnswersFromQuery
    AllCallsEnd
CHECK_DEADLOCK FALSE
