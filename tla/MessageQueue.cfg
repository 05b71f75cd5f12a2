\* Two applications on one named queue or on queues of their own.
CONSTANTS
    a1 = a1
    a2 = a2
    Apps = {a1, a2}
    Publishers = {a1}
    PushedTo = {"topic"}
    Messages = {1, 2}
    orders = orders
    Named = {orders}
    Generated = {g1, g2, g3}
    Asked <- MCAsked
    ChannelMax = 3
    MaxFaults = 1
    MaxRefused = 1
SPECIFICATION FairSpec
INVARIANTS TypeOK ReturnedIsKept OneAtATime
PROPERTIES KeepsMessages EventuallySettled RetriesEnd
CHECK_DEADLOCK FALSE
