\* One query and one command; the expiration the program is configured with,
\* which is none: Cache:RedisCacheExpireSec is in no settings file.
SPECIFICATION FairSpec
CONSTANTS
    r1 = r1
    r2 = r2
    w1 = w1
    w2 = w2
    Reader = {r1}
    Writer = {w1}
    FirstVersion = 1
    ExpireSec = 0
    Free = Free
    Absent = Absent
PROPERTY EventuallyFresh
CHECK_DEADLOCK FALSE
