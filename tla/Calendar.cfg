\* From the leap century 2000, which starts on a Saturday, past the common
\* century 2100: every kind of year (first weekday, leap or not) is among them.
SPECIFICATION Spec
CONSTANTS
    FirstYear = 2000
    LastYear = 2101
    FirstWeekday = 6
    Births <- MCBirths
INVARIANTS
    TypeOK
    MonthsFillTheYears
    WeekTimesAgree
    AgeOfTheCall
CHECK_DEADLOCK FALSE
