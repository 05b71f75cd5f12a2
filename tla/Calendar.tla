-------------------------------- MODULE Calendar --------------------------------
(* The calendar helpers of Utility's DateTime extensions.  The clock walks     *)
(* through the years one midnight at a time, with the month lengths of the     *)
(* code; each helper is held against what the walk has counted.  GetAge reads  *)
(* the clock up to four times, so it runs here step by step beside it.         *)
EXTENDS Integers

CONSTANTS
    FirstYear, LastYear,    \* the years walked through (LastYear is a bound)
    FirstWeekday,           \* DayOfWeek of the first of January of FirstYear
    Births                  \* dates whose age is asked for, all in FirstYear

(* The weekday of New Year's Day by Gauss' formula, the reference for leap     *)
(* years.                                                                      *)
GaussNewYear(y) ==
    (1 + 5 * ((y - 1) % 4) + 4 * ((y - 1) % 100) + 6 * ((y - 1) % 400)) % 7

ASSUME CalendarAssumption ==
    /\ FirstYear \in Nat /\ LastYear \in Nat /\ FirstYear <= LastYear
    /\ FirstWeekday = GaussNewYear(FirstYear)
    /\ Births \subseteq [year : {FirstYear}, month : 1 .. 12, day : 1 .. 31]

(* The enumeration DayOfWeek counts from Sunday.                               *)
Sunday == 0
Monday == 1
Saturday == 6
Weekday == 0 .. 6

VARIABLES
    today,        \* DateTime.Today: year, month, day
    weekday,      \* DateTime.Today.DayOfWeek
    dayOfYear,    \* days of the year so far, this one included
    week,         \* WeekOfYear(today, Monday), as counted by the walk
    birth,        \* the argument of GetAge
    birthdays,    \* birthdays so far: the age of birth, -1 before it
    pc,           \* where a call of GetAge is
    before,       \* the condition of its if statement: this year's birthday is to come
    calledAt,     \* birthdays when it was called
    turned,       \* what midnight has changed since then
    answer        \* its result

clock == <<today, weekday, dayOfYear, week, birthdays>>
vars == <<clock, birth, pc, before, calledAt, turned, answer>>

--------------------------------------------------------------------------------
(* Faulty variant: every fourth year is a leap year.                           *)
IsRuYearJulian(n) == n % 4 = 0

(* n % 400 == 0 || n % 4 == 0 && n % 100 != 0.                                 *)
IsRuYear(n) == n % 400 = 0 \/ (n % 4 = 0 /\ n % 100 # 0)

GetDaysOfYear(year) == IF IsRuYear(year) THEN 366 ELSE 365

(* Faulty variant: the switch has no arm for the last month.                   *)
GetDaysOfMonthNoDecember(year, month) ==
    CASE month = 2 -> IF IsRuYear(year) THEN 29 ELSE 28
      [] month \in {4, 6, 9, 11} -> 30
      [] month \in {1, 3, 5, 7, 8, 10} -> 31
      [] OTHER -> 0

GetDaysOfMonth(year, month) ==
    CASE month = 2 -> IF IsRuYear(year) THEN 29 ELSE 28
      [] month \in {4, 6, 9, 11} -> 30
      [] month \in {1, 3, 5, 7, 8, 10, 12} -> 31
      [] OTHER -> 0

(* In the helpers below a date is the number of its day in this year.          *)
NewYear == (weekday - (dayOfYear - 1)) % 7

(* Faulty variant: the week starts on Sunday.                                  *)
GetWeekTimeSunday(n) ==
    LET dt == 1 + (n - 1) * 7
    IN [start |-> dt - NewYear, end |-> dt + Saturday - NewYear]

(* The week n of this year: dt has the weekday of New Year's Day, the week     *)
(* starts on the Monday and ends on the Sunday around it.  DayOfWeek counts    *)
(* Sunday as 0: when dt is one, they are the Monday and the Sunday after it.   *)
GetWeekTime(n) ==
    LET dt == 1 + (n - 1) * 7
    IN [start |-> dt - NewYear + Monday, end |-> dt + Saturday - NewYear + 1]

GetWeekWorkTime(n) == [GetWeekTime(n) EXCEPT !.end = @ - 2]

IsWeekDay == weekday \notin {Saturday, Sunday}

(* Today's week when weeks start on the weekday s.                             *)
StartOfWeek(s) ==
    IF weekday = s THEN dayOfYear
    ELSE IF s <= weekday THEN dayOfYear + (s - weekday)
    ELSE dayOfYear - 7 + (s - weekday)

--------------------------------------------------------------------------------
(* The first of January of a year is in week 1 (CalendarWeekRule.FirstDay).    *)
Init ==
    /\ today = [year |-> FirstYear, month |-> 1, day |-> 1]
    /\ weekday = FirstWeekday
    /\ dayOfYear = 1
    /\ week = 1
    /\ birth \in Births
    /\ birthdays = IF birth = today THEN 0 ELSE -1
    /\ pc = "idle"
    /\ before = FALSE
    /\ calledAt = 0
    /\ turned = "nothing"
    /\ answer = 0

(* The day after today, with the month lengths of the code.                    *)
Tomorrow ==
    IF today.day < GetDaysOfMonth(today.year, today.month)
    THEN [today EXCEPT !.day = @ + 1]
    ELSE IF today.month < 12
    THEN [today EXCEPT !.month = @ + 1, !.day = 1]
    ELSE [year |-> today.year + 1, month |-> 1, day |-> 1]

(* Who was born on the 29th of February is a year older on the 1st of March    *)
(* when there is no such day.                                                  *)
IsBirthday(d) ==
    IF birth.day > GetDaysOfMonth(d.year, birth.month)
    THEN d.month = birth.month + 1 /\ d.day = 1
    ELSE d.month = birth.month /\ d.day = birth.day

(* The clock: at most one midnight falls into a call.                          *)
Midnight ==
    /\ \/ pc = "idle"
       \/ pc # "answered" /\ turned = "nothing"
    /\ Tomorrow.year <= LastYear
    /\ today' = Tomorrow
    /\ weekday' = (weekday + 1) % 7
    /\ dayOfYear' = IF Tomorrow.year = today.year THEN dayOfYear + 1 ELSE 1
    /\ week' = IF Tomorrow.year # today.year THEN 1
               ELSE IF weekday' = Monday THEN week + 1 ELSE week
    /\ birthdays' = IF IsBirthday(Tomorrow) THEN birthdays + 1 ELSE birthdays
    /\ turned' = IF pc = "idle" THEN "nothing"
                 ELSE IF Tomorrow.month # today.month THEN "month" ELSE "day"
    /\ UNCHANGED <<birth, pc, before, calledAt, answer>>

--------------------------------------------------------------------------------
(* GetAge: each DateTime.Today in it is a reading of the clock of its own.     *)
Call ==
    /\ pc = "idle"
    /\ pc' = "month"
    /\ calledAt' = birthdays
    /\ UNCHANGED <<clock, birth, before, turned, answer>>

(* DateTime.Today.Month < @this.Month ||                                       *)
ReadMonth ==
    /\ pc = "month"
    /\ before' = (today.month < birth.month)
    /\ pc' = IF before' THEN "year" ELSE "same month"
    /\ UNCHANGED <<clock, birth, calledAt, turned, answer>>

(* DateTime.Today.Month == @this.Month &&                                      *)
ReadMonthAgain ==
    /\ pc = "same month"
    /\ pc' = IF today.month = birth.month THEN "day" ELSE "year"
    /\ UNCHANGED <<clock, birth, before, calledAt, turned, answer>>

(* Faulty variant: the birthday itself counts as before the birthday.          *)
ReadDayInclusive ==
    /\ pc = "day"
    /\ before' = (today.day <= birth.day)
    /\ pc' = "year"
    /\ UNCHANGED <<clock, birth, calledAt, turned, answer>>

(* DateTime.Today.Day < @this.Day                                              *)
ReadDay ==
    /\ pc = "day"
    /\ before' = (today.day < birth.day)
    /\ pc' = "year"
    /\ UNCHANGED <<clock, birth, calledAt, turned, answer>>

(* return DateTime.Today.Year - @this.Year (- 1).                              *)
ReadYear ==
    /\ pc = "year"
    /\ answer' = today.year - birth.year - IF before THEN 1 ELSE 0
    /\ pc' = "answered"
    /\ UNCHANGED <<clock, birth, before, calledAt, turned>>

(* The caller takes the answer.                                                *)
Return ==
    /\ pc = "answered"
    /\ pc' = "idle"
    /\ before' = FALSE
    /\ calledAt' = 0
    /\ turned' = "nothing"
    /\ answer' = 0
    /\ UNCHANGED <<clock, birth>>

GetAge == Call \/ ReadMonth \/ ReadMonthAgain \/ ReadDay \/ ReadYear \/ Return

Next == Midnight \/ GetAge

Spec == Init /\ [][Next]_vars

--------------------------------------------------------------------------------
(* The variables keep their types; today is a day of the calendar.             *)
TypeOK ==
    /\ today \in [year : FirstYear .. LastYear, month : 1 .. 12, day : 1 .. 31]
    /\ today.day <= GetDaysOfMonth(today.year, today.month)
    /\ weekday \in Weekday
    /\ dayOfYear \in 1 .. 366
    /\ week \in 1 .. 54
    /\ birth \in Births
    /\ birthdays \in -1 .. LastYear - FirstYear
    /\ pc \in {"idle", "month", "same month", "day", "year", "answered"}
    /\ before \in BOOLEAN
    /\ calledAt \in -1 .. LastYear - FirstYear
    /\ turned \in {"nothing", "day", "month"}
    /\ answer \in -1 .. LastYear - FirstYear

(* IsRuYear, GetDaysOfMonth and GetDaysOfYear are the Gregorian calendar: the  *)
(* months of a year add up to its days, and a century of them arrives at the   *)
(* right weekday.                                                              *)
MonthsFillTheYears ==
    /\ today.month = 1 /\ today.day = 1 => weekday = GaussNewYear(today.year)
    /\ today.month = 12 /\ today.day = 31 => dayOfYear = GetDaysOfYear(today.year)

(* GetWeekTime and GetWeekWorkTime undo WeekOfYear, and agree with             *)
(* StartOfWeek and IsWeekDay, on every day of a year, GetWeekAmount's last     *)
(* week included, unless the year starts on a Sunday.  In such a year          *)
(* GetWeekTime returns the week after the one asked for, and nothing is said   *)
(* of it here.                                                                 *)
WeekTimesAgree ==
    LET whole == GetWeekTime(week)
        work == GetWeekWorkTime(week)
    IN NewYear # Sunday =>
           /\ whole.start = StartOfWeek(Monday)
           /\ whole.end = StartOfWeek(Sunday) + IF weekday = Sunday THEN 0 ELSE 7
           /\ IsWeekDay <=> dayOfYear \in work.start .. work.end

(* GetAge answers the age at the time of the call or of the answer, also for   *)
(* someone born on a 29th of February, as long as its readings of the clock    *)
(* fall into one month.  When the month turns between two of them the answer   *)
(* may be wrong for both, by a year and no more.                               *)
AgeOfTheCall ==
    pc = "answered" =>
        IF turned = "month"
        THEN answer \in calledAt - 1 .. calledAt + 1
        ELSE answer \in {calledAt, birthdays}
================================================================================
