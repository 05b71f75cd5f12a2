----------------------------- MODULE CalendarProofs ----------------------------
(* Proofs about Calendar, for any range of years and any dates of birth.       *)
EXTENDS Calendar, TLAPS

(* The days of a year before its month m.                                      *)
DaysBefore(year, m) ==
    CASE m = 1 -> 0
      [] m = 2 -> 31
      [] m = 3 -> GetDaysOfYear(year) - 306
      [] m = 4 -> GetDaysOfYear(year) - 275
      [] m = 5 -> GetDaysOfYear(year) - 245
      [] m = 6 -> GetDaysOfYear(year) - 214
      [] m = 7 -> GetDaysOfYear(year) - 184
      [] m = 8 -> GetDaysOfYear(year) - 153
      [] m = 9 -> GetDaysOfYear(year) - 122
      [] m = 10 -> GetDaysOfYear(year) - 92
      [] m = 11 -> GetDaysOfYear(year) - 61
      [] OTHER -> GetDaysOfYear(year) - 31

(* The walk counts the days of the year as the months add up to them, and the  *)
(* weekdays from Gauss' New Year's Day.                                        *)
DaysCounted == dayOfYear = DaysBefore(today.year, today.month) + today.day
WeekdaysCounted == weekday = (GaussNewYear(today.year) + dayOfYear - 1) % 7

(* The days between the first Monday on or before New Year's Day and that day. *)
SinceMonday == IF weekday = Sunday THEN 6 ELSE weekday - 1
Lead == 7 * (week - 1) + SinceMonday - (dayOfYear - 1)
WeeksCounted == Lead \in 0 .. 6

(* A birthday is counted once its day has come.                                *)
Reached == \/ today.month > birth.month
           \/ today.month = birth.month /\ today.day >= birth.day
BirthdaysCounted == birthdays = today.year - birth.year - IF Reached THEN 0 ELSE 1

(* What a call of GetAge has read so far is still true of today, or was at the *)
(* time of the call, unless the month has turned.                              *)
AnswerNow == today.year - birth.year - IF before THEN 1 ELSE 0
ReadingsHold ==
    /\ pc = "idle" => turned = "nothing"
    /\ pc # "idle" /\ turned = "nothing" => calledAt = birthdays
    /\ turned = "month" => today.year - birth.year \in calledAt .. calledAt + 1
    /\ turned # "month" =>
        /\ pc = "same month" => ~before /\ today.month >= birth.month
        /\ pc = "day" => ~before /\ today.month = birth.month
        /\ pc = "year" => AnswerNow \in {calledAt, birthdays}

ClockInv == DaysCounted /\ WeekdaysCounted /\ WeeksCounted /\ BirthdaysCounted
IInv == TypeOK /\ ClockInv /\ ReadingsHold /\ AgeOfTheCall

--------------------------------------------------------------------------------
(* The helpers' tables.                                                        *)
LEMMA YearLength == \A y \in Nat : GetDaysOfYear(y) \in {365, 366}
BY DEF GetDaysOfYear

LEMMA MonthLength ==
  ASSUME NEW y \in Nat, NEW m \in 1 .. 12
  PROVE  /\ GetDaysOfMonth(y, m) \in 28 .. 31
         /\ m \in {1, 12} => GetDaysOfMonth(y, m) = 31
<1>1. m \in {1, 2, 3, 4, 5, 6, 7, 8, 9, 10, 11, 12}
  OBVIOUS
<1> QED  BY <1>1 DEF GetDaysOfMonth

(* Each month starts where the one before it ends, and December ends the year. *)
LEMMA MonthsAddUp ==
  ASSUME NEW y \in Nat, NEW m \in 1 .. 11
  PROVE  DaysBefore(y, m + 1) = DaysBefore(y, m) + GetDaysOfMonth(y, m)
<1>1. m \in {1, 2, 3, 4, 5, 6, 7, 8, 9, 10, 11}
  OBVIOUS
<1>2. GetDaysOfYear(y) = IF IsRuYear(y) THEN 366 ELSE 365
  BY DEF GetDaysOfYear
<1> QED  BY <1>1, <1>2 DEF DaysBefore, GetDaysOfMonth

LEMMA YearAddsUp ==
  ASSUME NEW y \in Nat
  PROVE  /\ DaysBefore(y, 1) = 0
         /\ DaysBefore(y, 12) + GetDaysOfMonth(y, 12) = GetDaysOfYear(y)
<1>1. GetDaysOfYear(y) \in {365, 366}
  BY YearLength
<1> QED  BY <1>1 DEF DaysBefore, GetDaysOfMonth

LEMMA MonthsInYear ==
  ASSUME NEW y \in Nat, NEW m \in 1 .. 12
  PROVE  /\ DaysBefore(y, m) \in Nat
         /\ DaysBefore(y, m) + GetDaysOfMonth(y, m) <= GetDaysOfYear(y)
<1>1. m \in {1, 2, 3, 4, 5, 6, 7, 8, 9, 10, 11, 12}
  OBVIOUS
<1>2. GetDaysOfYear(y) = IF IsRuYear(y) THEN 366 ELSE 365
  BY DEF GetDaysOfYear
<1> QED  BY <1>1, <1>2 DEF DaysBefore, GetDaysOfMonth

LEMMA DayInYear ==
  ASSUME NEW y \in Nat, NEW m \in 1 .. 12, NEW d \in 1 .. 31, d <= GetDaysOfMonth(y, m)
  PROVE  /\ DaysBefore(y, m) + d \in 1 .. 366
         /\ DaysBefore(y, m) + d <= GetDaysOfYear(y)
<1>1. /\ DaysBefore(y, m) \in Nat
      /\ DaysBefore(y, m) + GetDaysOfMonth(y, m) <= GetDaysOfYear(y)
  BY MonthsInYear
<1>2. GetDaysOfYear(y) \in {365, 366} /\ GetDaysOfMonth(y, m) \in 28 .. 31
  BY YearLength, MonthLength
<1> QED  BY <1>1, <1>2

LEMMA GaussRange == \A y \in Nat : GaussNewYear(y) \in 0 .. 6
BY DEF GaussNewYear

(* A year of IsRuYear's length takes one New Year's Day of Gauss to the next.  *)
LEMMA GaussStep ==
  ASSUME NEW y \in Nat
  PROVE  GaussNewYear(y + 1) = (GaussNewYear(y) + GetDaysOfYear(y)) % 7
<1>1. (y + 1) - 1 = y
  OBVIOUS
<1>2. CASE y % 400 = 0
  <2>1. y % 100 = 0 /\ y % 4 = 0
    BY <1>2
  <2>2. (y - 1) % 400 = 399 /\ (y - 1) % 100 = 99 /\ (y - 1) % 4 = 3
    BY <1>2, <2>1
  <2> QED  BY <1>1, <1>2, <2>1, <2>2 DEF GaussNewYear, GetDaysOfYear, IsRuYear
<1>3. CASE y % 400 # 0
  <2>1. (y - 1) % 400 = (y % 400) - 1
    BY <1>3
  <2>2. CASE y % 100 = 0
    <3>1. y % 4 = 0
      BY <2>2
    <3>2. (y - 1) % 100 = 99 /\ (y - 1) % 4 = 3
      BY <2>2, <3>1
    <3> QED  BY <1>1, <1>3, <2>1, <2>2, <3>1, <3>2 DEF GaussNewYear, GetDaysOfYear, IsRuYear
  <2>3. CASE y % 100 # 0 /\ y % 4 = 0
    <3>1. (y - 1) % 100 = (y % 100) - 1 /\ (y - 1) % 4 = 3
      BY <2>3
    <3> QED  BY <1>1, <1>3, <2>1, <2>3, <3>1 DEF GaussNewYear, GetDaysOfYear, IsRuYear
  <2>4. CASE y % 100 # 0 /\ y % 4 # 0
    <3>1. (y - 1) % 100 = (y % 100) - 1 /\ (y - 1) % 4 = (y % 4) - 1
      BY <2>4
    <3> QED  BY <1>1, <1>3, <2>1, <2>4, <3>1 DEF GaussNewYear, GetDaysOfYear, IsRuYear
  <2> QED  BY <2>2, <2>3, <2>4
<1> QED  BY <1>2, <1>3

--------------------------------------------------------------------------------
(* The three kinds of midnight: within a month, at its end, at the year's.     *)
NextDay ==
    /\ today'.year = today.year /\ today'.month = today.month
    /\ today'.day = today.day + 1
    /\ today.day < GetDaysOfMonth(today.year, today.month)
NextMonth ==
    /\ today'.year = today.year /\ today'.month = today.month + 1
    /\ today'.day = 1
    /\ today.day = GetDaysOfMonth(today.year, today.month) /\ today.month < 12
NextYear ==
    /\ today'.year = today.year + 1 /\ today'.month = 1
    /\ today'.day = 1
    /\ today.day = 31 /\ today.month = 12

(* The fields of today, as the arithmetic needs them.                          *)
LEMMA TodayFacts ==
  ASSUME TypeOK
  PROVE  /\ today.year \in Nat /\ today.month \in 1 .. 12 /\ today.day \in 1 .. 31
         /\ today.year >= FirstYear /\ today.year <= LastYear
         /\ today.day <= GetDaysOfMonth(today.year, today.month)
         /\ birth.year = FirstYear /\ birth.month \in 1 .. 12 /\ birth.day \in 1 .. 31
<1>1. birth \in [year : {FirstYear}, month : 1 .. 12, day : 1 .. 31]
  BY CalendarAssumption DEF TypeOK
<1>2. today \in [year : FirstYear .. LastYear, month : 1 .. 12, day : 1 .. 31]
  BY DEF TypeOK
<1>3. today.day <= GetDaysOfMonth(today.year, today.month)
  BY DEF TypeOK
<1> QED  BY <1>1, <1>2, <1>3, CalendarAssumption

LEMMA Years == FirstYear \in Nat /\ LastYear \in Nat /\ FirstYear <= LastYear
BY CalendarAssumption

LEMMA AgeFacts ==
  ASSUME TypeOK
  PROVE  birthdays \in Int /\ calledAt \in Int
<1>1. birthdays \in -1 .. LastYear - FirstYear /\ calledAt \in -1 .. LastYear - FirstYear
  BY DEF TypeOK
<1> QED  BY <1>1, Years

(* Every midnight is of one of them.                                           *)
LEMMA MidnightKinds ==
  ASSUME TypeOK, Midnight
  PROVE  NextDay \/ NextMonth \/ NextYear
<1>1. today' = Tomorrow /\ today \in [year : FirstYear .. LastYear, month : 1 .. 12, day : 1 .. 31]
  BY DEF Midnight, TypeOK
<1>2. GetDaysOfMonth(today.year, today.month) \in 28 .. 31
  BY TodayFacts, MonthLength
<1>3. CASE today.day < GetDaysOfMonth(today.year, today.month)
  <2>1. today' = [today EXCEPT !.day = @ + 1]
    BY <1>1, <1>3 DEF Tomorrow
  <2> QED  BY <1>1, <1>3, <2>1 DEF NextDay
<1>4. CASE today.day >= GetDaysOfMonth(today.year, today.month) /\ today.month < 12
  <2>1. today' = [today EXCEPT !.month = @ + 1, !.day = 1]
    BY <1>1, <1>2, <1>4, TodayFacts DEF Tomorrow
  <2>2. today.day = GetDaysOfMonth(today.year, today.month)
    BY <1>2, <1>4, TodayFacts
  <2> QED  BY <1>1, <1>4, <2>1, <2>2 DEF NextMonth
<1>5. CASE today.day >= GetDaysOfMonth(today.year, today.month) /\ today.month = 12
  <2>1. today' = [year |-> today.year + 1, month |-> 1, day |-> 1]
    BY <1>1, <1>2, <1>5, TodayFacts DEF Tomorrow
  <2>2. today.day = 31
    BY <1>2, <1>5, TodayFacts, MonthLength
  <2> QED  BY <1>5, <2>1, <2>2 DEF NextYear
<1> QED  BY <1>2, <1>3, <1>4, <1>5, TodayFacts

(* Tomorrow is a day of the calendar, of the same year or the next.            *)
LEMMA MidnightToday ==
  ASSUME TypeOK, Midnight
  PROVE  /\ today' \in [year : FirstYear .. LastYear, month : 1 .. 12, day : 1 .. 31]
         /\ today'.day <= GetDaysOfMonth(today'.year, today'.month)
<1>1. today' = Tomorrow /\ Tomorrow.year <= LastYear
  BY DEF Midnight
<1>2. /\ today'.year \in FirstYear .. LastYear /\ today'.month \in 1 .. 12
      /\ today'.day \in 1 .. 31 /\ today'.day <= GetDaysOfMonth(today'.year, today'.month)
  <2>1. GetDaysOfMonth(today.year, today.month) \in 28 .. 31
    BY TodayFacts, MonthLength
  <2>2. CASE NextDay
    BY <2>1, <2>2, TodayFacts DEF NextDay
  <2>3. CASE NextMonth \/ NextYear
    <3>1. /\ today'.year \in FirstYear .. LastYear /\ today'.year \in Nat
          /\ today'.month \in 1 .. 12 /\ today'.day = 1
      BY <1>1, <2>3, TodayFacts, CalendarAssumption DEF NextMonth, NextYear
    <3>2. GetDaysOfMonth(today'.year, today'.month) \in 28 .. 31
      BY <3>1, MonthLength
    <3> QED  BY <3>1, <3>2
  <2> QED  BY <2>2, <2>3, MidnightKinds
<1>3. today' \in [year : FirstYear .. LastYear, month : 1 .. 12, day : 1 .. 31]
  <2>0. today \in [year : FirstYear .. LastYear, month : 1 .. 12, day : 1 .. 31]
    BY DEF TypeOK
  <2>1. \/ today' = [today EXCEPT !.day = @ + 1]
        \/ today' = [today EXCEPT !.month = @ + 1, !.day = 1]
        \/ today' = [year |-> today.year + 1, month |-> 1, day |-> 1]
    BY <1>1 DEF Tomorrow
  <2>2. CASE today' = [today EXCEPT !.day = @ + 1]
    BY <1>2, <2>0, <2>2
  <2>3. CASE today' = [today EXCEPT !.month = @ + 1, !.day = 1]
    BY <1>2, <2>0, <2>3
  <2>4. CASE today' = [year |-> today.year + 1, month |-> 1, day |-> 1]
    BY <1>2, <2>4
  <2> QED  BY <2>1, <2>2, <2>3, <2>4
<1> QED  BY <1>2, <1>3

(* At midnight the day of the year moves by one, or starts again.              *)
LEMMA MidnightDays ==
  ASSUME TypeOK, DaysCounted, Midnight
  PROVE  /\ DaysCounted'
         /\ NextYear => dayOfYear = GetDaysOfYear(today.year) /\ dayOfYear' = 1
         /\ NextDay \/ NextMonth => dayOfYear' = dayOfYear + 1
<1>1. dayOfYear' = IF today'.year = today.year THEN dayOfYear + 1 ELSE 1
  BY DEF Midnight
<1>2. CASE NextDay
  <2>1. dayOfYear' = dayOfYear + 1
    BY <1>1, <1>2 DEF NextDay
  <2>2. dayOfYear' = DaysBefore(today.year, today.month) + today.day + 1
    BY <2>1 DEF DaysCounted
  <2>3. ~NextYear
    BY <1>2, TodayFacts DEF NextDay, NextYear
  <2>4. DaysBefore(today.year, today.month) \in Nat
    BY TodayFacts, MonthsInYear
  <2>5. DaysBefore(today'.year, today'.month) = DaysBefore(today.year, today.month)
    BY <1>2 DEF NextDay
  <2>6. DaysCounted'
    BY <1>2, <2>2, <2>4, <2>5, TodayFacts DEF DaysCounted, NextDay
  <2> QED  BY <2>1, <2>3, <2>6
<1>3. CASE NextMonth
  <2>1. dayOfYear' = dayOfYear + 1
    BY <1>1, <1>3 DEF NextMonth
  <2>2. today.month \in 1 .. 11
    BY <1>3, TodayFacts DEF NextMonth
  <2>3. DaysBefore(today.year, today.month + 1)
          = DaysBefore(today.year, today.month) + GetDaysOfMonth(today.year, today.month)
    BY <2>2, TodayFacts, MonthsAddUp
  <2>4. ~NextYear
    BY <1>3 DEF NextMonth, NextYear
  <2>5. DaysCounted'
    BY <1>3, <2>1, <2>3 DEF DaysCounted, NextMonth
  <2> QED  BY <2>1, <2>4, <2>5
<1>4. CASE NextYear
  <2>1. dayOfYear' = 1
    BY <1>1, <1>4, TodayFacts DEF NextYear
  <2>2. dayOfYear = DaysBefore(today.year, 12) + GetDaysOfMonth(today.year, 12)
    BY <1>4, TodayFacts, MonthLength DEF DaysCounted, NextYear
  <2>3. dayOfYear = GetDaysOfYear(today.year)
    BY <2>2, TodayFacts, YearAddsUp
  <2>4. today'.year \in Nat /\ today'.month = 1 /\ today'.day = 1
    BY <1>4, TodayFacts DEF NextYear
  <2>5. DaysCounted'
    BY <2>1, <2>4, YearAddsUp DEF DaysCounted
  <2>6. ~NextDay /\ ~NextMonth
    BY <1>4, TodayFacts DEF NextDay, NextMonth, NextYear
  <2> QED  BY <2>1, <2>3, <2>5, <2>6
<1> QED  BY <1>2, <1>3, <1>4, MidnightKinds

(* The day of the year is one of the year's days.                              *)
LEMMA DayOfYearRange ==
  ASSUME TypeOK, DaysCounted
  PROVE  dayOfYear \in 1 .. 366 /\ dayOfYear <= GetDaysOfYear(today.year)
BY TodayFacts, DayInYear DEF DaysCounted

LEMMA MidnightDayOfYear ==
  ASSUME TypeOK, DaysCounted, Midnight
  PROVE  dayOfYear' \in 1 .. 366
<1>1. DaysCounted'
  BY MidnightDays
<1>2. today'.year \in Nat /\ today'.month \in 1 .. 12 /\ today'.day \in 1 .. 31
  BY MidnightToday, CalendarAssumption
<1> QED  BY <1>1, <1>2, MidnightToday, DayInYear DEF DaysCounted

(* At midnight the weekday moves by one, over New Year's Day too.              *)
LEMMA MidnightWeekdays ==
  ASSUME TypeOK, DaysCounted, WeekdaysCounted, Midnight
  PROVE  WeekdaysCounted' /\ weekday' \in Weekday
<1> DEFINE G == GaussNewYear(today.year)
           Gnext == GaussNewYear(today'.year)
<1>1. weekday' = (weekday + 1) % 7 /\ weekday = (G + dayOfYear - 1) % 7
  BY DEF Midnight, WeekdaysCounted
<1>2. G \in 0 .. 6 /\ dayOfYear \in 1 .. 366
  BY TodayFacts, DayOfYearRange, GaussRange
<1>3. weekday \in 0 .. 6 /\ weekday' \in Weekday
  BY <1>1, <1>2 DEF Weekday
<1>4. CASE NextDay \/ NextMonth
  <2>1. dayOfYear' = dayOfYear + 1 /\ Gnext = G
    BY <1>4, MidnightDays DEF NextDay, NextMonth
  <2>2. (((G + dayOfYear - 1) % 7) + 1) % 7 = (G + dayOfYear) % 7
    BY <1>2
  <2>3. G + (dayOfYear + 1) - 1 = G + dayOfYear
    BY <1>2
  <2> QED  BY <1>1, <1>3, <2>1, <2>2, <2>3 DEF WeekdaysCounted
<1>5. CASE NextYear
  <2>1. dayOfYear' = 1 /\ dayOfYear = GetDaysOfYear(today.year)
    BY <1>5, MidnightDays
  <2>2. Gnext = (G + dayOfYear) % 7
    BY <1>5, <2>1, TodayFacts, GaussStep DEF NextYear
  <2>3. (((G + dayOfYear - 1) % 7) + 1) % 7 = (G + dayOfYear) % 7
    BY <1>2
  <2>4. Gnext \in 0 .. 6 /\ (Gnext + 1 - 1) % 7 = Gnext
    BY <1>2, <2>2
  <2> QED  BY <1>1, <1>3, <2>1, <2>2, <2>3, <2>4 DEF WeekdaysCounted
<1> QED  BY <1>4, <1>5, MidnightKinds

(* A week is counted on its Monday, so a year has at most 54 of them.          *)
LEMMA MidnightWeeks ==
  ASSUME TypeOK, DaysCounted, WeekdaysCounted, WeeksCounted, Midnight
  PROVE  WeeksCounted' /\ week' \in 1 .. 54
<1>1. weekday \in 0 .. 6 /\ week \in 1 .. 54 /\ dayOfYear \in 1 .. 366
  BY DayOfYearRange DEF TypeOK, Weekday
<1>2. weekday' = (weekday + 1) % 7
  BY DEF Midnight
<1>3. week' = IF today'.year # today.year THEN 1
              ELSE IF weekday' = 1 THEN week + 1 ELSE week
  BY DEF Midnight, Monday
<1>4. CASE NextDay \/ NextMonth
  <2>1. dayOfYear' = dayOfYear + 1 /\ today'.year = today.year
    BY <1>4, MidnightDays DEF NextDay, NextMonth
  <2>2. week' = IF weekday' = 1 THEN week + 1 ELSE week
    BY <1>3, <2>1
  <2>3. weekday' = IF weekday = 6 THEN 0 ELSE weekday + 1
    BY <1>1, <1>2
  <2>4. Lead' = Lead /\ week' \in Nat \ {0}
    BY <1>1, <2>1, <2>2, <2>3 DEF Lead, SinceMonday, Sunday
  <2>5. dayOfYear' \in 1 .. 366
    BY MidnightDayOfYear
  <2> QED  BY <1>1, <2>1, <2>2, <2>3, <2>4, <2>5 DEF WeeksCounted, Lead, SinceMonday, Sunday
<1>5. CASE NextYear
  <2>1. dayOfYear' = 1 /\ today'.year # today.year
    BY <1>5, MidnightDays, TodayFacts DEF NextYear
  <2>2. week' = 1 /\ weekday' \in 0 .. 6
    BY <1>1, <1>2, <1>3, <2>1
  <2>3. SinceMonday' \in 0 .. 6
    BY <2>2 DEF SinceMonday, Sunday
  <2>4. Lead' = SinceMonday'
    <3>1. Lead' = 7 * (1 - 1) + SinceMonday' - (1 - 1)
      BY <2>1, <2>2 DEF Lead
    <3>2. \A m \in 0 .. 6 : 7 * (1 - 1) + m - (1 - 1) = m
      OBVIOUS
    <3> QED  BY <2>3, <3>1, <3>2
  <2> QED  BY <2>2, <2>3, <2>4 DEF WeeksCounted
<1> QED  BY <1>4, <1>5, MidnightKinds

(* Midnight counts a birthday exactly when its day comes: on the 1st of March  *)
(* for a 29th of February that the year does not have.                         *)
LEMMA MidnightBirthdays ==
  ASSUME TypeOK, BirthdaysCounted, Midnight
  PROVE  /\ BirthdaysCounted'
         /\ birthdays' \in {birthdays, birthdays + 1}
         /\ NextYear => birthdays = today.year - birth.year
<1> DEFINE Due == GetDaysOfMonth(today'.year, birth.month)
<1>1. /\ today'.year \in Nat /\ today'.month \in 1 .. 12 /\ today'.day \in 1 .. 31
      /\ today'.day <= GetDaysOfMonth(today'.year, today'.month)
  BY MidnightToday, CalendarAssumption
<1>2. Due \in 28 .. 31 /\ (birth.month \in {1, 12} => Due = 31)
  BY <1>1, TodayFacts, MonthLength
<1>3. /\ birth' = birth
      /\ birth.day > Due =>
            birthdays' = IF today'.month = birth.month + 1 /\ today'.day = 1
                         THEN birthdays + 1 ELSE birthdays
      /\ birth.day <= Due =>
            birthdays' = IF today'.month = birth.month /\ today'.day = birth.day
                         THEN birthdays + 1 ELSE birthdays
  <2>1. today' = Tomorrow /\ birth' = birth
        /\ birthdays' = IF IsBirthday(Tomorrow) THEN birthdays + 1 ELSE birthdays
    BY DEF Midnight
  <2>2. birthdays' = IF IsBirthday(today') THEN birthdays + 1 ELSE birthdays
    BY <2>1
  <2> HIDE DEF Due
  <2>3. birth.day > Due =>
            (IsBirthday(today') <=> today'.month = birth.month + 1 /\ today'.day = 1)
    BY DEF IsBirthday, Due
  <2>4. ~(birth.day > Due) =>
            (IsBirthday(today') <=> today'.month = birth.month /\ today'.day = birth.day)
    BY DEF IsBirthday, Due
  <2>5. birth.day <= Due => ~(birth.day > Due)
    BY <1>2, TodayFacts
  <2> QED  BY <2>1, <2>2, <2>3, <2>4, <2>5
<1>4. birthdays' \in {birthdays, birthdays + 1}
  <2>1. birth.day > Due \/ birth.day <= Due
    BY <1>2, TodayFacts
  <2> QED  BY <1>3, <2>1
<1>5. /\ birthdays = today.year - birth.year - IF Reached THEN 0 ELSE 1
      /\ Reached <=> \/ today.month > birth.month
                     \/ today.month = birth.month /\ today.day >= birth.day
      /\ Reached' <=> \/ today'.month > birth.month
                      \/ today'.month = birth.month /\ today'.day >= birth.day
  BY <1>3 DEF BirthdaysCounted, Reached
<1>6. birth.year \in Nat /\ birth.month \in 1 .. 12 /\ birth.day \in 1 .. 31
  BY TodayFacts, CalendarAssumption
<1>7. birthdays' = today'.year - birth.year - IF Reached' THEN 0 ELSE 1
  <2> HIDE DEF Due
  <2>1. CASE NextDay
    <3>1. today.month = birth.month => Due >= today.day + 1
      BY <1>1, <2>1 DEF NextDay, Due
    <3> QED  BY <1>2, <1>3, <1>5, <1>6, <2>1, <3>1, TodayFacts DEF NextDay
  <2>2. CASE NextMonth
    <3>1. today.month = birth.month => Due = today.day
      BY <2>2 DEF NextMonth, Due
    <3> QED  BY <1>2, <1>3, <1>5, <1>6, <2>2, <3>1, TodayFacts DEF NextMonth
  <2>3. CASE NextYear
    <3>1. Reached
      BY <1>5, <1>6, <2>3, TodayFacts DEF NextYear
    <3> QED  BY <1>2, <1>3, <1>5, <1>6, <2>3, <3>1, TodayFacts DEF NextYear
  <2> QED  BY <2>1, <2>2, <2>3, MidnightKinds
<1>8. BirthdaysCounted'
  BY <1>3, <1>7 DEF BirthdaysCounted
<1>9. NextYear => birthdays = today.year - birth.year
  BY <1>5, <1>6, TodayFacts DEF NextYear
<1> QED  BY <1>4, <1>8, <1>9

(* The age is between -1 and the number of years walked through.               *)
LEMMA AgeRange ==
  ASSUME TypeOK, BirthdaysCounted
  PROVE  birthdays \in -1 .. LastYear - FirstYear
BY TodayFacts, CalendarAssumption DEF BirthdaysCounted

(* Midnight keeps what a call has read, within a month.                        *)
LEMMA MidnightReadings ==
  ASSUME TypeOK, BirthdaysCounted, ReadingsHold, Midnight
  PROVE  ReadingsHold'
<1>1. /\ UNCHANGED <<birth, pc, before, calledAt>>
      /\ pc # "answered"
      /\ pc # "idle" => turned = "nothing"
      /\ turned' = IF pc = "idle" THEN "nothing"
                   ELSE IF today'.month # today.month THEN "month" ELSE "day"
  BY DEF Midnight
<1>2. CASE pc = "idle"
  BY <1>1, <1>2 DEF ReadingsHold
<1>3. CASE pc # "idle"
  <2>1. calledAt = birthdays /\ turned = "nothing"
    BY <1>1, <1>3 DEF ReadingsHold
  <2>2. calledAt = today.year - birth.year - IF Reached THEN 0 ELSE 1
    BY <2>1 DEF BirthdaysCounted
  <2>3. CASE NextDay
    <3>1. today'.month = today.month /\ today'.year = today.year /\ turned' = "day"
      BY <1>1, <1>3, <2>3 DEF NextDay
    <3> QED  BY <1>1, <1>3, <2>1, <3>1 DEF ReadingsHold, AnswerNow
  <2>4. CASE NextMonth \/ NextYear
    <3>1. turned' = "month"
      BY <1>1, <1>3, <2>4, TodayFacts DEF NextMonth, NextYear
    <3>2. today'.year - birth.year \in calledAt .. calledAt + 1
      <4>1. CASE NextMonth
        BY <2>2, <4>1, TodayFacts, CalendarAssumption DEF NextMonth
      <4>2. CASE NextYear
        BY <2>1, <4>2, MidnightBirthdays, TodayFacts, CalendarAssumption DEF NextYear
      <4> QED  BY <2>4, <4>1, <4>2
    <3> QED  BY <1>1, <1>3, <3>1, <3>2 DEF ReadingsHold
  <2> QED  BY <2>3, <2>4, MidnightKinds
<1> QED  BY <1>2, <1>3

(* The invariant survives a midnight.                                          *)
LEMMA MidnightPreserves ==
  ASSUME IInv, Midnight
  PROVE  IInv'
<1> USE DEF IInv, ClockInv
<1>1. ClockInv'
  BY MidnightDays, MidnightWeekdays, MidnightWeeks, MidnightBirthdays
<1>2. birthdays' \in -1 .. LastYear - FirstYear
  <2>1. /\ today'.year \in Nat /\ today'.year >= FirstYear /\ today'.year <= LastYear
        /\ birth' = birth
    BY MidnightToday, CalendarAssumption DEF Midnight
  <2> QED  BY <1>1, <2>1, TodayFacts, CalendarAssumption DEF BirthdaysCounted
<1>3. turned' \in {"nothing", "day", "month"} /\ UNCHANGED <<birth, pc, before, calledAt, answer>>
  BY DEF Midnight
<1>4. TypeOK'
  BY <1>2, <1>3, MidnightToday, MidnightDayOfYear, MidnightWeekdays, MidnightWeeks DEF TypeOK
<1>5. AgeOfTheCall'
  BY DEF AgeOfTheCall, Midnight, ReadingsHold
<1> QED  BY <1>1, <1>4, <1>5, MidnightReadings

(* The calls of GetAge leave the clock alone.                                  *)
LEMMA ClockUntouched == ClockInv /\ UNCHANGED <<clock, birth>> => ClockInv'
BY DEF ClockInv, clock, DaysCounted, WeekdaysCounted, WeeksCounted, Lead, SinceMonday,
       BirthdaysCounted, Reached

(* The invariant survives each step of GetAge: what it reads is true of today. *)
LEMMA GetAgePreserves ==
  ASSUME IInv, GetAge
  PROVE  IInv'
<1>0. /\ TypeOK /\ ReadingsHold /\ birthdays \in Int
      /\ today.year \in Nat /\ today.month \in 1 .. 12 /\ today.day \in 1 .. 31
      /\ today.year >= FirstYear /\ today.year <= LastYear
      /\ birth.year = FirstYear /\ birth.month \in 1 .. 12 /\ birth.day \in 1 .. 31
  <2>1. TypeOK /\ ReadingsHold
    BY DEF IInv
  <2>2. birthdays \in Int
    BY <2>1, AgeFacts
  <2> QED  BY <2>1, <2>2, TodayFacts
<1>1. ClockInv' /\ UNCHANGED <<today, weekday, dayOfYear, week, birthdays, birth>>
  BY ClockUntouched
     DEF IInv, GetAge, Call, ReadMonth, ReadMonthAgain, ReadDay, ReadYear, Return, clock
<1>2. birthdays = today.year - birth.year - IF Reached THEN 0 ELSE 1
  BY DEF IInv, ClockInv, BirthdaysCounted
<1>3. birthdays \in -1 .. LastYear - FirstYear
  BY AgeRange DEF IInv, ClockInv
<1> USE DEF IInv
<1>4. CASE Call
  <2>1. TypeOK'
    BY <1>1, <1>3, <1>4 DEF Call, TypeOK
  <2>2. turned = "nothing"
    BY <1>4 DEF Call, ReadingsHold
  <2>3. ReadingsHold' /\ AgeOfTheCall'
    BY <1>1, <1>4, <2>2 DEF Call, ReadingsHold, AgeOfTheCall
  <2> QED  BY <1>1, <2>1, <2>3
<1>5. CASE ReadMonth
  <2>1. TypeOK'
    <3>1. before' \in BOOLEAN /\ pc' \in {"year", "same month"}
      <4>1. before' = (today.month < birth.month)
        BY <1>5 DEF ReadMonth
      <4>2. before' \in BOOLEAN
        BY <1>0, <4>1
      <4>3. pc' \in {"year", "same month"}
        BY <1>5 DEF ReadMonth
      <4> QED  BY <4>2, <4>3
    <3> QED  BY <1>1, <1>5, <3>1 DEF ReadMonth, TypeOK
  <2>2. (before' <=> today.month < birth.month)
        /\ pc' = (IF before' THEN "year" ELSE "same month")
        /\ UNCHANGED <<calledAt, turned>> /\ pc = "month"
    BY <1>5 DEF ReadMonth
  <2>3. before' => ~Reached
    BY <1>0, <2>2 DEF Reached
  <2>4. today.month < birth.month \/ today.month >= birth.month
    BY <1>0
  <2>5. before' => AnswerNow' = birthdays
    BY <1>1, <1>2, <2>3 DEF AnswerNow
  <2>6. ReadingsHold' /\ AgeOfTheCall'
    BY <1>1, <2>2, <2>4, <2>5 DEF ReadingsHold, AgeOfTheCall
  <2> QED  BY <1>1, <2>1, <2>6
<1>6. CASE ReadMonthAgain
  <2>1. TypeOK'
    BY <1>1, <1>6 DEF ReadMonthAgain, TypeOK
  <2>2. /\ pc = "same month" /\ UNCHANGED <<before, calledAt, turned>>
        /\ pc' = (IF today.month = birth.month THEN "day" ELSE "year")
    BY <1>6 DEF ReadMonthAgain
  <2>3. turned # "month" => ~before /\ today.month >= birth.month
    BY <2>2 DEF ReadingsHold
  <2>8. turned # "month" /\ today.month # birth.month => Reached
    BY <1>0, <2>3 DEF Reached
  <2>4. turned # "month" /\ today.month # birth.month => AnswerNow' = birthdays
    BY <1>1, <1>2, <2>2, <2>3, <2>8 DEF AnswerNow
  <2>5. ReadingsHold' /\ AgeOfTheCall'
    BY <1>1, <2>2, <2>3, <2>4 DEF ReadingsHold, AgeOfTheCall
  <2> QED  BY <1>1, <2>1, <2>5
<1>7. CASE ReadDay
  <2>1. TypeOK'
    BY <1>1, <1>7 DEF ReadDay, TypeOK
  <2>2. /\ pc = "day" /\ pc' = "year" /\ UNCHANGED <<calledAt, turned>>
        /\ (before' <=> today.day < birth.day)
    BY <1>7 DEF ReadDay
  <2>3. turned # "month" => today.month = birth.month
    BY <2>2 DEF ReadingsHold
  <2>4. turned # "month" => (before' <=> ~Reached)
    BY <1>0, <2>2, <2>3 DEF Reached
  <2>5. turned # "month" => AnswerNow' = birthdays
    BY <1>1, <1>2, <2>4 DEF AnswerNow
  <2>6. ReadingsHold' /\ AgeOfTheCall'
    BY <1>1, <2>2, <2>5 DEF ReadingsHold, AgeOfTheCall
  <2> QED  BY <1>1, <2>1, <2>6
<1>8. CASE ReadYear
  <2>1. /\ pc = "year" /\ pc' = "answered" /\ UNCHANGED <<before, calledAt, turned>>
        /\ answer' = AnswerNow
    BY <1>8 DEF ReadYear, AnswerNow
  <2>2. AnswerNow \in -1 .. LastYear - FirstYear
    BY <1>0, CalendarAssumption DEF AnswerNow
  <2>3. TypeOK'
    BY <1>1, <2>1, <2>2 DEF TypeOK
  <2>4. turned # "month" => AnswerNow \in {calledAt, birthdays}
    BY <2>1 DEF ReadingsHold
  <2>5. turned = "month" => AnswerNow \in calledAt - 1 .. calledAt + 1
    <3>1. calledAt \in Int
      BY <1>0, AgeFacts
    <3>2. turned = "month" => today.year - birth.year \in calledAt .. calledAt + 1
      BY <1>0 DEF ReadingsHold
    <3> QED  BY <1>0, <3>1, <3>2, CalendarAssumption DEF AnswerNow
  <2>6. ReadingsHold'
    BY <1>1, <2>1 DEF ReadingsHold
  <2>7. AgeOfTheCall'
    BY <1>1, <2>1, <2>4, <2>5 DEF AgeOfTheCall
  <2> QED  BY <1>1, <2>3, <2>6, <2>7
<1>9. CASE Return
  <2>1. TypeOK'
    <3>1. 0 \in -1 .. LastYear - FirstYear
      BY Years
    <3> QED  BY <1>1, <1>9, <3>1 DEF Return, TypeOK
  <2>2. ReadingsHold' /\ AgeOfTheCall'
    BY <1>9 DEF Return, ReadingsHold, AgeOfTheCall
  <2> QED  BY <1>1, <2>1, <2>2
<1> QED  BY <1>4, <1>5, <1>6, <1>7, <1>8, <1>9 DEF GetAge

(* The invariant holds on the first of January of the first year.              *)
LEMMA InitEstablishes == Init => IInv
<1> SUFFICES ASSUME Init  PROVE IInv
  OBVIOUS
<1>1. /\ today = [year |-> FirstYear, month |-> 1, day |-> 1]
      /\ today.year = FirstYear /\ today.month = 1 /\ today.day = 1
  BY DEF Init
<1>2. birth \in Births /\ birth \in [year : {FirstYear}, month : 1 .. 12, day : 1 .. 31]
  BY CalendarAssumption DEF Init
<1>3. GaussNewYear(FirstYear) \in 0 .. 6
  BY CalendarAssumption, GaussRange
<1>4. TypeOK
  <2>1. GetDaysOfMonth(FirstYear, 1) = 31
    BY CalendarAssumption, MonthLength
  <2>2. today \in [year : FirstYear .. LastYear, month : 1 .. 12, day : 1 .. 31]
    BY <1>1, Years
  <2>3. 0 \in -1 .. LastYear - FirstYear /\ -1 \in -1 .. LastYear - FirstYear
    BY Years
  <2>4. weekday \in Weekday
    BY <1>3, CalendarAssumption DEF Init, Weekday
  <2>5. birthdays \in -1 .. LastYear - FirstYear
    BY <2>3 DEF Init
  <2>6. /\ dayOfYear = 1 /\ week = 1 /\ pc = "idle" /\ before = FALSE
        /\ calledAt = 0 /\ turned = "nothing" /\ answer = 0
    BY DEF Init
  <2>7. today.day <= GetDaysOfMonth(today.year, today.month)
    BY <1>1, <2>1
  <2>8. /\ dayOfYear \in 1 .. 366 /\ week \in 1 .. 54
        /\ pc \in {"idle", "month", "same month", "day", "year", "answered"}
        /\ turned \in {"nothing", "day", "month"}
    BY <2>6
  <2>9. /\ calledAt \in -1 .. LastYear - FirstYear
        /\ answer \in -1 .. LastYear - FirstYear
    BY <2>3, <2>6
  <2>10. before \in BOOLEAN
    BY <2>6
  <2> QED  BY <1>2, <2>2, <2>4, <2>5, <2>7, <2>8, <2>9, <2>10 DEF TypeOK
<1>5. DaysCounted
  BY <1>1, YearAddsUp, CalendarAssumption DEF Init, DaysCounted
<1>6. WeekdaysCounted
  BY <1>1, <1>3, CalendarAssumption DEF Init, WeekdaysCounted
<1>7. WeeksCounted
  BY <1>3, CalendarAssumption DEF Init, WeeksCounted, Lead, SinceMonday, Sunday
<1>8. BirthdaysCounted
  <2>1. Reached <=> birth = today
    <3>1. birth = today <=> birth.month = 1 /\ birth.day = 1
      BY <1>1, <1>2
    <3> QED  BY <1>1, <1>2, <3>1 DEF Reached
  <2> QED  BY <1>1, <1>2, <2>1, CalendarAssumption DEF Init, BirthdaysCounted
<1>9. ReadingsHold /\ AgeOfTheCall
  BY DEF Init, ReadingsHold, AgeOfTheCall
<1> QED  BY <1>4, <1>5, <1>6, <1>7, <1>8, <1>9 DEF IInv, ClockInv

LEMMA StutterPreserves == IInv /\ UNCHANGED vars => IInv'
<1> SUFFICES ASSUME IInv, UNCHANGED vars  PROVE IInv'
  OBVIOUS
<1>1. ClockInv'
  BY ClockUntouched DEF IInv, vars
<1>2. TypeOK'
  BY DEF IInv, TypeOK, vars, clock
<1>3. ReadingsHold' /\ AgeOfTheCall'
  BY DEF IInv, ReadingsHold, AnswerNow, AgeOfTheCall, vars, clock
<1> QED  BY <1>1, <1>2, <1>3 DEF IInv

(* The walk and the calls of GetAge agree, whatever the years and the births.  *)
THEOREM Invariant == Spec => []IInv
<1>1. IInv /\ [Next]_vars => IInv'
  BY MidnightPreserves, GetAgePreserves, StutterPreserves DEF Next
<1> QED  BY <1>1, InitEstablishes, PTL DEF Spec

(* Today is always a day of the calendar, of a week the year has.              *)
THEOREM TypeCorrect == Spec => []TypeOK
<1>1. IInv => TypeOK
  BY DEF IInv
<1> QED  BY <1>1, Invariant, PTL

(* The month lengths of the code fill its year lengths, and its leap years     *)
(* arrive at the right weekday on every New Year's Day, in any century.        *)
THEOREM MonthsAlwaysFillTheYears == Spec => []MonthsFillTheYears
<1>1. ASSUME IInv  PROVE MonthsFillTheYears
  <2>0. TypeOK /\ DaysCounted /\ WeekdaysCounted
    BY <1>1 DEF IInv, ClockInv
  <2>1. GaussNewYear(today.year) \in 0 .. 6
    BY <2>0, TodayFacts, GaussRange
  <2>2. today.month = 1 /\ today.day = 1 => weekday = GaussNewYear(today.year)
    <3> SUFFICES ASSUME today.month = 1, today.day = 1  PROVE weekday = GaussNewYear(today.year)
      OBVIOUS
    <3>1. dayOfYear = 1
      BY <2>0, TodayFacts, YearAddsUp DEF DaysCounted
    <3> QED  BY <2>0, <2>1, <3>1 DEF WeekdaysCounted
  <2>3. today.month = 12 /\ today.day = 31 => dayOfYear = GetDaysOfYear(today.year)
    <3>1. GetDaysOfMonth(today.year, 12) = 31
      BY <2>0, TodayFacts, MonthLength
    <3> QED  BY <2>0, <3>1, TodayFacts, YearAddsUp DEF DaysCounted
  <2> QED  BY <2>2, <2>3 DEF MonthsFillTheYears
<1> QED  BY <1>1, Invariant, PTL

(* GetWeekTime gives every day the week that contains it, in every year that   *)
(* does not start on a Sunday.                                                 *)
THEOREM WeekTimesAlwaysAgree == Spec => []WeekTimesAgree
<1>1. ASSUME IInv, NewYear # Sunday
      PROVE  /\ GetWeekTime(week).start = StartOfWeek(Monday)
             /\ GetWeekTime(week).end
                  = StartOfWeek(Sunday) + IF weekday = Sunday THEN 0 ELSE 7
             /\ IsWeekDay <=>
                  dayOfYear \in GetWeekWorkTime(week).start .. GetWeekWorkTime(week).end
  <2> DEFINE w == 7 * (week - 1)
  <2>1. weekday \in 0 .. 6 /\ week \in Int /\ dayOfYear \in Int /\ Lead \in 0 .. 6
    <3>1. weekday \in Weekday /\ week \in 1 .. 54 /\ dayOfYear \in 1 .. 366
      BY <1>1 DEF IInv, TypeOK
    <3>2. Lead \in 0 .. 6
      BY <1>1 DEF IInv, ClockInv, WeeksCounted
    <3> QED  BY <3>1, <3>2 DEF Weekday
  <2>2. SinceMonday = (IF weekday = 0 THEN 6 ELSE weekday - 1) /\ SinceMonday \in 0 .. 6
    BY <2>1 DEF SinceMonday, Sunday
  <2>3. dayOfYear - 1 = w + SinceMonday - Lead
    BY <2>1, <2>2 DEF Lead
  <2>4. NewYear = IF Lead = 6 THEN 0 ELSE Lead + 1
    <3>1. weekday - (dayOfYear - 1) = (weekday - SinceMonday) + Lead - 7 * (week - 1)
      BY <2>1, <2>2, <2>3
    <3>2. weekday - SinceMonday = 1 \/ weekday - SinceMonday = -6
      BY <2>1, <2>2
    <3> QED  BY <2>1, <3>1, <3>2 DEF NewYear
  <2>5. /\ GetWeekTime(week) = [start |-> 1 + w - NewYear + 1, end |-> 1 + w + 6 - NewYear + 1]
        /\ GetWeekTime(week).start = w + 2 - NewYear
        /\ GetWeekTime(week).end = w + 8 - NewYear
        /\ GetWeekWorkTime(week).start = w + 2 - NewYear
        /\ GetWeekWorkTime(week).end = w + 6 - NewYear
    <3>1. w = (week - 1) * 7 /\ w \in Int /\ NewYear \in Int
      BY <2>1, <2>4
    <3>2. GetWeekTime(week) = [start |-> 1 + w - NewYear + 1, end |-> 1 + w + 6 - NewYear + 1]
      BY <3>1 DEF GetWeekTime, Monday, Saturday
    <3>3. GetWeekWorkTime(week) = [GetWeekTime(week) EXCEPT !.end = @ - 2]
      BY DEF GetWeekWorkTime
    <3> HIDE DEF w
    <3> QED  BY <3>1, <3>2, <3>3
  <2>6. StartOfWeek(Monday) = dayOfYear - SinceMonday
    BY <2>1, <2>2 DEF StartOfWeek, Monday
  <2>7. StartOfWeek(Sunday) = dayOfYear - weekday
    BY <2>1 DEF StartOfWeek, Sunday
  <2>8. IsWeekDay <=> SinceMonday \in 0 .. 4
    BY <2>1, <2>2 DEF IsWeekDay, Saturday, Sunday
  <2>9. Lead # 6 /\ w \in Int
    BY <1>1, <2>1, <2>4 DEF Sunday
  <2>10. GetWeekTime(week).start = StartOfWeek(Monday)
    <3> HIDE DEF w
    <3> QED  BY <2>1, <2>2, <2>3, <2>4, <2>5, <2>6, <2>9
  <2>11. GetWeekTime(week).end
           = StartOfWeek(Sunday) + IF weekday = Sunday THEN 0 ELSE 7
    <3> HIDE DEF w
    <3> QED  BY <2>1, <2>2, <2>3, <2>4, <2>5, <2>7, <2>9 DEF Sunday
  <2>12. IsWeekDay <=> dayOfYear \in GetWeekWorkTime(week).start .. GetWeekWorkTime(week).end
    <3> HIDE DEF w
    <3> QED  BY <2>1, <2>2, <2>3, <2>4, <2>5, <2>8, <2>9
  <2> QED  BY <2>10, <2>11, <2>12
<1>2. IInv => WeekTimesAgree
  BY <1>1 DEF WeekTimesAgree
<1> QED  BY <1>2, Invariant, PTL

(* The age is that of the call or of the answer, unless the month turns.       *)
THEOREM AgesAreOfTheCall == Spec => []AgeOfTheCall
<1>1. IInv => AgeOfTheCall
  BY DEF IInv
<1> QED  BY <1>1, Invariant, PTL
================================================================================
