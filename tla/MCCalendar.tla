------------------------------ MODULE MCCalendar -------------------------------
(* An instance of Calendar for TLC: dates of birth at the ends of a year and   *)
(* of a month, on a leap day and in the middle of a month.                     *)
EXTENDS Calendar

InFirstYear(m, d) == [year |-> FirstYear, month |-> m, day |-> d]

MCBirths == {InFirstYear(1, 1), InFirstYear(2, 29), InFirstYear(6, 15),
             InFirstYear(8, 31), InFirstYear(12, 31)}
================================================================================
