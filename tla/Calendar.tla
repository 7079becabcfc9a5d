------------------------------ MODULE Calendar ------------------------------
(***************************************************************************)
(* The date of http.rs: from seconds to a day of the Gregorian calendar.    *)
(***************************************************************************)
EXTENDS Integers

(* civil_from_days *)
CivilFromDays(days) ==
    LET z == days + 719468
        era == z \div 146097
        doe == z % 146097
        yoe == (doe - doe \div 1460 + doe \div 36524 - doe \div 146096) \div 365
        doy == doe - (365 * yoe + yoe \div 4 - yoe \div 100)
        mp == (5 * doy + 2) \div 153
        m == IF mp < 10 THEN mp + 3 ELSE mp - 9
        y == yoe + era * 400
    IN [year |-> IF m <= 2 THEN y + 1 ELSE y, month |-> m,
        day |-> doy - (153 * mp + 2) \div 5 + 1]

(* http_date: a day of the week is its place in DAYS, from 0. *)
HttpDate(secs) ==
    LET days == secs \div 86400
        rem == secs % 86400
    IN [date |-> CivilFromDays(days), weekday |-> (days + 4) % 7,
        time |-> <<rem \div 3600, (rem % 3600) \div 60, rem % 60>>]
------------------------------------------------------------------------------
(* The reference: how many days and seconds are before a date.              *)
IsLeap(year) == year % 4 = 0 /\ (year % 100 = 0 => year % 400 = 0)
DaysOf(year, month) ==
    CASE month \in {4, 6, 9, 11} -> 30 [] month = 2 -> (IF IsLeap(year) THEN 29 ELSE 28)
      [] OTHER -> 31
LeapsBefore(year) == LET y == year - 1 IN y \div 4 - y \div 100 + y \div 400
DaysBefore(date) ==
    LET sum[m \in 1..12] == IF m = 1 THEN 0 ELSE sum[m - 1] + DaysOf(date.year, m - 1)
    IN 365 * (date.year - 1970) + LeapsBefore(date.year) - LeapsBefore(1970)
       + sum[date.month] + date.day - 1

IsDate(date) == date.month \in 1..12 /\ date.day \in 1..DaysOf(date.year, date.month)

(* http.rs, civil_from_days - every day has one date, of the calendar.      *)
DayIsRight(days) ==
    IsDate(CivilFromDays(days)) /\ DaysBefore(CivilFromDays(days)) = days

(* http.rs, http_date - the date of a second is that many seconds after the *)
(* epoch, and its weekday is right: 1 January 1970 was a Thursday.          *)
DateIsRight(secs) ==
    LET r == HttpDate(secs)
        days == DaysBefore(r.date)
    IN /\ IsDate(r.date) /\ r.time \in (0..23) \X (0..59) \X (0..59)
       /\ secs - 60 * (60 * r.time[1] + r.time[2]) - r.time[3] = 86400 * days
       /\ (r.weekday - 4 - days) % 7 = 0
==============================================================================
