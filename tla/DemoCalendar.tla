----------------------------- MODULE DemoCalendar -----------------------------
(***************************************************************************)
(* The calendar of the demo program, date-time.c.  A date-time is a record *)
(* with the fields of dateTime_t; the months are counted from 0, january.  *)
(***************************************************************************)
EXTENDS Integers

january  == 0
february == 1
december == 11

dateTime_init ==
  [century |-> 21, year |-> 15, month |-> january, day |-> 1,
   hour |-> 0, min |-> 0, sec |-> 0]

dateTime_getYear(dt) == dt.year + 100 * (dt.century - 1)

dateTime_setYear(dt, year) ==
  [dt EXCEPT !.year = year % 100, !.century = (year \div 100) + 1]

_isLeapYear(dt) ==
  LET year == dateTime_getYear(dt)
  IN  year % 4 = 0 /\ (year % 400 = 0 \/ year % 100 # 0)

monthDaysQty == <<31, 28, 31, 30, 31, 30, 31, 31, 30, 31, 30, 31>>

_getMonthDaysQty(dt) ==
  IF dt.month = february /\ _isLeapYear(dt) THEN 29 ELSE monthDaysQty[dt.month + 1]

\* The fields are unsigned, and a day 0 passes.
dateTime_check(dt) ==
  /\ dt.century # 0 /\ dt.year <= 99 /\ dt.month <= december
  /\ dt.day <= _getMonthDaysQty(dt)
  /\ dt.hour <= 23 /\ dt.min <= 59 /\ dt.sec <= 59

\* The increments of dateTime_incSec from the day up.
incDay(dt) ==
  IF dt.day < _getMonthDaysQty(dt) THEN [dt EXCEPT !.day = @ + 1]
  ELSE IF dt.month < december THEN [dt EXCEPT !.day = 1, !.month = @ + 1]
  ELSE IF dt.year < 99 THEN [dt EXCEPT !.day = 1, !.month = january, !.year = @ + 1]
  ELSE [dt EXCEPT !.day = 1, !.month = january, !.year = 0, !.century = @ + 1]

dateTime_incSec(dt) ==
  IF dt.sec < 59 THEN [dt EXCEPT !.sec = @ + 1]
  ELSE IF dt.min < 59 THEN [dt EXCEPT !.sec = 0, !.min = @ + 1]
  ELSE IF dt.hour < 23 THEN [dt EXCEPT !.sec = 0, !.min = 0, !.hour = @ + 1]
  ELSE incDay([dt EXCEPT !.sec = 0, !.min = 0, !.hour = 0])

\* The first field, from the century on, in which a and b differ decides.
dateTime_isGreaterOrEqual(a, b) ==
  \/ a.century > b.century
  \/ a.century = b.century /\
     \/ a.year > b.year
     \/ a.year = b.year /\
        \/ a.month > b.month
        \/ a.month = b.month /\
           \/ a.day > b.day
           \/ a.day = b.day /\
              \/ a.hour > b.hour
              \/ a.hour = b.hour /\
                 \/ a.min > b.min
                 \/ a.min = b.min /\ a.sec >= b.sec
=============================================================================
