------------------------------- MODULE Calendar -------------------------------
(***************************************************************************)
(* The calendar of the intervalometer, date-time.c, and the clock that     *)
(* rtcc.c keeps with it.  A date-time is a record with the fields of       *)
(* dateTime_t; a clock is a date-time with its day of week and its season. *)
(* A season is 0 (NO_KNOWN_SEASON), 1 (WINTER) or 2 (SUMMER).              *)
(***************************************************************************)
EXTENDS Integers

WINTER == 1
SUMMER == 2

\* dateTime_init: 29 January 2016, 18:34:59.
dateTime_init ==
  [century |-> 21, year |-> 16, month |-> 1, day |-> 29,
   hour |-> 18, minute |-> 34, second |-> 59]

\* dateTime_setYear.
dateTime_setYear(dt, year) ==
  [dt EXCEPT !.year = year % 100, !.century = 1 + (year \div 100)]

dateTime_getYear(dt) == dt.year + 100 * (dt.century - 1)

\* The second test of the code never holds: what 400 divides, 100 divides.
dateTime_isLeapYear(dt) ==
  LET year == dateTime_getYear(dt)
  IN  year % 4 = 0 /\ ~ (year % 100 # 0 /\ year % 400 = 0)

_daysInMonth == <<31, 28, 31, 30, 31, 30, 31, 31, 30, 31, 30, 31>>

dateTime_daysInMonth(dt) ==
  IF dt.month # 2 THEN _daysInMonth[dt.month]
  ELSE IF dateTime_isLeapYear(dt) THEN 29 ELSE 28

\* Mutant: trusts the day that was typed.
dateTime_checkRanges_anyDay(dt) ==
  /\ dt.second < 60 /\ dt.minute < 60 /\ dt.hour < 24
  /\ dt.month \in 1 .. 12 /\ dt.day # 0
  /\ dt.year < 99 /\ dt.century # 0

dateTime_checkRanges(dt) ==
  /\ dt.second < 60 /\ dt.minute < 60 /\ dt.hour < 24
  /\ dt.month \in 1 .. 12 /\ dt.day # 0
  /\ dt.year < 99 /\ dt.century # 0
  /\ dt.day <= dateTime_daysInMonth(dt)

\* The first field, from the century on, in which a and b differ decides.
dateTime_isLaterOrEqual(a, b) ==
  LET differ(f) == a[f] # b[f]
      later(f)  == a[f] > b[f]
  IN  IF differ("century")     THEN later("century")
      ELSE IF differ("year")   THEN later("year")
      ELSE IF differ("month")  THEN later("month")
      ELSE IF differ("day")    THEN later("day")
      ELSE IF differ("hour")   THEN later("hour")
      ELSE IF differ("minute") THEN later("minute")
      ELSE a.second >= b.second

\* The days of the months before one, of a year that is not a leap year.
daysBefore == <<0, 31, 59, 90, 120, 151, 181, 212, 243, 273, 304, 334>>

dateTime_calcWeekDay(dt) ==
  LET year == dateTime_getYear(dt)
      leap == IF dt.month > 2 /\ dateTime_isLeapYear(dt) THEN 1 ELSE 0
      days == 365 * year + (year \div 4) - (year \div 100) + (year \div 400)
                + daysBefore[dt.month] + leap + dt.day
  IN  1 + ((days + 4) % 7)

\* The season of a date-time on a day of week (7 is SUNDAY).
dateTime_calcSeason(dt, weekday) ==
  LET daysToNext   == 32 - dt.day
      daysToSunday == 7 - weekday
  IN  CASE dt.month < 3 \/ dt.month > 10 -> WINTER
        [] dt.month > 3 /\ dt.month < 10 -> SUMMER
        [] dt.month = 3 ->
             IF daysToNext >= 7 THEN WINTER
             ELSE IF daysToSunday > daysToNext THEN SUMMER
             ELSE IF weekday # 7 \/ dt.hour < 2 THEN WINTER ELSE SUMMER
        [] dt.month = 10 ->
             IF daysToNext >= 7 \/ daysToSunday > daysToNext \/ weekday # 7 \/ dt.hour < 2
             THEN SUMMER
             ELSE IF dt.hour >= 3 THEN WINTER ELSE 0

-----------------------------------------------------------------------------
(* The clock of rtcc.c *)

\* What rtcc_init and rtcc_enterTime derive from the time.
clockOf(dt) ==
  LET weekDay == dateTime_calcWeekDay(dt)
  IN  [time |-> dt, weekDay |-> weekDay, season |-> dateTime_calcSeason(dt, weekDay)]

\* A day later at 0 o'clock.  The last day of a month is left out.
nextDay(dt) ==
  LET day == [dt EXCEPT !.hour = 0, !.day = dt.day + 1]
  IN  IF day.day < dateTime_daysInMonth(day) THEN day
      ELSE IF dt.month < 12 THEN [day EXCEPT !.day = 1, !.month = dt.month + 1]
      ELSE IF dt.year < 99 THEN [day EXCEPT !.day = 1, !.month = 1, !.year = dt.year + 1]
      ELSE [day EXCEPT !.day = 1, !.month = 1, !.year = 0, !.century = dt.century + 1]

\* Mutant: forgets the month.
_incHour_sameMonth(c) ==
  IF c.time.hour < 23 THEN [c EXCEPT !.time.hour = @ + 1]
  ELSE [c EXCEPT !.time = [nextDay(@) EXCEPT !.month = c.time.month],
                 !.weekDay = IF @ = 7 THEN 1 ELSE @ + 1]

_incHour(c) ==
  IF c.time.hour < 23 THEN [c EXCEPT !.time.hour = @ + 1]
  ELSE [c EXCEPT !.time = nextDay(@), !.weekDay = IF @ = 7 THEN 1 ELSE @ + 1]

\* A day sooner at 23 o'clock.  The year is not decremented.
lastDay(dt) ==
  LET month == IF dt.month > 1 THEN [dt EXCEPT !.month = @ - 1]
               ELSE IF dt.year > 0 THEN [dt EXCEPT !.month = 12]
               ELSE [dt EXCEPT !.month = 12, !.year = 99, !.century = dt.century - 1]
  IN  IF dt.day > 1 THEN [dt EXCEPT !.hour = 23, !.day = dt.day - 1]
      ELSE [month EXCEPT !.hour = 23, !.day = dateTime_daysInMonth(month)]

_decHour(c) ==
  IF c.time.hour > 0 THEN [c EXCEPT !.time.hour = @ - 1]
  ELSE [c EXCEPT !.time = lastDay(@), !.weekDay = IF @ = 1 THEN 7 ELSE @ - 1]

\* A season that begins moves the clock by an hour.
enterSeason(c, season) ==
  LET in == [c EXCEPT !.season = season]
  IN  CASE season = c.season -> c
        [] season # c.season /\ season = WINTER -> _decHour(in)
        [] season # c.season /\ season = SUMMER -> _incHour(in)
        [] season # c.season /\ season = 0      -> in

\* The season is asked for with the season in the place of the day of week.
_incSecond(c) ==
  IF c.time.second < 59 THEN [c EXCEPT !.time.second = @ + 1]
  ELSE IF c.time.minute < 59
  THEN [c EXCEPT !.time = [@ EXCEPT !.second = 0, !.minute = c.time.minute + 1]]
  ELSE LET hour == _incHour([c EXCEPT !.time = [@ EXCEPT !.second = 0, !.minute = 0]])
       IN  enterSeason(hour, dateTime_calcSeason(hour.time, hour.season))
=============================================================================
