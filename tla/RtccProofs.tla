------------------------------ MODULE RtccProofs ------------------------------
(***************************************************************************)
(* The clock and its alarm, for every set of threads, of date-times that   *)
(* are typed and of functions that are called, and whatever the lists do.  *)
(* The argument needs who is inside of the mutex, that nobody runs between *)
(* two statements of the clock's critical section, and the calendar.       *)
(***************************************************************************)
EXTENDS Rtcc, MutexProofs

-----------------------------------------------------------------------------
(* The calendar, for every date-time: the comparison of the alarm is the order *)
(* of time, and a second more is later, but for the hour that winter gives     *)
(* back.                                                                       *)

\* A date-time of any numbers, one whose ranges were not checked, and a date-time.
Numbers == [century : Int, year : Int, month : Int, day : Int,
            hour : Int, minute : Int, second : Int]
Unchecked == [century : Int, year : 0 .. 99, month : Nat, day : Nat,
              hour : Nat, minute : Nat, second : Nat]
DateTimes == [century : Int, year : 0 .. 99, month : 1 .. 12, day : 1 .. 31,
              hour : 0 .. 23, minute : 0 .. 59, second : 0 .. 59]

Clocks == [time : DateTimes, weekDay : Int, season : {0, WINTER, SUMMER}]

\* The order of time, by days and then seconds.
Day(c, y, m, d) == ((y + 100 * (c - 1)) * 12 + m) * 32 + d
Second(h, i, s) == (h * 60 + i) * 60 + s

days(dt) == Day(dt.century, dt.year, dt.month, dt.day)
secs(dt) == Second(dt.hour, dt.minute, dt.second)
Sooner(a, b) == days(a) < days(b) \/ (days(a) = days(b) /\ secs(a) < secs(b))

\* A date-time at another hour, and a clock at another time.
atHour(dt, h)  == [dt EXCEPT !.hour = h]
nextSecond(dt) == [dt EXCEPT !.second = dt.second + 1]
nextMinute(dt) == [dt EXCEPT !.second = 0, !.minute = dt.minute + 1]
fullHour(dt)   == [dt EXCEPT !.second = 0, !.minute = 0]
onDay(c, dt, w) == [c EXCEPT !.time = dt, !.weekDay = w]

\* The fields of a date-time.
Is(dt, c, y, m, d, h, i, s) ==
  /\ dt \in Numbers
  /\ dt.century = c /\ dt.year = y /\ dt.month = m /\ dt.day = d
  /\ dt.hour = h /\ dt.minute = i /\ dt.second = s

LEMMA Fields ==
  ASSUME NEW dt \in Numbers
  PROVE  /\ dt.century \in Int /\ dt.year \in Int /\ dt.month \in Int /\ dt.day \in Int
         /\ dt.hour \in Int /\ dt.minute \in Int /\ dt.second \in Int
         /\ days(dt) \in Int /\ secs(dt) \in Int
BY DEF Numbers, days, secs, Day, Second

LEMMA Replaced ==
  ASSUME NEW dt \in Numbers, NEW u \in Int, NEW v \in Int, NEW w \in Int, NEW x \in Int
  PROVE  /\ Is([dt EXCEPT !.second = u],
               dt.century, dt.year, dt.month, dt.day, dt.hour, dt.minute, u)
         /\ Is([dt EXCEPT !.second = u, !.minute = v],
               dt.century, dt.year, dt.month, dt.day, dt.hour, v, u)
         /\ Is([dt EXCEPT !.hour = u],
               dt.century, dt.year, dt.month, dt.day, u, dt.minute, dt.second)
         /\ Is([dt EXCEPT !.hour = u, !.day = v],
               dt.century, dt.year, dt.month, v, u, dt.minute, dt.second)
         /\ Is([dt EXCEPT !.month = u],
               dt.century, dt.year, u, dt.day, dt.hour, dt.minute, dt.second)
         /\ Is([dt EXCEPT !.month = u, !.year = v, !.century = w],
               w, v, u, dt.day, dt.hour, dt.minute, dt.second)
         /\ Is([dt EXCEPT !.day = u, !.month = v],
               dt.century, dt.year, v, u, dt.hour, dt.minute, dt.second)
         /\ Is([dt EXCEPT !.day = u, !.month = v, !.year = w],
               dt.century, w, v, u, dt.hour, dt.minute, dt.second)
         /\ Is([dt EXCEPT !.day = u, !.month = v, !.year = w, !.century = x],
               x, w, v, u, dt.hour, dt.minute, dt.second)
BY DEF Numbers, Is

LEMMA InRange ==
  ASSUME NEW dt
  PROVE  dt \in DateTimes <=>
           /\ dt \in Numbers
           /\ dt.year \in 0 .. 99 /\ dt.month \in 1 .. 12 /\ dt.day \in 1 .. 31
           /\ dt.hour \in 0 .. 23 /\ dt.minute \in 0 .. 59 /\ dt.second \in 0 .. 59
<1>1. ASSUME dt \in DateTimes PROVE dt \in Numbers
  BY <1>1 DEF DateTimes, Numbers
<1>2. ASSUME dt \in Numbers,
             dt.year \in 0 .. 99, dt.month \in 1 .. 12, dt.day \in 1 .. 31,
             dt.hour \in 0 .. 23, dt.minute \in 0 .. 59, dt.second \in 0 .. 59
      PROVE  dt \in DateTimes
  BY <1>2 DEF DateTimes, Numbers
<1>3. dt \in DateTimes =>
        /\ dt.year \in 0 .. 99 /\ dt.month \in 1 .. 12 /\ dt.day \in 1 .. 31
        /\ dt.hour \in 0 .. 23 /\ dt.minute \in 0 .. 59 /\ dt.second \in 0 .. 59
  BY DEF DateTimes
<1> QED BY <1>1, <1>2, <1>3

LEMMA MonthsEnd ==
  ASSUME NEW dt, dt.month \in 1 .. 12
  PROVE  dateTime_daysInMonth(dt) \in 28 .. 31
<1>1. ASSUME NEW i \in 1 .. 12 PROVE _daysInMonth[i] \in 28 .. 31
  BY <1>1 DEF _daysInMonth
<1> QED BY <1>1 DEF dateTime_daysInMonth

\* What dateTime_checkRanges lets pass is in the ranges.
LEMMA CheckedInRange ==
  ASSUME NEW dt \in Unchecked, dateTime_checkRanges(dt)
  PROVE  dt \in DateTimes
BY MonthsEnd DEF Unchecked, DateTimes, dateTime_checkRanges

LEMMA SomeSeason ==
  ASSUME NEW dt \in DateTimes, NEW w \in Int
  PROVE  dateTime_calcSeason(dt, w) \in {0, WINTER, SUMMER}
<1>1. /\ dt.month \in 1 .. 12 /\ dt.day \in 1 .. 31 /\ dt.hour \in 0 .. 23
      /\ {0, WINTER, SUMMER} = {0, 1, 2}
  BY DEF DateTimes, WINTER, SUMMER
<1>2. CASE dt.month < 3 \/ dt.month > 10
  BY <1>1, <1>2 DEF dateTime_calcSeason
<1>3. CASE dt.month > 3 /\ dt.month < 10
  BY <1>1, <1>3 DEF dateTime_calcSeason
<1>4. CASE dt.month = 3
  BY <1>1, <1>4 DEF dateTime_calcSeason
<1>5. CASE dt.month = 10
  BY <1>1, <1>5 DEF dateTime_calcSeason
<1> QED BY <1>1, <1>2, <1>3, <1>4, <1>5

\* Days and seconds are ordered by their digits.
LEMMA DayOrder ==
  ASSUME NEW c, NEW y, NEW m, NEW d, NEW e, NEW z, NEW n, NEW f,
         c \in Int, y \in 0 .. 99, m \in 1 .. 12, d \in 1 .. 31,
         e \in Int, z \in 0 .. 99, n \in 1 .. 12, f \in 1 .. 31
  PROVE  /\ Day(c, y, m, d) < Day(e, z, n, f) <=>
              \/ c < e
              \/ c = e /\ y < z
              \/ c = e /\ y = z /\ m < n
              \/ c = e /\ y = z /\ m = n /\ d < f
         /\ Day(c, y, m, d) = Day(e, z, n, f) <=> c = e /\ y = z /\ m = n /\ d = f
BY DEF Day

LEMMA SecondOrder ==
  ASSUME NEW h, NEW i, NEW s, NEW g, NEW j, NEW r,
         h \in Int, i \in 0 .. 59, s \in 0 .. 59,
         g \in Int, j \in 0 .. 59, r \in 0 .. 59
  PROVE  Second(h, i, s) < Second(g, j, r) <=>
           \/ h < g
           \/ h = g /\ i < j
           \/ h = g /\ i = j /\ s < r
BY DEF Second

\* The comparison of the alarm (date-time.c) is the order of time.
THEOREM LaterIsNotSooner ==
  ASSUME NEW a \in DateTimes, NEW b \in DateTimes
  PROVE  dateTime_isLaterOrEqual(a, b) <=> ~ Sooner(a, b)
<1>1. /\ a.century \in Int /\ a.year \in 0 .. 99 /\ a.month \in 1 .. 12 /\ a.day \in 1 .. 31
      /\ a.hour \in Int /\ a.minute \in 0 .. 59 /\ a.second \in 0 .. 59
      /\ b.century \in Int /\ b.year \in 0 .. 99 /\ b.month \in 1 .. 12 /\ b.day \in 1 .. 31
      /\ b.hour \in Int /\ b.minute \in 0 .. 59 /\ b.second \in 0 .. 59
  BY InRange DEF Numbers
<1>2. /\ days(a) < days(b) <=>
           \/ a.century < b.century
           \/ a.century = b.century /\ a.year < b.year
           \/ a.century = b.century /\ a.year = b.year /\ a.month < b.month
           \/ a.century = b.century /\ a.year = b.year /\ a.month = b.month /\ a.day < b.day
      /\ days(a) = days(b) <=>
           a.century = b.century /\ a.year = b.year /\ a.month = b.month /\ a.day = b.day
  BY <1>1, DayOrder DEF days
<1>3. secs(a) < secs(b) <=>
        \/ a.hour < b.hour
        \/ a.hour = b.hour /\ a.minute < b.minute
        \/ a.hour = b.hour /\ a.minute = b.minute /\ a.second < b.second
  BY <1>1, SecondOrder DEF secs
<1>4. dateTime_isLaterOrEqual(a, b) <=>
        IF a.century # b.century     THEN a.century > b.century
        ELSE IF a.year # b.year      THEN a.year > b.year
        ELSE IF a.month # b.month    THEN a.month > b.month
        ELSE IF a.day # b.day        THEN a.day > b.day
        ELSE IF a.hour # b.hour      THEN a.hour > b.hour
        ELSE IF a.minute # b.minute  THEN a.minute > b.minute
        ELSE a.second >= b.second
  BY Zenon DEF dateTime_isLaterOrEqual
<1>5. Sooner(a, b) <=> days(a) < days(b) \/ (days(a) = days(b) /\ secs(a) < secs(b))
  BY DEF Sooner
<1>6. /\ a.year \in Int /\ a.month \in Int /\ a.day \in Int /\ a.minute \in Int /\ a.second \in Int
      /\ b.year \in Int /\ b.month \in Int /\ b.day \in Int /\ b.minute \in Int /\ b.second \in Int
  BY <1>1
<1> QED BY <1>1, <1>2, <1>3, <1>4, <1>5, <1>6

-----------------------------------------------------------------------------
(* The hours and the days *)

LEMMA When ==
  ASSUME NEW dt, NEW c, NEW y, NEW m, NEW d, NEW h, NEW i, NEW s,
         Is(dt, c, y, m, d, h, i, s)
  PROVE  /\ days(dt) = Day(c, y, m, d) /\ secs(dt) = Second(h, i, s)
         /\ dt.minute = i
BY DEF Is, days, secs

LEMMA IsInRange ==
  ASSUME NEW dt, NEW c, NEW y, NEW m, NEW d, NEW h, NEW i, NEW s,
         Is(dt, c, y, m, d, h, i, s),
         y \in 0 .. 99, m \in 1 .. 12, d \in 1 .. 31,
         h \in 0 .. 23, i \in 0 .. 59, s \in 0 .. 59
  PROVE  dt \in DateTimes
BY InRange DEF Is

LEMMA HourSet ==
  ASSUME NEW dt, NEW h, dt \in DateTimes, h \in 0 .. 23
  PROVE  /\ atHour(dt, h) \in DateTimes
         /\ days(atHour(dt, h)) = days(dt)
         /\ secs(atHour(dt, h)) = secs(dt) + 3600 * (h - dt.hour)
         /\ atHour(dt, h).minute = dt.minute
<1>1. /\ dt \in Numbers /\ h \in Int
      /\ dt.year \in 0 .. 99 /\ dt.month \in 1 .. 12 /\ dt.day \in 1 .. 31
      /\ dt.hour \in 0 .. 23 /\ dt.minute \in 0 .. 59 /\ dt.second \in 0 .. 59
  BY InRange
<1> DEFINE set == atHour(dt, h)
<1>2. Is(set, dt.century, dt.year, dt.month, dt.day, h, dt.minute, dt.second)
  BY <1>1, Replaced, Zenon DEF atHour
<1> HIDE DEF set
<1>3. set \in DateTimes
  BY <1>1, <1>2, IsInRange
<1>4. /\ days(set) = days(dt) /\ set.minute = dt.minute
      /\ secs(set) = Second(h, dt.minute, dt.second)
  BY <1>2, When DEF days
<1>5. secs(dt) = Second(dt.hour, dt.minute, dt.second)
  BY DEF secs
<1>6. ASSUME NEW g, NEW i, NEW s, g \in Int, i \in Int, s \in Int
      PROVE  Second(h, i, s) = Second(g, i, s) + 3600 * (h - g)
  BY <1>6 DEF Second
<1>7. dt.hour \in Int /\ dt.minute \in Int /\ dt.second \in Int
  BY <1>1
<1>8. secs(set) = secs(dt) + 3600 * (h - dt.hour)
  BY <1>4, <1>5, <1>6, <1>7
<1> QED BY <1>3, <1>4, <1>8 DEF set

LEMMA NextDayLater ==
  ASSUME NEW dt \in DateTimes
  PROVE  /\ nextDay(dt) \in DateTimes
         /\ days(dt) < days(nextDay(dt))
         /\ nextDay(dt).minute = dt.minute
<1> DEFINE day == [dt EXCEPT !.hour = 0, !.day = dt.day + 1]
           c == dt.century
           y == dt.year
           m == dt.month
           d == dt.day
           i == dt.minute
           s == dt.second
<1>1. /\ dt \in Numbers /\ c \in Int /\ y \in 0 .. 99 /\ m \in 1 .. 12
      /\ d \in 1 .. 31 /\ i \in 0 .. 59 /\ s \in 0 .. 59
      /\ 0 \in Int /\ 1 \in Int
      /\ d + 1 \in Int /\ m + 1 \in Int /\ y + 1 \in Int /\ c + 1 \in Int
  BY InRange DEF Numbers
<1>2. Is(day, c, y, m, d + 1, 0, i, s)
  BY <1>1, Replaced, Zenon DEF day
<1>3. \/ nextDay(dt) = day /\ day.day < dateTime_daysInMonth(day)
      \/ m < 12 /\ nextDay(dt) = [day EXCEPT !.day = 1, !.month = m + 1]
      \/ ~ (m < 12) /\ y < 99 /\ nextDay(dt) = [day EXCEPT !.day = 1, !.month = 1, !.year = y + 1]
      \/ /\ ~ (m < 12) /\ ~ (y < 99)
         /\ nextDay(dt) = [day EXCEPT !.day = 1, !.month = 1, !.year = 0, !.century = c + 1]
  BY Zenon DEF nextDay
<1> HIDE DEF day
<1> DEFINE next == nextDay(dt)
<1> HIDE DEF next
<1>4. dateTime_daysInMonth(day) \in 28 .. 31 /\ day.day = d + 1
  BY <1>1, <1>2, MonthsEnd DEF Is
<1>5. day \in Numbers /\ day.century = c /\ day.year = y /\ day.month = m
      /\ day.hour = 0 /\ day.minute = i /\ day.second = s
  BY <1>2 DEF Is
<1>6. CASE next = day /\ day.day < dateTime_daysInMonth(day)
  <2>1. d + 1 \in 1 .. 31 /\ d + 1 \in Int /\ 0 \in 0 .. 23
    BY <1>1, <1>4, <1>6
  <2>2. next \in DateTimes
    BY <1>1, <1>2, <1>6, <2>1, IsInRange
  <2>3. days(next) = Day(c, y, m, d + 1) /\ next.minute = i
    BY <1>2, <1>6, When
  <2>4. days(dt) < days(next)
    BY <1>1, <2>1, <2>3, DayOrder DEF days
  <2> QED BY <2>2, <2>3, <2>4 DEF next
<1> DEFINE Later(e, z, n) == e > c \/ (e = c /\ (z > y \/ (z = y /\ n > m)))
<1>7. ASSUME NEW e, NEW z, NEW n, e \in Int, z \in 0 .. 99, n \in 1 .. 12,
             Is(next, e, z, n, 1, 0, i, s), Later(e, z, n)
      PROVE  next \in DateTimes /\ days(dt) < days(next) /\ next.minute = i
  <2>1. 1 \in 1 .. 31 /\ 0 \in 0 .. 23
    OBVIOUS
  <2>2. next \in DateTimes
    BY <1>1, <1>7, <2>1, IsInRange
  <2>3. days(next) = Day(e, z, n, 1) /\ next.minute = i
    BY <1>7, When
  <2>4. days(dt) < days(next)
    BY <1>1, <1>7, <2>1, <2>3, DayOrder DEF days
  <2> QED BY <2>2, <2>3, <2>4
<1>8. CASE m < 12 /\ next = [day EXCEPT !.day = 1, !.month = m + 1]
  <2>1. Is(next, c, y, m + 1, 1, 0, i, s)
    BY <1>1, <1>5, <1>8, Replaced, Zenon
  <2>2. m + 1 \in 1 .. 12 /\ Later(c, y, m + 1)
    BY <1>1, <1>8
  <2> HIDE DEF Later
  <2>3. next \in DateTimes /\ days(dt) < days(next) /\ next.minute = i
    BY <1>1, <1>7, <2>1, <2>2
  <2> QED BY <2>3 DEF next
<1>9. CASE y < 99 /\ next = [day EXCEPT !.day = 1, !.month = 1, !.year = y + 1]
  <2>1. Is(next, c, y + 1, 1, 1, 0, i, s)
    BY <1>1, <1>5, <1>9, Replaced, Zenon
  <2>2. y + 1 \in 0 .. 99 /\ y + 1 > y /\ 1 \in 1 .. 12
    BY <1>1, <1>9
  <2>3. Later(c, y + 1, 1)
    BY <2>2, Zenon
  <2> HIDE DEF Later
  <2>4. next \in DateTimes /\ days(dt) < days(next) /\ next.minute = i
    BY <1>1, <1>7, <2>1, <2>2, <2>3
  <2> QED BY <2>4 DEF next
<1>10. CASE next = [day EXCEPT !.day = 1, !.month = 1, !.year = 0, !.century = c + 1]
  <2>1. Is(next, c + 1, 0, 1, 1, 0, i, s)
    BY <1>1, <1>5, <1>10, Replaced, Zenon
  <2>2. 0 \in 0 .. 99 /\ 1 \in 1 .. 12 /\ c + 1 > c
    BY <1>1
  <2>3. Later(c + 1, 0, 1)
    BY <2>2, Zenon
  <2> HIDE DEF Later
  <2>4. next \in DateTimes /\ days(dt) < days(next) /\ next.minute = i
    BY <1>1, <1>7, <2>1, <2>2, <2>3
  <2> QED BY <2>4 DEF next
<1> QED BY <1>3, <1>6, <1>8, <1>9, <1>10 DEF next

LEMMA TimeSet ==
  ASSUME NEW c, NEW dt, c \in Clocks, dt \in DateTimes
  PROVE  /\ [c EXCEPT !.time = dt] \in Clocks
         /\ [c EXCEPT !.time = dt].time = dt /\ [c EXCEPT !.time = dt].season = c.season
BY DEF Clocks

LEMMA DaySet ==
  ASSUME NEW c, NEW dt, NEW w, c \in Clocks, dt \in DateTimes, w \in Int
  PROVE  /\ onDay(c, dt, w) \in Clocks
         /\ onDay(c, dt, w).time = dt
         /\ onDay(c, dt, w).season = c.season
BY DEF Clocks, onDay

LEMMA SeasonSet ==
  ASSUME NEW c, NEW s, c \in Clocks, s \in {0, WINTER, SUMMER}
  PROVE  /\ [c EXCEPT !.season = s] \in Clocks
         /\ [c EXCEPT !.season = s].time = c.time /\ [c EXCEPT !.season = s].season = s
BY DEF Clocks

\* dt is in the hour of the clock.
LEMMA HourLater ==
  ASSUME NEW c \in Clocks, NEW dt \in DateTimes,
         days(dt) = days(c.time), secs(dt) < secs(c.time) + 3600
  PROVE  /\ _incHour(c) \in Clocks /\ Sooner(dt, _incHour(c).time)
         /\ _incHour(c).season = c.season
         /\ _incHour(c).time.minute = c.time.minute
<1>1. /\ c.time \in DateTimes /\ c.weekDay \in Int /\ c.season \in {0, WINTER, SUMMER}
      /\ c.time.hour \in 0 .. 23 /\ c.time \in Numbers /\ dt \in Numbers
      /\ secs(c.time) \in Int /\ secs(dt) \in Int
  BY InRange, Fields DEF Clocks
<1>2. CASE c.time.hour < 23
  <2>1. c.time.hour + 1 \in 0 .. 23 /\ c.time.hour + 1 - c.time.hour = 1
    BY <1>1, <1>2
  <2> DEFINE h == atHour(c.time, c.time.hour + 1)
  <2>2. _incHour(c) = [c EXCEPT !.time = h]
    BY <1>1, <1>2 DEF _incHour, Clocks, atHour
  <2>3. /\ h \in DateTimes /\ days(h) = days(c.time) /\ h.minute = c.time.minute
        /\ secs(h) = secs(c.time) + 3600 * (c.time.hour + 1 - c.time.hour)
    BY <1>1, <2>1, HourSet
  <2> HIDE DEF h
  <2>4. secs(h) = secs(c.time) + 3600
    BY <1>1, <2>1, <2>3
  <2>5. Sooner(dt, h)
    BY <1>1, <2>3, <2>4 DEF Sooner
  <2> QED BY <1>1, <2>2, <2>3, <2>5, TimeSet
<1>3. CASE ~ (c.time.hour < 23)
  <2> DEFINE w == IF c.weekDay = 7 THEN 1 ELSE c.weekDay + 1
  <2>1. _incHour(c) = onDay(c, nextDay(c.time), w)
    BY <1>1, <1>3 DEF _incHour, Clocks, onDay
  <2>2. w \in Int
    BY <1>1
  <2> HIDE DEF w
  <2>3. /\ nextDay(c.time) \in DateTimes /\ days(c.time) < days(nextDay(c.time))
        /\ nextDay(c.time).minute = c.time.minute
    BY <1>1, NextDayLater
  <2>4. Sooner(dt, nextDay(c.time))
    BY <2>3 DEF Sooner
  <2> QED BY <1>1, <2>1, <2>2, <2>3, <2>4, DaySet
<1> QED BY <1>2, <1>3

LEMMA LastDay ==
  ASSUME NEW dt \in DateTimes
  PROVE  lastDay(dt) \in DateTimes /\ lastDay(dt).minute = dt.minute
<1> DEFINE month == IF dt.month > 1 THEN [dt EXCEPT !.month = dt.month - 1]
                    ELSE IF dt.year > 0 THEN [dt EXCEPT !.month = 12]
                    ELSE [dt EXCEPT !.month = 12, !.year = 99, !.century = dt.century - 1]
           d == dateTime_daysInMonth(month)
<1>1. /\ dt \in Numbers /\ dt.century \in Int /\ dt.year \in 0 .. 99 /\ dt.month \in 1 .. 12
      /\ dt.day \in 1 .. 31 /\ dt.minute \in 0 .. 59 /\ dt.second \in 0 .. 59
      /\ dt.hour \in 0 .. 23
      /\ 23 \in Int /\ 12 \in Int /\ 99 \in Int /\ 23 \in 0 .. 23 /\ 12 \in 1 .. 12 /\ 99 \in 0 .. 99
      /\ dt.month - 1 \in Int /\ dt.century - 1 \in Int /\ dt.day - 1 \in Int
  BY InRange DEF Numbers
<1>2. lastDay(dt) = IF dt.day > 1 THEN [dt EXCEPT !.hour = 23, !.day = dt.day - 1]
                    ELSE [month EXCEPT !.hour = 23, !.day = d]
  BY Zenon DEF lastDay
<1>3. CASE dt.day > 1
  <2>1. Is(lastDay(dt), dt.century, dt.year, dt.month, dt.day - 1, 23, dt.minute, dt.second)
    <3>1. lastDay(dt) = [dt EXCEPT !.hour = 23, !.day = dt.day - 1]
      BY <1>2, <1>3
    <3>2. Is([dt EXCEPT !.hour = 23, !.day = dt.day - 1],
             dt.century, dt.year, dt.month, dt.day - 1, 23, dt.minute, dt.second)
      BY <1>1, Replaced, Zenon
    <3> QED BY <3>1, <3>2
  <2>2. dt.day - 1 \in 1 .. 31
    BY <1>1, <1>3
  <2> QED BY <1>1, <2>1, <2>2, IsInRange, When
<1>4. CASE ~ (dt.day > 1)
  <2>1. \E c, y, m : /\ Is(month, c, y, m, dt.day, dt.hour, dt.minute, dt.second)
                     /\ y \in 0 .. 99 /\ m \in 1 .. 12
    <3>1. CASE dt.month > 1
      <4>1. Is(month, dt.century, dt.year, dt.month - 1, dt.day, dt.hour, dt.minute, dt.second)
        BY <1>1, <3>1, Replaced, Zenon
      <4>2. dt.month - 1 \in 1 .. 12
        BY <1>1, <3>1
      <4> QED BY <1>1, <4>1, <4>2, Zenon
    <3>2. CASE ~ (dt.month > 1) /\ dt.year > 0
      <4>1. Is(month, dt.century, dt.year, 12, dt.day, dt.hour, dt.minute, dt.second)
        BY <1>1, <3>2, Replaced, Zenon
      <4> QED BY <1>1, <4>1, Zenon
    <3>3. CASE ~ (dt.month > 1) /\ ~ (dt.year > 0)
      <4>1. Is(month, dt.century - 1, 99, 12, dt.day, dt.hour, dt.minute, dt.second)
        BY <1>1, <3>3, Replaced, Zenon
      <4> QED BY <1>1, <4>1, Zenon
    <3> HIDE DEF month
    <3> QED BY <3>1, <3>2, <3>3
  <2> HIDE DEF month
  <2>2. PICK c, y, m : /\ Is(month, c, y, m, dt.day, dt.hour, dt.minute, dt.second)
                       /\ y \in 0 .. 99 /\ m \in 1 .. 12
    BY <2>1
  <2>3. /\ month \in Numbers /\ month.century = c /\ month.year = y /\ month.month = m
        /\ month.minute = dt.minute /\ month.second = dt.second
    BY <2>2 DEF Is
  <2>4. d \in 1 .. 31 /\ d \in Int
    BY <2>2, <2>3, MonthsEnd
  <2> HIDE DEF d
  <2>5. Is([month EXCEPT !.hour = 23, !.day = d], c, y, m, d, 23, dt.minute, dt.second)
    BY <1>1, <2>3, <2>4, Replaced, Zenon
  <2>6. lastDay(dt) = [month EXCEPT !.hour = 23, !.day = d]
    BY <1>2, <1>4
  <2> QED BY <1>1, <2>2, <2>4, <2>5, <2>6, IsInRange, When
<1> QED BY <1>3, <1>4

LEMMA HourSooner ==
  ASSUME NEW c \in Clocks
  PROVE  /\ _decHour(c) \in Clocks /\ _decHour(c).season = c.season
         /\ _decHour(c).time.minute = c.time.minute
<1>1. /\ c.time \in DateTimes /\ c.weekDay \in Int /\ c.season \in {0, WINTER, SUMMER}
      /\ c.time.hour \in 0 .. 23
  BY InRange DEF Clocks
<1>2. CASE c.time.hour > 0
  <2>1. c.time.hour - 1 \in 0 .. 23
    BY <1>1, <1>2
  <2> DEFINE h == atHour(c.time, c.time.hour - 1)
  <2>2. _decHour(c) = [c EXCEPT !.time = h]
    BY <1>1, <1>2 DEF _decHour, Clocks, atHour
  <2>3. h \in DateTimes /\ h.minute = c.time.minute
    BY <1>1, <2>1, HourSet
  <2> HIDE DEF h
  <2> QED BY <1>1, <2>2, <2>3, TimeSet
<1>3. CASE ~ (c.time.hour > 0)
  <2> DEFINE w == IF c.weekDay = 1 THEN 7 ELSE c.weekDay - 1
  <2>1. _decHour(c) = onDay(c, lastDay(c.time), w)
    BY <1>1, <1>3 DEF _decHour, Clocks, onDay
  <2>2. w \in Int
    BY <1>1
  <2> HIDE DEF w
  <2>3. lastDay(c.time) \in DateTimes /\ lastDay(c.time).minute = c.time.minute
    BY <1>1, LastDay
  <2> QED BY <1>1, <2>1, <2>2, <2>3, DaySet
<1> QED BY <1>2, <1>3

-----------------------------------------------------------------------------
(* The seconds *)

LEMMA InTheHour ==
  ASSUME NEW dt, dt \in DateTimes
  PROVE  /\ dt.second < 59 =>
              /\ nextSecond(dt) \in DateTimes
              /\ Sooner(dt, nextSecond(dt))
         /\ dt.minute < 59 =>
              /\ nextMinute(dt) \in DateTimes
              /\ Sooner(dt, nextMinute(dt))
         /\ fullHour(dt) \in DateTimes
         /\ days(fullHour(dt)) = days(dt)
         /\ secs(dt) < secs(fullHour(dt)) + 3600
         /\ fullHour(dt).minute = 0
<1> DEFINE second == nextSecond(dt)
           minute == nextMinute(dt)
           zero   == fullHour(dt)
<1>1. /\ dt \in Numbers /\ dt.century \in Int /\ dt.year \in 0 .. 99 /\ dt.month \in 1 .. 12
      /\ dt.day \in 1 .. 31 /\ dt.minute \in 0 .. 59 /\ dt.second \in 0 .. 59
      /\ dt.hour \in 0 .. 23 /\ dt.hour \in Int
      /\ dt.second + 1 \in Int /\ dt.minute + 1 \in Int /\ 0 \in Int /\ 0 \in 0 .. 59
  BY InRange DEF Numbers
<1>2. /\ Is(second, dt.century, dt.year, dt.month, dt.day, dt.hour, dt.minute, dt.second + 1)
      /\ Is(minute, dt.century, dt.year, dt.month, dt.day, dt.hour, dt.minute + 1, 0)
      /\ Is(zero, dt.century, dt.year, dt.month, dt.day, dt.hour, 0, 0)
  BY <1>1, Replaced, Zenon DEF nextSecond, nextMinute, fullHour
<1> HIDE DEF second, minute, zero
<1>3. /\ days(second) = days(dt) /\ days(minute) = days(dt) /\ days(zero) = days(dt)
      /\ zero.minute = 0
  BY <1>2, When DEF days
<1>4. /\ secs(second) = Second(dt.hour, dt.minute, dt.second + 1)
      /\ secs(minute) = Second(dt.hour, dt.minute + 1, 0)
      /\ secs(zero) = Second(dt.hour, 0, 0)
      /\ secs(dt) = Second(dt.hour, dt.minute, dt.second)
  BY <1>2, When DEF secs
<1>5. ASSUME NEW h, NEW i, NEW s, h \in Int, i \in 0 .. 59, s \in 0 .. 59
      PROVE  /\ Second(h, i, s) < Second(h, i, s + 1)
             /\ Second(h, i, s) < Second(h, i + 1, 0)
             /\ Second(h, i, s) < Second(h, 0, 0) + 3600
  BY <1>5 DEF Second
<1>6. secs(dt) < secs(second) /\ secs(dt) < secs(minute) /\ secs(dt) < secs(zero) + 3600
  BY <1>1, <1>4, <1>5
<1>7. zero \in DateTimes
  BY <1>1, <1>2, IsInRange
<1>8. dt.second < 59 => second \in DateTimes
  <2>1. dt.second < 59 => dt.second + 1 \in 0 .. 59
    BY <1>1
  <2> QED BY <1>1, <1>2, <2>1, IsInRange
<1>9. dt.minute < 59 => minute \in DateTimes
  <2>1. dt.minute < 59 => dt.minute + 1 \in 0 .. 59
    BY <1>1
  <2> QED BY <1>1, <1>2, <2>1, IsInRange
<1> QED BY <1>3, <1>6, <1>7, <1>8, <1>9 DEF second, minute, zero, Sooner

\* A second leads from a clock to a clock, and not back but at the start of winter
\* (the increments of rtcc.c).
THEOREM SecondLater ==
  ASSUME NEW c \in Clocks
  PROVE  /\ _incSecond(c) \in Clocks
         /\ \/ Sooner(c.time, _incSecond(c).time)
            \/ /\ c.season # WINTER /\ _incSecond(c).season = WINTER
               /\ c.time.minute = 59 /\ _incSecond(c).time.minute = 0
<1>1. /\ c.time \in DateTimes /\ c.season \in {0, WINTER, SUMMER}
      /\ c.time.second \in 0 .. 59 /\ c.time.minute \in 0 .. 59
      /\ 0 \in Int
  BY InRange DEF Clocks
<1>2. CASE c.time.second < 59
  <2> DEFINE dt == nextSecond(c.time)
  <2>1. _incSecond(c) = [c EXCEPT !.time = dt]
    BY <1>2, Zenon DEF _incSecond, nextSecond, nextMinute, fullHour
  <2>2. dt \in DateTimes /\ Sooner(c.time, dt)
    BY <1>1, <1>2, InTheHour
  <2> HIDE DEF dt
  <2> QED BY <1>1, <2>1, <2>2, TimeSet
<1>3. CASE ~ (c.time.second < 59) /\ c.time.minute < 59
  <2> DEFINE dt == nextMinute(c.time)
  <2>1. _incSecond(c) = [c EXCEPT !.time = dt]
    BY <1>3, Zenon DEF _incSecond, nextSecond, nextMinute, fullHour
  <2>2. dt \in DateTimes /\ Sooner(c.time, dt)
    BY <1>1, <1>3, InTheHour
  <2> HIDE DEF dt
  <2> QED BY <1>1, <2>1, <2>2, TimeSet
<1>4. CASE ~ (c.time.second < 59) /\ ~ (c.time.minute < 59)
  <2> DEFINE dt == fullHour(c.time)
             zero == [c EXCEPT !.time = dt]
             h == _incHour(zero)
             season == dateTime_calcSeason(h.time, h.season)
             in == [h EXCEPT !.season = season]
  <2>1. _incSecond(c) = enterSeason(h, season)
    BY <1>4, Zenon DEF _incSecond, nextSecond, nextMinute, fullHour
  <2>2. /\ dt \in DateTimes /\ days(dt) = days(c.time) /\ dt.minute = 0
        /\ secs(c.time) < secs(dt) + 3600
    BY <1>1, InTheHour
  <2> HIDE DEF dt
  <2>3. zero \in Clocks /\ zero.time = dt /\ zero.season = c.season
    BY <1>1, <2>2, TimeSet
  <2> HIDE DEF zero
  <2>4. /\ h \in Clocks /\ Sooner(c.time, h.time) /\ h.season = c.season
        /\ h.time.minute = 0
    BY <1>1, <2>2, <2>3, HourLater
  <2> HIDE DEF h
  <2>5. /\ h.time \in DateTimes /\ h.season \in Int /\ h.season \in {0, WINTER, SUMMER}
    BY <2>4 DEF Clocks, WINTER, SUMMER
  <2>6. season \in {0, WINTER, SUMMER}
    BY <2>5, SomeSeason
  <2>7. enterSeason(h, season) =
          IF season = h.season THEN h
          ELSE IF season = WINTER THEN _decHour(in)
          ELSE IF season = SUMMER THEN _incHour(in) ELSE in
    BY <2>6 DEF enterSeason, WINTER, SUMMER
  <2> HIDE DEF season
  <2>8. in \in Clocks /\ in.time = h.time /\ in.season = season
    BY <1>1, <2>4, <2>5, <2>6, SeasonSet
  <2> HIDE DEF in
  <2>9. CASE season # h.season /\ season = WINTER
    <3>1. /\ _incSecond(c) = _decHour(in) /\ _decHour(in) \in Clocks
          /\ _decHour(in).season = WINTER /\ _decHour(in).time.minute = 0
      BY <2>1, <2>4, <2>7, <2>8, <2>9, HourSooner
    <3>2. c.time.minute = 59 /\ c.season # WINTER
      BY <1>1, <1>4, <2>4, <2>9
    <3> QED BY <3>1, <3>2
  <2>10. CASE season # h.season /\ season = SUMMER
    <3>1. _incSecond(c) = _incHour(in)
      BY <2>1, <2>7, <2>10 DEF WINTER, SUMMER
    <3>2. h.time \in Numbers /\ c.time \in Numbers
      BY <1>1, <2>5, InRange
    <3>3. /\ days(c.time) \in Int /\ secs(c.time) \in Int
          /\ days(h.time) \in Int /\ secs(h.time) \in Int
      BY <3>2, Fields
    <3>4. secs(h.time) < secs(h.time) + 3600
      BY <3>3
    <3>5. _incHour(in) \in Clocks /\ Sooner(h.time, _incHour(in).time)
      BY <2>5, <2>8, <3>4, HourLater
    <3>6. _incHour(in).time \in Numbers
      BY <3>5, InRange DEF Clocks
    <3>7. days(_incHour(in).time) \in Int /\ secs(_incHour(in).time) \in Int
      BY <3>6, Fields
    <3>8. Sooner(c.time, _incHour(in).time)
      BY <2>4, <3>3, <3>5, <3>7 DEF Sooner
    <3> QED BY <3>1, <3>5, <3>8
  <2>11. CASE season = h.season \/ (season # WINTER /\ season # SUMMER)
    BY <2>1, <2>4, <2>7, <2>8, <2>11
  <2> QED BY <2>9, <2>10, <2>11
<1> QED BY <1>2, <1>3, <1>4

-----------------------------------------------------------------------------
(* The months: a day of the month stays one, over the ends of months and the *)
(* changes of season                                                         *)

InMonth(dt) == dt.day <= dateTime_daysInMonth(dt)

MonthDays(c, y, m) ==
  dateTime_daysInMonth([century |-> c, year |-> y, month |-> m])

LEMMA IsInMonth ==
  ASSUME NEW dt, NEW c, NEW y, NEW m, NEW d, NEW h, NEW i, NEW s,
         Is(dt, c, y, m, d, h, i, s), m \in 1 .. 12
  PROVE  /\ dateTime_daysInMonth(dt) = MonthDays(c, y, m)
         /\ InMonth(dt) <=> d <= MonthDays(c, y, m)
         /\ MonthDays(c, y, m) \in 28 .. 31
<1>1. dt.century = c /\ dt.year = y /\ dt.month = m /\ dt.day = d
  BY DEF Is
<1>2. dateTime_daysInMonth(dt) = MonthDays(c, y, m)
  BY <1>1 DEF MonthDays, dateTime_daysInMonth, dateTime_isLeapYear, dateTime_getYear
<1>3. dateTime_daysInMonth(dt) \in 28 .. 31
  BY <1>1, MonthsEnd
<1> QED BY <1>1, <1>2, <1>3 DEF InMonth

\* The fields of a date-time that is in the ranges.
LEMMA Itself ==
  ASSUME NEW dt \in DateTimes
  PROVE  /\ Is(dt, dt.century, dt.year, dt.month, dt.day, dt.hour, dt.minute, dt.second)
         /\ dt \in Numbers /\ dt.century \in Int /\ dt.year \in Int
         /\ dt.month \in 1 .. 12 /\ dt.month \in Int /\ dt.day \in 1 .. 31 /\ dt.day \in Int
         /\ dt.hour \in Int /\ dt.minute \in Int /\ dt.second \in Int
<1>1. /\ dt \in Numbers /\ dt.year \in 0 .. 99 /\ dt.month \in 1 .. 12 /\ dt.day \in 1 .. 31
  BY InRange
<1>2. Is(dt, dt.century, dt.year, dt.month, dt.day, dt.hour, dt.minute, dt.second)
  BY <1>1 DEF Is
<1>3. /\ dt.century \in Int /\ dt.year \in Int /\ dt.month \in Int /\ dt.day \in Int
      /\ dt.hour \in Int /\ dt.minute \in Int /\ dt.second \in Int
  BY <1>1, Fields
<1> QED BY <1>1, <1>2, <1>3

\* Another time of the day.
LEMMA SameDay ==
  ASSUME NEW dt \in DateTimes, InMonth(dt)
  PROVE  /\ \A h \in Int : InMonth(atHour(dt, h))
         /\ InMonth(nextSecond(dt)) /\ InMonth(nextMinute(dt)) /\ InMonth(fullHour(dt))
<1> DEFINE c == dt.century
           y == dt.year
           m == dt.month
           d == dt.day
<1>1. /\ Is(dt, c, y, m, d, dt.hour, dt.minute, dt.second)
      /\ dt \in Numbers /\ m \in 1 .. 12
      /\ dt.second + 1 \in Int /\ dt.minute + 1 \in Int /\ 0 \in Int
  BY Itself
<1>2. d <= MonthDays(c, y, m)
  BY <1>1, IsInMonth
<1>3. ASSUME NEW x, NEW h, NEW i, NEW s, Is(x, c, y, m, d, h, i, s) PROVE InMonth(x)
  BY <1>1, <1>2, <1>3, IsInMonth
<1>4. ASSUME NEW h \in Int PROVE InMonth(atHour(dt, h))
  <2>1. Is(atHour(dt, h), c, y, m, d, h, dt.minute, dt.second)
    BY <1>1, Replaced, Zenon DEF atHour
  <2> QED BY <1>3, <2>1
<1>5. InMonth(nextSecond(dt))
  <2>1. Is(nextSecond(dt), c, y, m, d, dt.hour, dt.minute, dt.second + 1)
    BY <1>1, Replaced, Zenon DEF nextSecond
  <2> QED BY <1>3, <2>1
<1>6. InMonth(nextMinute(dt))
  <2>1. Is(nextMinute(dt), c, y, m, d, dt.hour, dt.minute + 1, 0)
    BY <1>1, Replaced, Zenon DEF nextMinute
  <2> QED BY <1>3, <2>1
<1>7. InMonth(fullHour(dt))
  <2>1. Is(fullHour(dt), c, y, m, d, dt.hour, 0, 0)
    BY <1>1, Replaced, Zenon DEF fullHour
  <2> QED BY <1>3, <2>1
<1> QED BY <1>4, <1>5, <1>6, <1>7

LEMMA NextDayInMonth ==
  ASSUME NEW dt \in DateTimes
  PROVE  InMonth(nextDay(dt))
<1> DEFINE day == [dt EXCEPT !.hour = 0, !.day = dt.day + 1]
           c == dt.century
           y == dt.year
           m == dt.month
           i == dt.minute
           s == dt.second
<1>1. /\ dt \in Numbers /\ c \in Int /\ y \in Int /\ m \in 1 .. 12 /\ m \in Int
      /\ 0 \in Int /\ 1 \in Int
      /\ dt.day + 1 \in Int /\ m + 1 \in Int /\ y + 1 \in Int /\ c + 1 \in Int
      /\ dt.day \in 1 .. 31 /\ 1 \in 1 .. 12
  BY Itself
<1>2. Is(day, c, y, m, dt.day + 1, 0, i, s)
  BY <1>1, Replaced, Zenon DEF day
<1>3. \/ nextDay(dt) = day /\ day.day < dateTime_daysInMonth(day)
      \/ m < 12 /\ nextDay(dt) = [day EXCEPT !.day = 1, !.month = m + 1]
      \/ nextDay(dt) = [day EXCEPT !.day = 1, !.month = 1, !.year = y + 1]
      \/ nextDay(dt) = [day EXCEPT !.day = 1, !.month = 1, !.year = 0, !.century = c + 1]
  BY Zenon DEF nextDay
<1> HIDE DEF day
<1> DEFINE next == nextDay(dt)
<1> HIDE DEF next
<1>4. /\ day \in Numbers /\ day.century = c /\ day.year = y /\ day.month = m
      /\ day.hour = 0 /\ day.minute = i /\ day.second = s /\ day.day \in Int
  BY <1>1, <1>2 DEF Is
<1>5. ASSUME NEW e, NEW z, NEW n \in 1 .. 12, Is(next, e, z, n, 1, 0, i, s)
      PROVE  InMonth(next)
  <2>1. MonthDays(e, z, n) \in 28 .. 31 /\ (InMonth(next) <=> 1 <= MonthDays(e, z, n))
    BY <1>5, IsInMonth
  <2> QED BY <2>1
<1>6. CASE next = day /\ day.day < dateTime_daysInMonth(day)
  <2>1. dateTime_daysInMonth(day) \in 28 .. 31
    BY <1>1, <1>4, MonthsEnd
  <2> QED BY <1>4, <1>6, <2>1 DEF InMonth, next
<1>7. CASE m < 12 /\ next = [day EXCEPT !.day = 1, !.month = m + 1]
  <2>1. Is(next, c, y, m + 1, 1, 0, i, s)
    BY <1>1, <1>4, <1>7, Replaced, Zenon
  <2>2. m + 1 \in 1 .. 12
    BY <1>1, <1>7
  <2> QED BY <1>5, <2>1, <2>2 DEF next
<1>8. CASE next = [day EXCEPT !.day = 1, !.month = 1, !.year = y + 1]
  <2>1. Is(next, c, y + 1, 1, 1, 0, i, s)
    BY <1>1, <1>4, <1>8, Replaced, Zenon
  <2> QED BY <1>1, <1>5, <2>1 DEF next
<1>9. CASE next = [day EXCEPT !.day = 1, !.month = 1, !.year = 0, !.century = c + 1]
  <2>1. Is(next, c + 1, 0, 1, 1, 0, i, s)
    BY <1>1, <1>4, <1>9, Replaced, Zenon
  <2> QED BY <1>1, <1>5, <2>1 DEF next
<1> QED BY <1>3, <1>6, <1>7, <1>8, <1>9 DEF next

LEMMA LastDayInMonth ==
  ASSUME NEW dt \in DateTimes, InMonth(dt)
  PROVE  InMonth(lastDay(dt))
<1> DEFINE month == IF dt.month > 1 THEN [dt EXCEPT !.month = dt.month - 1]
                    ELSE IF dt.year > 0 THEN [dt EXCEPT !.month = 12]
                    ELSE [dt EXCEPT !.month = 12, !.year = 99, !.century = dt.century - 1]
           d == dateTime_daysInMonth(month)
           i == dt.minute
           s == dt.second
<1>1. /\ Is(dt, dt.century, dt.year, dt.month, dt.day, dt.hour, i, s)
      /\ dt \in Numbers /\ dt.century \in Int /\ dt.year \in Int /\ dt.month \in 1 .. 12
      /\ dt.day \in 1 .. 31 /\ dt.day \in Int /\ 23 \in Int /\ 12 \in Int /\ 99 \in Int
      /\ 12 \in 1 .. 12
      /\ dt.month - 1 \in Int /\ dt.century - 1 \in Int /\ dt.day - 1 \in Int
  BY Itself
<1>2. lastDay(dt) = IF dt.day > 1 THEN [dt EXCEPT !.hour = 23, !.day = dt.day - 1]
                    ELSE [month EXCEPT !.hour = 23, !.day = d]
  BY Zenon DEF lastDay
<1>3. CASE dt.day > 1
  <2>1. lastDay(dt) = [dt EXCEPT !.hour = 23, !.day = dt.day - 1]
    BY <1>2, <1>3
  <2>2. Is([dt EXCEPT !.hour = 23, !.day = dt.day - 1],
           dt.century, dt.year, dt.month, dt.day - 1, 23, i, s)
    BY <1>1, Replaced, Zenon
  <2>3. Is(lastDay(dt), dt.century, dt.year, dt.month, dt.day - 1, 23, i, s)
    BY <2>1, <2>2
  <2>4. /\ dt.day <= MonthDays(dt.century, dt.year, dt.month)
        /\ MonthDays(dt.century, dt.year, dt.month) \in 28 .. 31
        /\ InMonth(lastDay(dt)) <=> dt.day - 1 <= MonthDays(dt.century, dt.year, dt.month)
    BY <1>1, <2>3, IsInMonth
  <2> QED BY <1>1, <2>4
<1>4. CASE ~ (dt.day > 1)
  <2>1. \E c, y, m : /\ Is(month, c, y, m, dt.day, dt.hour, i, s) /\ m \in 1 .. 12
    <3>1. CASE dt.month > 1
      <4>1. Is(month, dt.century, dt.year, dt.month - 1, dt.day, dt.hour, i, s)
        BY <1>1, <3>1, Replaced, Zenon
      <4>2. dt.month - 1 \in 1 .. 12
        BY <1>1, <3>1
      <4> QED BY <4>1, <4>2, Zenon
    <3>2. CASE ~ (dt.month > 1) /\ dt.year > 0
      <4>1. Is(month, dt.century, dt.year, 12, dt.day, dt.hour, i, s)
        BY <1>1, <3>2, Replaced, Zenon
      <4> QED BY <1>1, <4>1, Zenon
    <3>3. CASE ~ (dt.month > 1) /\ ~ (dt.year > 0)
      <4>1. Is(month, dt.century - 1, 99, 12, dt.day, dt.hour, i, s)
        BY <1>1, <3>3, Replaced, Zenon
      <4> QED BY <1>1, <4>1, Zenon
    <3> HIDE DEF month
    <3> QED BY <3>1, <3>2, <3>3
  <2> HIDE DEF month
  <2>2. PICK c, y, m : Is(month, c, y, m, dt.day, dt.hour, i, s) /\ m \in 1 .. 12
    BY <2>1
  <2>3. /\ month \in Numbers /\ month.century = c /\ month.year = y /\ month.month = m
        /\ month.minute = i /\ month.second = s
    BY <2>2 DEF Is
  <2>4. d = MonthDays(c, y, m) /\ MonthDays(c, y, m) \in 28 .. 31 /\ d \in Int
    BY <2>2, IsInMonth
  <2> HIDE DEF d
  <2>5. Is([month EXCEPT !.hour = 23, !.day = d], c, y, m, d, 23, i, s)
    BY <1>1, <2>3, <2>4, Replaced, Zenon
  <2>6. lastDay(dt) = [month EXCEPT !.hour = 23, !.day = d]
    BY <1>2, <1>4
  <2>7. InMonth(lastDay(dt)) <=> d <= MonthDays(c, y, m)
    BY <2>2, <2>5, <2>6, IsInMonth
  <2> QED BY <2>4, <2>7
<1> QED BY <1>3, <1>4

LEMMA HourInMonth ==
  ASSUME NEW c \in Clocks, InMonth(c.time)
  PROVE  InMonth(_incHour(c).time) /\ InMonth(_decHour(c).time)
<1>1. /\ c.time \in DateTimes /\ c.weekDay \in Int /\ c.time.hour \in 0 .. 23
  BY InRange DEF Clocks
<1>2. ASSUME NEW h \in {c.time.hour + 1, c.time.hour - 1}
      PROVE  InMonth(atHour(c.time, h))
  <2>1. h \in Int
    BY <1>1
  <2> QED BY <1>1, <2>1, SameDay
<1>3. InMonth(_incHour(c).time)
  <2>1. CASE c.time.hour < 23
    <3>1. _incHour(c).time = atHour(c.time, c.time.hour + 1)
      BY <1>1, <2>1 DEF _incHour, Clocks, atHour
    <3> QED BY <1>2, <3>1
  <2>2. CASE ~ (c.time.hour < 23)
    <3>1. _incHour(c).time = nextDay(c.time)
      BY <2>2 DEF _incHour, Clocks
    <3> QED BY <1>1, <3>1, NextDayInMonth
  <2> QED BY <2>1, <2>2
<1>4. InMonth(_decHour(c).time)
  <2>1. CASE c.time.hour > 0
    <3>1. _decHour(c).time = atHour(c.time, c.time.hour - 1)
      BY <1>1, <2>1 DEF _decHour, Clocks, atHour
    <3> QED BY <1>2, <3>1
  <2>2. CASE ~ (c.time.hour > 0)
    <3>1. _decHour(c).time = lastDay(c.time)
      BY <2>2 DEF _decHour, Clocks
    <3> QED BY <1>1, <3>1, LastDayInMonth
  <2> QED BY <2>1, <2>2
<1> QED BY <1>3, <1>4

LEMMA SecondInMonth ==
  ASSUME NEW c \in Clocks, InMonth(c.time)
  PROVE  InMonth(_incSecond(c).time)
<1>1. c.time \in DateTimes
  BY DEF Clocks
<1>2. InMonth(nextSecond(c.time)) /\ InMonth(nextMinute(c.time)) /\ InMonth(fullHour(c.time))
  BY <1>1, SameDay
<1>3. CASE c.time.second < 59
  <2>1. _incSecond(c) = [c EXCEPT !.time = nextSecond(c.time)]
    BY <1>3, Zenon DEF _incSecond, nextSecond
  <2>2. _incSecond(c).time = nextSecond(c.time)
    BY <2>1 DEF Clocks
  <2> QED BY <1>2, <2>2
<1>4. CASE ~ (c.time.second < 59) /\ c.time.minute < 59
  <2>1. _incSecond(c) = [c EXCEPT !.time = nextMinute(c.time)]
    BY <1>4, Zenon DEF _incSecond, nextMinute
  <2>2. _incSecond(c).time = nextMinute(c.time)
    BY <2>1 DEF Clocks
  <2> QED BY <1>2, <2>2
<1>5. CASE ~ (c.time.second < 59) /\ ~ (c.time.minute < 59)
  <2> DEFINE dt == fullHour(c.time)
             zero == [c EXCEPT !.time = dt]
             h == _incHour(zero)
             season == dateTime_calcSeason(h.time, h.season)
             in == [h EXCEPT !.season = season]
  <2>1. _incSecond(c) = enterSeason(h, season)
    BY <1>5, Zenon DEF _incSecond, fullHour
  <2>2. dt \in DateTimes
    BY <1>1, InTheHour
  <2>3. dt \in DateTimes /\ InMonth(dt) /\ days(dt) = days(dt) /\ secs(dt) < secs(dt) + 3600
    <3>1. secs(dt) \in Int
      BY <2>2, InRange, Fields
    <3> HIDE DEF dt
    <3> QED BY <1>2, <2>2, <3>1 DEF dt
  <2> HIDE DEF dt
  <2>4. zero \in Clocks /\ zero.time = dt
    BY <1>1, <2>3, TimeSet
  <2> HIDE DEF zero
  <2>5. h \in Clocks /\ InMonth(h.time)
    BY <2>3, <2>4, HourLater, HourInMonth
  <2> HIDE DEF h
  <2>6. h.time \in DateTimes /\ h.season \in Int
    BY <2>5 DEF Clocks, WINTER, SUMMER
  <2>7. season \in {0, WINTER, SUMMER}
    BY <2>6, SomeSeason
  <2>8. enterSeason(h, season) \in {h, _decHour(in), _incHour(in), in}
    BY <2>7 DEF enterSeason, WINTER, SUMMER
  <2> HIDE DEF season
  <2>9. in \in Clocks /\ in.time = h.time
    BY <2>5, <2>7, SeasonSet
  <2> HIDE DEF in
  <2>10. InMonth(_decHour(in).time) /\ InMonth(_incHour(in).time)
    BY <2>5, <2>9, HourInMonth
  <2> QED BY <2>1, <2>5, <2>8, <2>9, <2>10
<1> QED BY <1>3, <1>4, <1>5

-----------------------------------------------------------------------------
(* The statements *)

Statements ==
  {"none", "enter", "on", "off", "stopped", "second", "check", "inc", "call", "called",
   "leave", "delay", "prompt", "command", "time", "alarm", "typing", "typed", "entered",
   "printing", "printTime", "printingTime", "start"}

\* What Prompt does with the numbers that are typed.
EntryTasks == [at : Statements, n : 1 .. 6, dest : {"time", "alarm"}, goal : Typed]
Tasks == [at : Statements] \cup EntryTasks

\* t goes on at a statement.
Moves(t, to) ==
  /\ task' \in [Threads -> Tasks]
  /\ task'[t].at = to
  /\ \A u \in Threads \ {t} : task'[u] = task[u]

LEMMA GotoTask ==
  ASSUME NEW r \in Tasks, NEW to \in Statements
  PROVE  /\ [r EXCEPT !.at = to] \in Tasks /\ [r EXCEPT !.at = to].at = to
         /\ r \in EntryTasks =>
              /\ [r EXCEPT !.at = to] \in EntryTasks
              /\ [r EXCEPT !.at = to].n = r.n
              /\ [r EXCEPT !.at = to].dest = r.dest
              /\ [r EXCEPT !.at = to].goal = r.goal
<1>1. CASE r \in [at : Statements] /\ r \notin EntryTasks
  BY <1>1 DEF Tasks
<1>2. CASE r \in EntryTasks
  BY <1>2 DEF Tasks, EntryTasks
<1> QED BY <1>1, <1>2 DEF Tasks

LEMMA GotoMoves ==
  ASSUME task \in [Threads -> Tasks], NEW t \in Threads, NEW to \in Statements, Goto(t, to)
  PROVE  Moves(t, to)
<1>1. /\ task' = [task EXCEPT ![t] = [task[t] EXCEPT !.at = to]]
      /\ task[t] \in Tasks
  BY DEF Goto
<1>2. [task[t] EXCEPT !.at = to] \in Tasks /\ [task[t] EXCEPT !.at = to].at = to
  BY <1>1, GotoTask
<1> DEFINE r == [task[t] EXCEPT !.at = to]
<1> HIDE DEF r
<1>3. task' = [task EXCEPT ![t] = r] /\ r \in Tasks /\ r.at = to
  BY <1>1, <1>2 DEF r
<1> QED BY <1>3 DEF Moves

LEMMA GotoEntry ==
  ASSUME task \in [Threads -> Tasks], NEW t \in Threads, NEW to \in Statements, Goto(t, to),
         task[t] \in EntryTasks
  PROVE  /\ Moves(t, to) /\ task'[t] \in EntryTasks
         /\ task'[t].n = task[t].n /\ task'[t].dest = task[t].dest
         /\ task'[t].goal = task[t].goal
<1>1. task' = [task EXCEPT ![t] = [task[t] EXCEPT !.at = to]]
  BY DEF Goto
<1> DEFINE r == [task[t] EXCEPT !.at = to]
<1>2. /\ r \in EntryTasks
      /\ r.n = task[t].n /\ r.dest = task[t].dest /\ r.goal = task[t].goal
  BY GotoTask
<1> HIDE DEF r
<1>3. task' = [task EXCEPT ![t] = r]
  BY <1>1 DEF r
<1>4. task'[t] = r
  BY <1>3
<1> QED BY <1>2, <1>4, GotoMoves

LEMMA NextEntry ==
  ASSUME task \in [Threads -> Tasks], NEW t \in Threads,
         task[t] \in EntryTasks, task[t].n < 6,
         task' = [task EXCEPT ![t] = [task[t] EXCEPT !.at = "typing", !.n = task[t].n + 1]]
  PROVE  /\ Moves(t, "typing") /\ task'[t] \in EntryTasks /\ task'[t].dest = task[t].dest
<1> DEFINE m == task[t].n + 1
<1>1. m \in 1 .. 6 /\ "typing" \in Statements
  BY DEF EntryTasks, Statements
<1>2. ASSUME NEW j \in EntryTasks, NEW n \in 1 .. 6
      PROVE  /\ [j EXCEPT !.at = "typing", !.n = n] \in EntryTasks
             /\ [j EXCEPT !.at = "typing", !.n = n].at = "typing"
             /\ [j EXCEPT !.at = "typing", !.n = n].dest = j.dest
  BY <1>1 DEF EntryTasks
<1> DEFINE r == [task[t] EXCEPT !.at = "typing", !.n = m]
<1> HIDE DEF m
<1>3. r \in EntryTasks /\ r.at = "typing" /\ r.dest = task[t].dest
  BY <1>1, <1>2, Zenon
<1>4. task' = [task EXCEPT ![t] = r]
  BY DEF r, m
<1> HIDE DEF r
<1> QED BY <1>3, <1>4 DEF Moves, Tasks

LEMMA At0Moves ==
  ASSUME task \in [Threads -> Tasks], NEW t \in Threads, NEW to \in Statements,
         task' = [task EXCEPT ![t] = At0(to)]
  PROVE  Moves(t, to)
<1>1. At0(to) \in Tasks /\ At0(to).at = to
  BY DEF At0, Tasks
<1> QED BY <1>1 DEF Moves

LEMMA EntryMoves ==
  ASSUME task \in [Threads -> Tasks], NEW t \in Threads, NEW dest \in {"time", "alarm"},
         startEntry(t, dest)
  PROVE  /\ Moves(t, "typing")
         /\ task'[t] \in EntryTasks /\ task'[t].n = 1 /\ task'[t].dest = dest
<1>1. PICK goal \in Typed :
        task' = [task EXCEPT ![t] = [at |-> "typing", n |-> 1, dest |-> dest, goal |-> goal]]
  BY DEF startEntry
<1> DEFINE r == [at |-> "typing", n |-> 1, dest |-> dest, goal |-> goal]
<1>2. /\ r \in EntryTasks /\ r \in Tasks
      /\ r.at = "typing" /\ r.n = 1 /\ r.dest = dest
  <2>1. "typing" \in Statements
    BY DEF Statements
  <2>2. r \in EntryTasks
    BY <2>1 DEF EntryTasks
  <2> QED BY <2>2 DEF Tasks
<1> HIDE DEF r
<1>3. task' = [task EXCEPT ![t] = r]
  BY <1>1 DEF r
<1> QED BY <1>2, <1>3 DEF Moves

-----------------------------------------------------------------------------
(* The mask and the mutex *)

LEMMA RtccMask == Mask /\ [RtccNext]_rtccVars => Mask'
<1> SUFFICES ASSUME Mask, [RtccNext]_rtccVars PROVE Mask'
  OBVIOUS
<1>1. CASE UNCHANGED kernelVars
  BY <1>1, SameMask DEF kernelVars
<1>2. CASE KernelSteps({})
  <2>1. CASE boot
    BY <2>1, StartMask DEF boot
  <2>2. ASSUME NEW t \in Threads, Returns(t) PROVE Mask'
    <3>1. ASSUME checkIRQ(t, {"run", "yield", "event_wait"} \cup EnterLabels \cup TimerLabels)
          PROVE  Mask'
      BY <3>1, OpenMask DEF EnterLabels, TimerLabels
    <3> QED
      BY <2>2, <3>1, FinishMask, TimedMask, EnterMask
         DEF Returns, yield_return, event_wait_return
  <2>3. ASSUME NEW t \in Threads, checkIRQ(t, {}) PROVE Mask'
    BY <2>3, OpenMask
  <2> QED BY <1>2, <2>1, <2>2, <2>3 DEF KernelSteps
<1>3. ASSUME NEW t \in Threads, Tick(t, timer0) \/ Interrupt(t, Line) \/ Interrupt(t, Room)
      PROVE  Mask'
  BY <1>3, SameMask
     DEF Tick, timer_isr, timer_tick, Interrupt, event_notifyISR, ResumeFromPriorListISR
<1>4. ASSUME NEW t \in Threads, NEW from, NEW to,
             \/ Enter(t, from, to) \/ \E e : WaitEvent(t, e, from, to)
             \/ TimerOn(t, timer0, from, to) \/ TimerOff(t, timer0, from, to)
             \/ Sleep(t, timer_period(t, timer0, OneSecond), from, to)
             \/ Sleep(t, timer_delay(t, timer0, 1), from, to)
      PROVE  Mask'
  <2>1. CASE Enter(t, from, to)
    BY <1>4, <2>1, TaskMask DEF Enter
  <2>2. ASSUME NEW e, WaitEvent(t, e, from, to) PROVE Mask'
    BY <2>2, LeaveMask DEF WaitEvent, event_wait
  <2>3. CASE TimerOn(t, timer0, from, to)
    BY <2>3, TimedMask DEF TimerOn, timer_on, task_updateTick
  <2>4. CASE TimerOff(t, timer0, from, to)
    BY <2>4, ReturnMask DEF TimerOff, timer_off, User
  <2>5. CASE \/ Sleep(t, timer_period(t, timer0, OneSecond), from, to)
             \/ Sleep(t, timer_delay(t, timer0, 1), from, to)
    BY <2>5, TimedMask DEF Sleep, timer_period, timer_delay
  <2> QED BY <1>4, <2>1, <2>2, <2>3, <2>4, <2>5
<1>5. ASSUME NEW t \in Threads, NEW from, NEW to,
             EnterMutex(t, _mutex, from, to) \/ ExitMutex(t, from, to) \/ Local(t, from, to)
      PROVE  Mask'
  BY <1>1, <1>5, EnterMask, ExitMask DEF EnterMutex, ExitMutex, Local
<1>6. ASSUME NEW t \in Threads, rtcc_task(t) PROVE Mask'
  BY <1>4, <1>5, <1>6 DEF rtcc_task, rest, incSecond, alarmDone
<1>7. ASSUME NEW t \in Threads, prompt_task(t) PROVE Mask'
  <2>1. CASE entered(t)
    BY <2>1, ExitMask DEF entered
  <2>2. CASE rtcc_start(t)
    BY <2>2, NotifyMask DEF rtcc_start
  <2>3. CASE rtcc_enterTime(t) \/ rtcc_enterAlarm(t) \/ number(t)
    BY <1>1, <2>3 DEF rtcc_enterTime, rtcc_enterAlarm, number
  <2>4. CASE rtcc_stop(t) \/ rtcc_alarmOff(t)
    BY <1>5, <2>4 DEF rtcc_stop, rtcc_alarmOff
  <2> QED
    BY <1>4, <1>5, <1>7, <2>1, <2>2, <2>3, <2>4 DEF prompt_task, printing, Reads
<1>8. CASE UNCHANGED rtccVars
  BY <1>1, <1>8 DEF rtccVars, programVars, driverVars, mutexVars, kernelVars
<1> QED
  BY <1>2, <1>3, <1>6, <1>7, <1>8, RtccAssumption DEF RtccNext

-----------------------------------------------------------------------------
(* Where the threads are *)

\* The statements inside of the mutex, and those that a thread enters it for.
Points(t) ==
  IF t = Rtcc THEN {"inc", "call", "called", "leave"}
  ELSE {"time", "alarm", "typing", "typed", "entered", "printing", "printingTime"}
Entries(t) == IF t = Rtcc THEN {"inc"} ELSE {"time", "alarm", "printing", "printingTime"}

\* t is in its critical section, and inside of the mutex when it should.
Placed(t) ==
  /\ pc[t].at = "new" => task[t].at = "enter"
  /\ task[t].at # "enter" => critical[t] > IF pc[t].at = "user" THEN 0 ELSE 1
  /\ pc[t].at = "mutex_enter" => pc[t].on = _mutex /\ task[t].at \in Entries(t)
  /\ task[t].at \in Points(t) => _mutex \in inside[t] \/ pc[t].at = "mutex_enter"

\* Nobody runs between the decision about the alarm and what follows from it.
Holding == task[Rtcc].at \in {"call", "leave"} => k.running = Rtcc /\ pc[Rtcc].at = "user"

Control ==
  /\ Mask /\ Owned
  /\ task \in [Threads -> Tasks]
  /\ task[Prompt].at \in {"typing", "typed", "entered"} => task[Prompt] \in EntryTasks
  /\ Placed(Rtcc) /\ Placed(Prompt) /\ Holding

\* A step of t.
OnlyThread(t) ==
  \A u \in Threads \ {t} :
    pc'[u] = pc[u] /\ critical'[u] = critical[u] /\ inside'[u] = inside[u] /\ task'[u] = task[u]

\* A call that t has returned from, or that it waits in.
Called(t) ==
  \/ UNCHANGED <<pc, critical>>
  \/ \E p : /\ p.at \notin {"new", "user", "mutex_enter"}
            /\ pc' = [pc EXCEPT ![t] = p]
            /\ critical' = [critical EXCEPT ![t] = @ + 1]

LEMMA Actors ==
  /\ Rtcc \in Threads /\ Prompt \in Threads /\ Rtcc # Prompt
  /\ Rtcc # Background /\ Prompt # Background
  /\ Points(Rtcc) = {"inc", "call", "called", "leave"}
  /\ Points(Prompt) = {"time", "alarm", "typing", "typed", "entered", "printing", "printingTime"}
  /\ Entries(Rtcc) = {"inc"}
  /\ Entries(Prompt) = {"time", "alarm", "printing", "printingTime"}
BY RtccAssumption DEF Points, Entries

LEMMA SamePlaced ==
  ASSUME NEW t, Placed(t),
         pc'[t] = pc[t], critical'[t] = critical[t], inside'[t] = inside[t], task'[t] = task[t]
  PROVE  Placed(t)'
BY DEF Placed, Points, Entries

LEMMA CalledPlaced ==
  ASSUME Control, NEW t \in {Rtcc, Prompt}, NEW from, NEW to,
         Stmt(t, from), Moves(t, to), Called(t), UNCHANGED inside,
         from # "enter", to \in Points(t) => from \in Points(t)
  PROVE  OnlyThread(t) /\ Placed(t)'
<1>1. /\ t \in Threads /\ critical \in [Threads -> Nat] /\ pc = [u \in Threads |-> pc[u]]
      /\ pc[t].at = "user" /\ critical[t] > 0 /\ critical[t] \in Nat
      /\ task[t].at = from /\ (from \in Points(t) => _mutex \in inside[t])
      /\ task'[t].at = to
  BY Actors DEF Control, Placed, Stmt, User, Moves, Mask
<1>2. OnlyThread(t)
  BY <1>1 DEF OnlyThread, Called, Moves
<1>3. CASE UNCHANGED <<pc, critical>>
  <2>1. pc'[t].at = "user" /\ critical'[t] > 0 /\ inside'[t] = inside[t]
    BY <1>1, <1>3
  <2> QED BY <1>1, <1>2, <2>1 DEF Placed, Points, Entries
<1>4. ASSUME NEW p, p.at \notin {"new", "user", "mutex_enter"},
             pc' = [pc EXCEPT ![t] = p], critical' = [critical EXCEPT ![t] = @ + 1]
      PROVE  Placed(t)'
  <2>1. pc'[t].at = p.at /\ critical'[t] > 1
    BY <1>1, <1>4
  <2> QED BY <1>1, <1>4, <2>1 DEF Placed, Points, Entries
<1> QED BY <1>2, <1>3, <1>4 DEF Called

LEMMA EnterPlaced ==
  ASSUME Control, NEW t \in {Rtcc, Prompt}, NEW from, NEW to,
         Enter(t, from, to), Moves(t, to), to \notin Points(t)
  PROVE  OnlyThread(t) /\ Placed(t)'
<1>1. /\ t \in Threads /\ critical \in [Threads -> Nat]
      /\ pc[t].at = "user" /\ critical[t] \in Nat /\ task'[t].at = to
      /\ critical' = [critical EXCEPT ![t] = @ + 1]
      /\ UNCHANGED <<pc, inside>>
  BY Actors DEF Control, Enter, Stmt, User, Moves, Mask, task_enterCritical, driverOnly, aboveKernel
<1>2. critical'[t] > 0
  BY <1>1
<1> QED BY <1>1, <1>2 DEF Placed, Points, Entries, OnlyThread, Moves

LEMMA EnterMutexPlaced ==
  ASSUME Control, NEW t \in {Rtcc, Prompt}, NEW from, NEW to,
         EnterMutex(t, _mutex, from, to), Moves(t, to), from # "enter", to \in Entries(t)
  PROVE  OnlyThread(t) /\ Placed(t)'
<1>1. /\ t \in Threads /\ critical \in [Threads -> Nat] /\ pc = [u \in Threads |-> pc[u]]
      /\ inside = [u \in Threads |-> inside[u]]
      /\ pc[t].at = "user" /\ critical[t] > 0 /\ critical[t] \in Nat
      /\ task'[t].at = to
  BY Actors DEF Control, Placed, EnterMutex, Stmt, User, Moves, Mask, Owned
<1>2. CASE mutex_enter_free(t, _mutex, "mutex_enter")
  <2>1. /\ inside' = [inside EXCEPT ![t] = @ \cup {_mutex}]
        /\ UNCHANGED <<pc, critical>>
    BY <1>2 DEF mutex_enter_free, Take, Return, staysCritical
  <2> QED BY <1>1, <2>1 DEF Placed, OnlyThread, Moves
<1>3. CASE mutex_enter_wait(t, _mutex, "mutex_enter")
  <2>1. /\ pc' = [pc EXCEPT ![t] = Inside("mutex_enter", _mutex)]
        /\ critical' = [critical EXCEPT ![t] = @ + 1] /\ UNCHANGED inside
    BY <1>3 DEF mutex_enter_wait, Leave
  <2>2. /\ pc'[t].at = "mutex_enter" /\ pc'[t].on = _mutex /\ critical'[t] > 1
    BY <1>1, <2>1 DEF Inside
  <2> QED BY <1>1, <2>1, <2>2 DEF Placed, OnlyThread, Moves, Entries
<1> QED BY <1>2, <1>3 DEF EnterMutex

LEMMA ExitPlaced ==
  ASSUME Control, NEW t \in {Rtcc, Prompt}, NEW from, NEW to,
         Stmt(t, from), mutex_exit(t, _mutex), Moves(t, to), from # "enter", to \notin Points(t)
  PROVE  OnlyThread(t) /\ Placed(t)'
<1>1. /\ t \in Threads /\ critical \in [Threads -> Nat] /\ pc = [u \in Threads |-> pc[u]]
      /\ inside = [u \in Threads |-> inside[u]]
      /\ pc[t].at = "user" /\ critical[t] > 0 /\ critical[t] \in Nat
      /\ task'[t].at = to
      /\ inside' = [inside EXCEPT ![t] = @ \ {_mutex}]
  BY Actors DEF Control, Placed, Stmt, User, Moves, Mask, Owned, mutex_exit, Release
<1>2. \/ UNCHANGED <<pc, critical>>
      \/ /\ pc' = [pc EXCEPT ![t] = At("yield")]
         /\ critical' = [critical EXCEPT ![t] = @ + 1]
  BY DEF mutex_exit, ResumeFullPriorList, Return, Leave
<1>3. \/ pc'[t].at = "user" /\ critical'[t] > 0
      \/ pc'[t].at = "yield" /\ critical'[t] > 1
  BY <1>1, <1>2 DEF At
<1> QED BY <1>1, <1>2, <1>3 DEF Placed, OnlyThread, Moves

LEMMA ReturnsPlaced ==
  ASSUME Control, NEW t \in Threads, Returns(t), UNCHANGED task, NEW u \in {Rtcc, Prompt}
  PROVE  Placed(u)'
<1>1. /\ u \in Threads /\ critical \in [Threads -> Nat] /\ pc = [v \in Threads |-> pc[v]]
      /\ inside = [v \in Threads |-> inside[v]] /\ Placed(u)
      /\ critical[t] \in Nat
  BY Actors DEF Control, Mask, Owned
<1>2. CASE UNCHANGED <<pc, critical, inside>>
  BY <1>1, <1>2, SamePlaced
<1>3. ASSUME Finish(t), UNCHANGED inside, pc[t].at \notin {"new", "user", "mutex_enter"}
      PROVE  Placed(u)'
  <2>1. /\ pc'[u] = IF u = t THEN At("user") ELSE pc[u]
        /\ critical'[u] = IF u = t THEN critical[t] - 1 ELSE critical[u]
    BY <1>1, <1>3 DEF Finish
  <2>2. At("user").at = "user"
    BY DEF At
  <2>3. CASE u = t
    BY <1>1, <1>3, <2>1, <2>2, <2>3 DEF Placed, Points, Entries
  <2>4. CASE u # t
    BY <1>1, <1>3, <2>1, <2>4, SamePlaced
  <2> QED BY <2>3, <2>4
<1>4. CASE mutex_enter_retry(t)
  <2>1. CASE UNCHANGED <<pc, critical, inside>>
    BY <1>2, <2>1
  <2>2. CASE Take(t, pc[t].on) /\ Entered(t) /\ pc[t].at \in EnterLabels
    <3>1. /\ inside' = [inside EXCEPT ![t] = @ \cup {pc[t].on}]
          /\ pc' = [pc EXCEPT ![t] = At("user")]
          /\ \/ UNCHANGED critical
             \/ critical' = [critical EXCEPT ![t] = @ - 1]
      BY <2>2 DEF Take, Entered, Finish
    <3>2. /\ pc'[u] = IF u = t THEN At("user") ELSE pc[u]
          /\ critical'[u] = critical[u] \/ (u = t /\ critical'[u] = critical[u] - 1)
          /\ inside'[u] = IF u = t THEN inside[u] \cup {pc[u].on} ELSE inside[u]
          /\ At("user").at = "user"
      BY <1>1, <3>1 DEF At
    <3>3. CASE u = t
      <4>1. pc[u].at \notin {"new", "user"}
        BY <2>2, <3>3 DEF EnterLabels
      <4> QED BY <1>1, <3>2, <3>3, <4>1 DEF Placed, Points, Entries
    <3>4. CASE u # t
      BY <1>1, <3>2, <3>4, SamePlaced
    <3> QED BY <3>3, <3>4
  <2> QED BY <1>4, <2>1, <2>2 DEF mutex_enter_retry
<1>5. CASE timer_return(t) /\ UNCHANGED timeOnly
  BY <1>3, <1>5 DEF timer_return, timeOnly, TimerLabels
<1> QED
  BY <1>2, <1>3, <1>4, <1>5 DEF Returns, checkIRQ, yield_return, event_wait_return, aboveKernel

LEMMA BootPlaced ==
  ASSUME Control, boot, UNCHANGED task, NEW u \in {Rtcc, Prompt}
  PROVE  Placed(u)'
<1>1. /\ u \in Threads /\ u # Background /\ Background \in Threads
      /\ critical \in [Threads -> Nat] /\ pc = [v \in Threads |-> pc[v]] /\ Placed(u)
      /\ UNCHANGED inside
  BY Actors, KernelAssumption DEF Control, Mask, boot, aboveKernel
<1>2. ASSUME NEW th \in Threads, scheduler_add(th) PROVE Placed(u)'
  <2>1. /\ pc'[u] = IF u = th THEN At("user") ELSE pc[u]
        /\ critical'[u] = IF u = th THEN 0 ELSE critical[u]
        /\ pc[th].at = "new" /\ At("user").at = "user"
    BY <1>1, <1>2 DEF scheduler_add, At
  <2>2. CASE u = th
    <3>1. task'[u].at = "enter"
      BY <1>1, <2>1, <2>2 DEF Placed
    <3>2. pc'[u].at = "user"
      BY <2>1, <2>2
    <3> QED BY <3>1, <3>2, Actors DEF Placed
  <2>3. CASE u # th
    BY <1>1, <2>1, <2>3, SamePlaced
  <2> QED BY <2>2, <2>3
<1>3. CASE scheduler_run \/ scheduler_run_return
  <2>1. pc'[u] = pc[u] /\ critical'[u] = critical[u]
    BY <1>1, <1>3 DEF scheduler_run, scheduler_run_return
  <2> QED BY <1>1, <2>1, SamePlaced
<1> QED BY <1>2, <1>3 DEF boot

-----------------------------------------------------------------------------
(* The steps of the threads *)

LEMMA InMutex ==
  ASSUME Control, NEW t \in {Rtcc, Prompt}, NEW at \in Points(t), Stmt(t, at)
  PROVE  _mutex \in inside[t]
BY DEF Control, Placed, Stmt, User

\* The mutex is not the matter of these calls.
LEMMA CallsCalled ==
  ASSUME NEW t \in {Rtcc, Prompt}, NEW from, NEW to,
         \/ \E e : WaitEvent(t, e, from, to)
         \/ TimerOn(t, timer0, from, to) \/ TimerOff(t, timer0, from, to)
         \/ Sleep(t, timer_period(t, timer0, OneSecond), from, to)
         \/ Sleep(t, timer_delay(t, timer0, 1), from, to)
         \/ Local(t, from, to)
  PROVE  Called(t) /\ UNCHANGED <<busy, inside>> /\ Stmt(t, from) /\ Goto(t, to)
<1>1. ASSUME NEW e, WaitEvent(t, e, from, to)
      PROVE  Called(t) /\ UNCHANGED <<busy, inside>> /\ Stmt(t, from) /\ Goto(t, to)
  <2>1. Inside("event_wait", e).at = "event_wait"
    BY DEF Inside
  <2> QED BY <1>1, <2>1 DEF WaitEvent, event_wait, Leave, Called, driverOnly, aboveKernel
<1>2. CASE TimerOn(t, timer0, from, to) \/ TimerOff(t, timer0, from, to)
  BY <1>2
     DEF TimerOn, TimerOff, timer_on, timer_off, task_updateTick, SetDue, Return, Called,
         timeOnly, aboveKernel
<1>3. ASSUME NEW label \in TimerLabels, NEW time, WaitTimer(t, timer0, label, time),
             UNCHANGED timeOnly
      PROVE  Called(t) /\ UNCHANGED <<busy, inside>>
  <2> DEFINE p == [at |-> label, on |-> timer0, tmp |-> due[t]]
  <2>1. p.at \notin {"new", "user", "mutex_enter"}
    BY <1>3 DEF TimerLabels
  <2>2. Leave(t, p)
    BY <1>3 DEF WaitTimer
  <2> HIDE DEF p
  <2> QED BY <1>3, <2>1, <2>2 DEF Leave, Called, timeOnly
<1>4. CASE \/ Sleep(t, timer_period(t, timer0, OneSecond), from, to)
           \/ Sleep(t, timer_delay(t, timer0, 1), from, to)
  BY <1>3, <1>4 DEF Sleep, timer_period, timer_delay, TimerLabels
<1>5. CASE Local(t, from, to)
  BY <1>5 DEF Local, Called, kernelVars, driverOnly, aboveKernel
<1> QED BY <1>1, <1>2, <1>4, <1>5

LEMMA RtccSteps ==
  ASSUME Control, rtcc_task(Rtcc)
  PROVE  /\ task' \in [Threads -> Tasks] /\ OnlyThread(Rtcc) /\ Owned'
         /\ Placed(Rtcc)' /\ Holding'
         /\ \/ incSecond(Rtcc) \/ alarmDone(Rtcc)
            \/ /\ UNCHANGED shared /\ task'[Rtcc].at \notin {"call", "leave"}
               /\ task'[Rtcc].at = "called" => Stmt(Rtcc, "call")
<1>1. /\ task \in [Threads -> Tasks] /\ Owned /\ Rtcc \in Threads
      /\ Points(Rtcc) = {"inc", "call", "called", "leave"} /\ Entries(Rtcc) = {"inc"}
  BY Actors DEF Control
<1>2. ASSUME NEW from \in Statements, NEW to \in Statements,
             Called(Rtcc), UNCHANGED <<busy, inside>>, Stmt(Rtcc, from), Goto(Rtcc, to),
             from # "enter", to \in Points(Rtcc) => from \in Points(Rtcc)
      PROVE  /\ task' \in [Threads -> Tasks] /\ OnlyThread(Rtcc) /\ Owned' /\ Placed(Rtcc)'
             /\ task'[Rtcc].at = to
  <2>1. Moves(Rtcc, to)
    BY <1>1, <1>2, GotoMoves
  <2>2. Owned'
    BY <1>1, <1>2 DEF Owned, OwnerInside
  <2> QED BY <1>2, <2>1, <2>2, CalledPlaced DEF Moves
<1>3. CASE Enter(Rtcc, "enter", "stopped") /\ UNCHANGED shared
  <2>1. Moves(Rtcc, "stopped")
    BY <1>1, <1>3, GotoMoves DEF Enter, Statements
  <2>2. Owned'
    BY <1>1, <1>3 DEF Owned, OwnerInside, Enter, driverOnly, aboveKernel
  <2> QED BY <1>1, <1>3, <2>1, <2>2, EnterPlaced DEF Moves, Holding
<1>4. CASE EnterMutex(Rtcc, _mutex, "check", "inc") /\ UNCHANGED shared
  <2>1. Moves(Rtcc, "inc")
    BY <1>1, <1>4, GotoMoves DEF EnterMutex, Statements
  <2>2. Owned'
    <3>1. CASE mutex_enter_free(Rtcc, _mutex, "mutex_enter")
      BY <1>1, <3>1, TakeOwned DEF mutex_enter_free
    <3>2. CASE mutex_enter_wait(Rtcc, _mutex, "mutex_enter")
      BY <1>1, <3>2 DEF mutex_enter_wait, Owned, OwnerInside
    <3> QED BY <1>4, <3>1, <3>2 DEF EnterMutex
  <2> QED BY <1>1, <1>4, <2>1, <2>2, EnterMutexPlaced DEF Moves, Holding
<1>5. CASE ExitMutex(Rtcc, "leave", "second") /\ UNCHANGED shared
  <2>1. Moves(Rtcc, "second")
    BY <1>1, <1>5, GotoMoves DEF ExitMutex, Statements
  <2>2. _mutex \in inside[Rtcc]
    BY <1>1, <1>5, InMutex DEF ExitMutex
  <2>3. Owned'
    BY <1>1, <1>5, <2>2, ReleaseOwned DEF ExitMutex, mutex_exit
  <2> QED BY <1>1, <1>5, <2>1, <2>3, ExitPlaced DEF Moves, Holding, ExitMutex
<1>6. ASSUME NEW from \in Statements, NEW to \in Statements,
             \/ \E e : WaitEvent(Rtcc, e, from, to)
             \/ TimerOn(Rtcc, timer0, from, to) \/ TimerOff(Rtcc, timer0, from, to)
             \/ Sleep(Rtcc, timer_period(Rtcc, timer0, OneSecond), from, to)
             \/ Local(Rtcc, from, to),
             UNCHANGED shared,
             from # "enter", to \in Points(Rtcc) => from \in Points(Rtcc),
             to \notin {"call", "leave"}, to = "called" => from = "call"
      PROVE  /\ task' \in [Threads -> Tasks] /\ OnlyThread(Rtcc) /\ Owned'
             /\ Placed(Rtcc)' /\ Holding'
             /\ UNCHANGED shared /\ task'[Rtcc].at \notin {"call", "leave"}
             /\ task'[Rtcc].at = "called" => Stmt(Rtcc, "call")
  <2>1. Called(Rtcc) /\ UNCHANGED <<busy, inside>> /\ Stmt(Rtcc, from) /\ Goto(Rtcc, to)
    BY <1>6, CallsCalled
  <2> QED BY <1>2, <1>6, <2>1 DEF Holding
<1>7. ASSUME NEW from \in Points(Rtcc), NEW to \in Points(Rtcc), Local(Rtcc, from, to)
      PROVE  /\ task' \in [Threads -> Tasks] /\ OnlyThread(Rtcc) /\ Owned'
             /\ Placed(Rtcc)' /\ Holding'
  <2>1. Called(Rtcc) /\ UNCHANGED <<busy, inside>> /\ Stmt(Rtcc, from) /\ Goto(Rtcc, to)
    BY <1>7, CallsCalled
  <2>2. from \in Statements /\ to \in Statements /\ from # "enter"
    BY <1>1, <1>7 DEF Statements
  <2>3. Holding'
    BY <1>7, <2>1 DEF Local, kernelVars, Holding, Stmt, User
  <2> QED BY <1>2, <1>7, <2>1, <2>2, <2>3
<1>8. CASE incSecond(Rtcc)
  BY <1>1, <1>7, <1>8 DEF incSecond
<1>9. CASE alarmDone(Rtcc)
  BY <1>1, <1>7, <1>9 DEF alarmDone
<1> QED
  BY <1>1, <1>3, <1>4, <1>5, <1>6, <1>8, <1>9 DEF rtcc_task, rest, Statements

\* What a step of Prompt does with the numbers that are typed.
Typing == {"typing", "typed", "entered"}

LEMMA PromptSteps ==
  ASSUME Control, prompt_task(Prompt)
  PROVE  /\ User(Prompt)
         /\ task' \in [Threads -> Tasks] /\ OnlyThread(Prompt) /\ Owned'
         /\ Placed(Prompt)'
         /\ (task'[Prompt].at \in Typing => task'[Prompt] \in EntryTasks)
         /\ \/ number(Prompt) \/ entered(Prompt)
            \/ rtcc_enterTime(Prompt) \/ rtcc_enterAlarm(Prompt)
            \/ /\ UNCHANGED <<_clock, _alarm>>
               /\ _func' # _func => Stmt(Prompt, "command")
               /\ task[Prompt].at \in Typing =>
                    /\ task[Prompt].at = "typing" /\ task'[Prompt].at = "typed"
                    /\ task'[Prompt].dest = task[Prompt].dest
<1>1. /\ task \in [Threads -> Tasks] /\ Owned /\ Prompt \in Threads
      /\ task[Prompt].at \in Typing => task[Prompt] \in EntryTasks
      /\ Points(Prompt) = {"time", "alarm", "typing", "typed", "entered", "printing", "printingTime"}
      /\ Entries(Prompt) = {"time", "alarm", "printing", "printingTime"}
  BY Actors DEF Control, Typing
<1>2. ASSUME NEW from, NEW to,
             Called(Prompt), UNCHANGED <<busy, inside>>, Stmt(Prompt, from), Moves(Prompt, to),
             from # "enter", to \in Points(Prompt) => from \in Points(Prompt)
      PROVE  /\ User(Prompt) /\ task' \in [Threads -> Tasks] /\ OnlyThread(Prompt) /\ Owned'
             /\ Placed(Prompt)'
  <2>1. Owned'
    BY <1>1, <1>2 DEF Owned, OwnerInside
  <2> QED BY <1>2, <2>1, CalledPlaced DEF Moves, Stmt
<1>3. CASE Enter(Prompt, "enter", "on") /\ UNCHANGED shared
  <2>1. Moves(Prompt, "on")
    BY <1>1, <1>3, GotoMoves DEF Enter, Statements
  <2>2. Owned'
    BY <1>1, <1>3 DEF Owned, OwnerInside, Enter, driverOnly, aboveKernel
  <2> QED BY <1>1, <1>3, <2>1, <2>2, EnterPlaced DEF Moves, Enter, Stmt, Typing, shared
<1>4. ASSUME NEW from \in Statements, NEW to \in Entries(Prompt),
             EnterMutex(Prompt, _mutex, from, to), UNCHANGED shared, from # "enter"
      PROVE  /\ User(Prompt)
             /\ task' \in [Threads -> Tasks] /\ OnlyThread(Prompt) /\ Owned'
             /\ Placed(Prompt)' /\ task'[Prompt].at \notin Typing
  <2>1. Moves(Prompt, to)
    BY <1>1, <1>4, GotoMoves DEF EnterMutex, Statements
  <2>2. Owned'
    <3>1. CASE mutex_enter_free(Prompt, _mutex, "mutex_enter")
      BY <1>1, <3>1, TakeOwned DEF mutex_enter_free
    <3>2. CASE mutex_enter_wait(Prompt, _mutex, "mutex_enter")
      BY <1>1, <3>2 DEF mutex_enter_wait, Owned, OwnerInside
    <3> QED BY <1>4, <3>1, <3>2 DEF EnterMutex
  <2>3. OnlyThread(Prompt) /\ Placed(Prompt)'
    BY <1>4, <2>1, EnterMutexPlaced
  <2> QED BY <1>1, <1>4, <2>1, <2>2, <2>3 DEF Moves, EnterMutex, Stmt, Typing
<1>5. ASSUME NEW from \in Points(Prompt), NEW to \in Statements,
             Stmt(Prompt, from), mutex_exit(Prompt, _mutex), Moves(Prompt, to),
             to \notin Points(Prompt)
      PROVE  /\ User(Prompt)
             /\ task' \in [Threads -> Tasks] /\ OnlyThread(Prompt) /\ Owned'
             /\ Placed(Prompt)' /\ task'[Prompt].at \notin Typing
  <2>1. _mutex \in inside[Prompt] /\ from # "enter"
    BY <1>1, <1>5, InMutex
  <2>2. Owned'
    BY <1>1, <1>5, <2>1, ReleaseOwned DEF mutex_exit
  <2> QED BY <1>1, <1>5, <2>1, <2>2, ExitPlaced DEF Moves, Stmt, Typing
<1>6. ASSUME NEW from \in Statements, NEW to \in Statements,
             \/ \E e : WaitEvent(Prompt, e, from, to)
             \/ TimerOn(Prompt, timer0, from, to) \/ TimerOff(Prompt, timer0, from, to)
             \/ Sleep(Prompt, timer_delay(Prompt, timer0, 1), from, to)
             \/ Local(Prompt, from, to),
             from # "enter", to \in Points(Prompt) => from \in Points(Prompt),
             from \in Typing \/ to \in Typing => from = "typing" /\ to = "typed"
      PROVE  /\ User(Prompt)
             /\ task' \in [Threads -> Tasks] /\ OnlyThread(Prompt) /\ Owned'
             /\ Placed(Prompt)'
             /\ (task'[Prompt].at \in Typing => task'[Prompt] \in EntryTasks)
             /\ task[Prompt].at \in Typing =>
                  /\ task[Prompt].at = "typing" /\ task'[Prompt].at = "typed"
                  /\ task'[Prompt].dest = task[Prompt].dest
  <2>1. /\ Called(Prompt) /\ UNCHANGED <<busy, inside>>
        /\ Stmt(Prompt, from) /\ Goto(Prompt, to)
    BY <1>6, CallsCalled
  <2>2. Moves(Prompt, to)
    BY <1>1, <1>6, <2>1, GotoMoves
  <2>3. to \in Typing => task'[Prompt] \in EntryTasks /\ task'[Prompt].dest = task[Prompt].dest
    BY <1>1, <1>6, <2>1, GotoEntry DEF Stmt, Typing
  <2> QED BY <1>2, <1>6, <2>1, <2>2, <2>3 DEF Moves, Stmt, Typing
<1>7. ASSUME NEW from \in Points(Prompt), Stmt(Prompt, from),
             UNCHANGED <<kernelVars, driverOnly>>, NEW to \in Typing, Moves(Prompt, to),
             task'[Prompt] \in EntryTasks
      PROVE  /\ User(Prompt)
             /\ task' \in [Threads -> Tasks] /\ OnlyThread(Prompt) /\ Owned'
             /\ Placed(Prompt)'
             /\ (task'[Prompt].at \in Typing => task'[Prompt] \in EntryTasks)
  <2>1. Called(Prompt) /\ UNCHANGED <<busy, inside>> /\ from # "enter"
    BY <1>1, <1>7 DEF Called, kernelVars, driverOnly, aboveKernel
  <2> QED BY <1>1, <1>2, <1>7, <2>1
<1>8. CASE rtcc_enterTime(Prompt) \/ rtcc_enterAlarm(Prompt)
  BY <1>1, <1>7, <1>8, EntryMoves DEF rtcc_enterTime, rtcc_enterAlarm, Typing
<1>9. CASE number(Prompt)
  <2>1. /\ Stmt(Prompt, "typed") /\ UNCHANGED <<kernelVars, driverOnly>>
        /\ task[Prompt] \in EntryTasks /\ task[Prompt].dest \in {"time", "alarm"}
    BY <1>1, <1>9 DEF number, Stmt, Typing, EntryTasks
  <2>2. \/ /\ task[Prompt].n < 6
           /\ task' = [task EXCEPT ![Prompt] =
                         [task[Prompt] EXCEPT !.at = "typing", !.n = task[Prompt].n + 1]]
        \/ Goto(Prompt, "entered") \/ Goto(Prompt, "typing")
        \/ startEntry(Prompt, task[Prompt].dest)
    BY <1>9, Zenon DEF number
  <2>3. \E to \in Typing : Moves(Prompt, to) /\ task'[Prompt] \in EntryTasks
    <3>1. "entered" \in Statements /\ "typing" \in Statements
      BY DEF Statements
    <3>2. CASE Goto(Prompt, "entered")
      BY <1>1, <2>1, <3>1, <3>2, GotoEntry DEF Typing
    <3>3. CASE Goto(Prompt, "typing")
      BY <1>1, <2>1, <3>1, <3>3, GotoEntry DEF Typing
    <3>4. CASE startEntry(Prompt, task[Prompt].dest)
      BY <1>1, <2>1, <3>4, EntryMoves DEF Typing
    <3>5. CASE /\ task[Prompt].n < 6
               /\ task' = [task EXCEPT ![Prompt] =
                             [task[Prompt] EXCEPT !.at = "typing", !.n = task[Prompt].n + 1]]
      <4>1. Moves(Prompt, "typing") /\ task'[Prompt] \in EntryTasks
        BY <1>1, <2>1, <3>5, NextEntry, Zenon
      <4> QED BY <4>1 DEF Typing
    <3> QED BY <2>2, <3>2, <3>3, <3>4, <3>5
  <2> QED BY <1>1, <1>7, <1>9, <2>1, <2>3
<1>10. CASE entered(Prompt)
  <2>1. Moves(Prompt, "printTime") \/ Moves(Prompt, "prompt")
    BY <1>1, <1>10, GotoMoves, At0Moves DEF entered, Statements
  <2>2. Stmt(Prompt, "entered") /\ mutex_exit(Prompt, _mutex)
    BY <1>10 DEF entered
  <2> QED BY <1>1, <1>5, <1>10, <2>1, <2>2 DEF Statements
<1>11. CASE rtcc_start(Prompt)
  <2>1. Moves(Prompt, "prompt")
    BY <1>1, <1>11, At0Moves DEF rtcc_start, Statements
  <2>2. Called(Prompt)
    <3>1. At("yield").at = "yield"
      BY DEF At
    <3> QED
      BY <1>11, <3>1
         DEF rtcc_start, event_notify, ResumeFromPriorList, ResumeAndReturn, Return, Leave, Called
  <2>3. Stmt(Prompt, "start") /\ UNCHANGED <<busy, inside, _func, _clock, _alarm>>
    BY <1>11 DEF rtcc_start, driverOnly, aboveKernel
  <2> QED BY <1>1, <1>2, <2>1, <2>2, <2>3 DEF Moves, Stmt, Typing
<1>12. CASE rtcc_stop(Prompt) \/ rtcc_alarmOff(Prompt)
  <2>1. /\ Local(Prompt, "command", "prompt") /\ UNCHANGED <<_clock, _alarm>>
        /\ Stmt(Prompt, "command")
    BY <1>12 DEF rtcc_stop, rtcc_alarmOff, Local
  <2> QED BY <1>1, <1>6, <2>1 DEF Statements, Typing
<1>13. CASE /\ UNCHANGED shared
            /\ \/ TimerOn(Prompt, timer0, "on", "delay")
               \/ Sleep(Prompt, timer_delay(Prompt, timer0, 1), "delay", "off")
               \/ TimerOff(Prompt, timer0, "off", "prompt")
               \/ Reads(Prompt, Line, "prompt", "command")
               \/ Reads(Prompt, Line, "typing", "typed")
               \/ WaitEvent(Prompt, Room, "printing", "printing")
               \/ WaitEvent(Prompt, Room, "printingTime", "printingTime")
  BY <1>1, <1>6, <1>13 DEF Statements, Typing, Reads, shared
<1>14. CASE /\ UNCHANGED shared
            /\ \/ EnterMutex(Prompt, _mutex, "command", "time")
               \/ EnterMutex(Prompt, _mutex, "command", "alarm")
               \/ EnterMutex(Prompt, _mutex, "command", "printing")
               \/ EnterMutex(Prompt, _mutex, "printTime", "printingTime")
  BY <1>1, <1>4, <1>14 DEF Statements, shared, EnterMutex, Stmt, Typing
<1>15. CASE /\ UNCHANGED shared
            /\ \/ ExitMutex(Prompt, "printing", "prompt")
               \/ ExitMutex(Prompt, "printingTime", "start")
  <2>1. \E from \in {"printing", "printingTime"}, to \in {"prompt", "start"} :
          Stmt(Prompt, from) /\ mutex_exit(Prompt, _mutex) /\ Goto(Prompt, to)
    BY <1>15 DEF ExitMutex
  <2>2. \E to \in {"prompt", "start"} : Moves(Prompt, to)
    BY <1>1, <2>1, GotoMoves DEF Statements
  <2> QED BY <1>1, <1>5, <1>15, <2>1, <2>2 DEF Statements, shared, Stmt, Typing
<1> QED
  BY <1>3, <1>8, <1>9, <1>10, <1>11, <1>12, <1>13, <1>14, <1>15
     DEF prompt_task, printing

LEMMA SystemSteps ==
  ASSUME Control,
         \/ KernelSteps({})
         \/ \E t \in Threads :
              Tick(t, timer0) \/ Interrupt(t, Line) \/ Interrupt(t, Room)
  PROVE  UNCHANGED task /\ Owned' /\ Placed(Rtcc)' /\ Placed(Prompt)' /\ Holding'
<1>1. /\ Mask /\ Owned /\ Rtcc \in Threads /\ Prompt \in Threads /\ Rtcc # Background
      /\ Placed(Rtcc) /\ Placed(Prompt) /\ Holding
  BY Actors DEF Control
<1>2. CASE /\ UNCHANGED <<critical, pc, busy, inside, task>>
           /\ \E t \in Threads : InterruptsEnabled(t)
  <2>1. task[Rtcc].at \notin {"call", "leave"}
    BY <1>1, <1>2 DEF Holding, InterruptsEnabled, Placed, Mask, Masked
  <2> QED
    BY <1>1, <1>2, <2>1, SamePlaced DEF Owned, OwnerInside, Holding
<1>3. CASE boot /\ UNCHANGED task
  <2>1. task[Rtcc].at \notin {"call", "leave"}
    BY <1>1, <1>3
       DEF Holding, boot, scheduler_add, scheduler_run, scheduler_run_return
  <2>2. UNCHANGED <<busy, inside>>
    BY <1>3 DEF boot, aboveKernel
  <2> QED BY <1>1, <1>3, <2>1, <2>2, BootPlaced DEF Owned, OwnerInside, Holding
<1>4. ASSUME NEW t \in Threads, Returns(t), UNCHANGED task
      PROVE  UNCHANGED task /\ Owned' /\ Placed(Rtcc)' /\ Placed(Prompt)' /\ Holding'
  <2>1. k.running = t /\ pc[t].at # "user"
    BY <1>4
       DEF Returns, checkIRQ, yield_return, event_wait_return, timer_return, mutex_enter_retry,
           EnterLabels, TimerLabels
  <2>2. task[Rtcc].at \notin {"call", "leave"}
    BY <1>1, <2>1 DEF Holding
  <2>3. CASE UNCHANGED <<busy, inside>>
    BY <1>1, <1>4, <2>2, <2>3, ReturnsPlaced DEF Owned, OwnerInside, Holding
  <2>4. CASE mutex_enter_retry(t)
    <3>1. CASE Take(t, pc[t].on) /\ busy[pc[t].on] = NULL
      BY <1>1, <1>4, <2>2, <3>1, ReturnsPlaced, TakeOwned DEF Holding
    <3> QED BY <2>3, <2>4, <3>1 DEF mutex_enter_retry
  <2> QED BY <1>4, <2>3, <2>4 DEF Returns, aboveKernel, timeOnly
<1>5. ASSUME NEW t \in Threads PROVE ~ checkIRQ(t, {})
  BY DEF checkIRQ
<1>6. ASSUME NEW t \in Threads, Tick(t, timer0) \/ Interrupt(t, Line) \/ Interrupt(t, Room)
      PROVE  /\ UNCHANGED <<critical, pc, busy, inside, task>>
             /\ InterruptsEnabled(t)
  BY <1>6
     DEF Tick, timer_isr, timer_tick, timeOnly, Interrupt, event_notifyISR,
         ResumeFromPriorListISR, driverOnly, aboveKernel
<1> QED BY <1>2, <1>3, <1>4, <1>5, <1>6 DEF KernelSteps

LEMMA ControlNext == Control /\ [RtccNext]_rtccVars => Control'
<1> SUFFICES ASSUME Control, [RtccNext]_rtccVars PROVE Control'
  OBVIOUS
<1>1. Mask'
  BY RtccMask DEF Control
<1>2. CASE \/ KernelSteps({})
           \/ \E t \in Threads :
                Tick(t, timer0) \/ Interrupt(t, Line) \/ Interrupt(t, Room)
  BY <1>1, <1>2, SystemSteps DEF Control
<1>3. CASE rtcc_task(Rtcc)
  <2>1. /\ task' \in [Threads -> Tasks] /\ OnlyThread(Rtcc) /\ Owned'
        /\ Placed(Rtcc)' /\ Holding'
    BY <1>3, RtccSteps
  <2>2. Placed(Prompt)' /\ task'[Prompt] = task[Prompt]
    BY <2>1, Actors, SamePlaced DEF Control, OnlyThread
  <2> QED BY <1>1, <2>1, <2>2 DEF Control
<1>4. CASE prompt_task(Prompt)
  <2>1. /\ task' \in [Threads -> Tasks] /\ OnlyThread(Prompt) /\ Owned' /\ User(Prompt)
        /\ Placed(Prompt)'
        /\ (task'[Prompt].at \in Typing => task'[Prompt] \in EntryTasks)
    BY <1>4, PromptSteps
  <2>2. Placed(Rtcc)' /\ task'[Rtcc] = task[Rtcc]
    BY <2>1, Actors, SamePlaced DEF Control, OnlyThread
  <2>3. Holding'
    BY <2>1, <2>2, Actors DEF Control, Holding, User
  <2> QED BY <1>1, <2>1, <2>2, <2>3 DEF Control, Typing
<1>5. CASE UNCHANGED rtccVars
  <2>1. UNCHANGED <<k, critical, pc, busy, inside, task>>
    BY <1>5 DEF rtccVars, programVars, driverVars, mutexVars
  <2> QED BY <1>1, <2>1, SamePlaced DEF Control, Owned, OwnerInside, Holding
<1> QED BY <1>2, <1>3, <1>4, <1>5 DEF RtccNext

LEMMA ControlInit == RtccInit => Control
<1> SUFFICES ASSUME RtccInit PROVE Control
  OBVIOUS
<1>1. Mask /\ Owned
  BY InitMask, InitOwned DEF RtccInit, DriverInit, MutexInit, TimerInit
<1>2. task = [t \in Threads |-> At0(IF t \in {Rtcc, Prompt} THEN "enter" ELSE "none")]
  BY DEF RtccInit
<1>3. /\ At0("enter") \in Tasks /\ At0("none") \in Tasks
      /\ At0("enter").at = "enter"
  BY DEF At0, Tasks, Statements
<1>4. task \in [Threads -> Tasks] /\ task[Rtcc].at = "enter" /\ task[Prompt].at = "enter"
  BY <1>2, <1>3, Actors
<1>5. pc[Rtcc].at # "mutex_enter" /\ pc[Prompt].at # "mutex_enter"
  BY Actors DEF RtccInit, DriverInit, MutexInit, TimerInit, KernelInit, At
<1> QED BY <1>1, <1>4, <1>5, Actors DEF Control, Placed, Holding

-----------------------------------------------------------------------------
(* The clock and the alarm *)

\* A date-time is half typed.
Half(dest) == task[Prompt].at \in {"typing", "typed"} /\ task[Prompt].dest = dest

Stamps ==
  /\ _clock \in [time : Unchecked, weekDay : Int, season : {0, WINTER, SUMMER}]
  /\ _alarm \in Unchecked
  /\ ~ Half("time") => _clock.time \in DateTimes /\ InMonth(_clock.time)
  /\ ~ Half("alarm") => _alarm \in DateTimes /\ InMonth(_alarm)

\* The alarm at each statement of its section.
AlarmAt ==
  /\ task[Rtcc].at = "call" => _func # NULL /\ ~ Before(_clock.time, _alarm)
  /\ task[Rtcc].at = "called" => ~ Before(_clock.time, _alarm)
  /\ task[Rtcc].at = "leave" => _func = NULL \/ Before(_clock.time, _alarm)

RtccInv == Control /\ Stamps /\ AlarmAt

LEMMA BeforeIsSooner ==
  ASSUME NEW a, NEW b
  PROVE  Before(a, b) <=> Sooner(a, b)
BY DEF Before, Sooner, days, secs, Day, Second, dateTime_getYear

LEMMA Ranged ==
  ASSUME NEW dt \in DateTimes
  PROVE  dt \in Unchecked
BY DEF DateTimes, Unchecked

LEMMA ClocksTime ==
  ASSUME NEW c \in [time : Unchecked, weekDay : Int, season : {0, WINTER, SUMMER}]
  PROVE  c.time \in DateTimes <=> c \in Clocks
BY Ranged DEF Clocks

LEMMA ClockOf ==
  ASSUME NEW dt \in DateTimes
  PROVE  clockOf(dt) \in Clocks /\ clockOf(dt).time = dt
<1>1. /\ dt.century \in Int /\ dt.year \in Int /\ dt.month \in 1 .. 12 /\ dt.day \in Int
  BY InRange DEF Numbers
<1>2. dateTime_getYear(dt) \in Int
  BY <1>1 DEF dateTime_getYear
<1>3. \A m \in 1 .. 12 : daysBefore[m] \in Int
  BY DEF daysBefore
<1>4. ASSUME NEW y \in Int, NEW b \in Int, NEW l \in Int, NEW d \in Int
      PROVE  1 + ((365 * y + (y \div 4) - (y \div 100) + (y \div 400) + b + l + d + 4) % 7) \in Int
  OBVIOUS
<1>5. dateTime_calcWeekDay(dt) \in Int
  <2> DEFINE y == dateTime_getYear(dt)
             l == IF dt.month > 2 /\ dateTime_isLeapYear(dt) THEN 1 ELSE 0
  <2>1. l \in Int /\ y \in Int /\ daysBefore[dt.month] \in Int
    BY <1>1, <1>2, <1>3
  <2>2. dateTime_calcWeekDay(dt) =
          1 + ((365 * y + (y \div 4) - (y \div 100) + (y \div 400)
                  + daysBefore[dt.month] + l + dt.day + 4) % 7)
    BY DEF dateTime_calcWeekDay
  <2> HIDE DEF y, l
  <2> QED BY <1>1, <1>4, <2>1, <2>2
<1>6. dateTime_calcSeason(dt, dateTime_calcWeekDay(dt)) \in {0, WINTER, SUMMER}
  BY <1>5, SomeSeason
<1> QED BY <1>5, <1>6 DEF clockOf, Clocks

\* A number that was typed, right or wrong.
LEMMA Stored ==
  ASSUME NEW dt \in Unchecked, NEW goal \in Typed, NEW n \in 1 .. 6
  PROVE  /\ store(dt, Asked[n], goal) \in Unchecked
         /\ Asked[n] \in Missed => [dt EXCEPT ![Asked[n]] = outOfRange[Asked[n]]] \in Unchecked
<1>1. /\ goal.year \in Int /\ goal.century \in Int
      /\ goal.month \in Nat /\ goal.day \in Nat
      /\ goal.hour \in Nat /\ goal.minute \in Nat /\ goal.second \in Nat
  BY RtccAssumption
<1>2. Asked[n] \in {"year", "month", "day", "hour", "minute", "second"}
  BY DEF Asked
<1>3. store(dt, "year", goal) \in Unchecked
  <2>1. dateTime_getYear(goal) \in Int
    BY <1>1 DEF dateTime_getYear
  <2>2. ASSUME NEW y \in Int
        PROVE  y % 100 \in 0 .. 99 /\ 1 + (y \div 100) \in Int
    OBVIOUS
  <2>3. ASSUME NEW u \in 0 .. 99, NEW v \in Int
        PROVE  [dt EXCEPT !.year = u, !.century = v] \in Unchecked
    BY <2>3 DEF Unchecked
  <2> DEFINE y == dateTime_getYear(goal)
             u == y % 100
             v == 1 + (y \div 100)
  <2>4. u \in 0 .. 99 /\ v \in Int
    BY <2>1, <2>2
  <2>5. store(dt, "year", goal) = [dt EXCEPT !.year = u, !.century = v]
    BY Zenon DEF store, dateTime_setYear
  <2> HIDE DEF u, v
  <2> QED BY <2>3, <2>4, <2>5, Zenon
<1>4. ASSUME NEW u \in Nat
      PROVE  /\ [dt EXCEPT !["month"] = u] \in Unchecked
             /\ [dt EXCEPT !["day"] = u] \in Unchecked
             /\ [dt EXCEPT !["hour"] = u] \in Unchecked
             /\ [dt EXCEPT !["minute"] = u] \in Unchecked
             /\ [dt EXCEPT !["second"] = u] \in Unchecked
  BY <1>4 DEF Unchecked
<1>5. /\ store(dt, "month", goal) \in Unchecked /\ store(dt, "day", goal) \in Unchecked
      /\ store(dt, "hour", goal) \in Unchecked /\ store(dt, "minute", goal) \in Unchecked
      /\ store(dt, "second", goal) \in Unchecked
  <2>1. /\ store(dt, "month", goal) = [dt EXCEPT !["month"] = goal["month"]]
        /\ store(dt, "day", goal) = [dt EXCEPT !["day"] = goal["day"]]
        /\ store(dt, "hour", goal) = [dt EXCEPT !["hour"] = goal["hour"]]
        /\ store(dt, "minute", goal) = [dt EXCEPT !["minute"] = goal["minute"]]
        /\ store(dt, "second", goal) = [dt EXCEPT !["second"] = goal["second"]]
    BY DEF store
  <2> QED BY <1>1, <1>4, <2>1
<1>6. /\ [dt EXCEPT !["month"] = outOfRange["month"]] \in Unchecked
      /\ [dt EXCEPT !["hour"] = outOfRange["hour"]] \in Unchecked
      /\ [dt EXCEPT !["minute"] = outOfRange["minute"]] \in Unchecked
      /\ [dt EXCEPT !["second"] = outOfRange["second"]] \in Unchecked
  <2>1. /\ outOfRange["month"] \in Nat /\ outOfRange["hour"] \in Nat
        /\ outOfRange["minute"] \in Nat /\ outOfRange["second"] \in Nat
    BY DEF outOfRange
  <2> QED BY <1>4, <2>1
<1>7. Missed \subseteq {"month", "hour", "minute", "second"}
  BY RtccAssumption
<1> QED BY <1>2, <1>3, <1>5, <1>6, <1>7

-----------------------------------------------------------------------------
(* The steps of the clock and of the prompt on what they share *)

\* The actions of the properties.
GoesOn ==
  Stmt(Rtcc, "inc") /\ _clock' # _clock =>
    \/ Before(_clock.time, _clock'.time)
    \/ /\ _clock.season # WINTER /\ _clock'.season = WINTER
       /\ _clock.time.minute = 59 /\ _clock'.time.minute = 0
Kept ==
  _func # NULL /\ _func' = NULL =>
    \/ Stmt(Prompt, "command")
    \/ task[Rtcc].at = "called" /\ ~ Before(_clock.time, _alarm)

\* The prompt does not type while the clock is at its statements in the mutex.
LEMMA Exclusive ==
  ASSUME Control,
         Stmt(Rtcc, "inc") \/ task[Rtcc].at \in {"call", "called", "leave"}
  PROVE  task[Prompt].at \notin {"typing", "typed", "entered"} /\ ~ Stmt(Prompt, "alarm")
<1>1. _mutex \in inside[Rtcc]
  BY Actors DEF Control, Placed, Stmt, User
<1>2. ASSUME task[Prompt].at \in {"typing", "typed", "entered"} \/ Stmt(Prompt, "alarm")
      PROVE  _mutex \in inside[Prompt]
  BY <1>2, Actors DEF Control, Placed, Stmt, User
<1>3. /\ _mutex \in Mutexes
      /\ \A t \in Threads : _mutex \in inside[t] <=> busy[_mutex] = t
  BY RtccAssumption DEF Control, Owned, OwnerInside
<1> QED BY <1>1, <1>2, <1>3, Actors

LEMMA RtccInvInit == RtccInit => RtccInv
<1> SUFFICES ASSUME RtccInit PROVE RtccInv
  OBVIOUS
<1>1. Control
  BY ControlInit
<1>2. dateTime_init \in DateTimes /\ InMonth(dateTime_init)
  BY DEF dateTime_init, DateTimes, InMonth, dateTime_daysInMonth, _daysInMonth
<1>3. clockOf(dateTime_init) \in Clocks /\ clockOf(dateTime_init).time = dateTime_init
  BY <1>2, ClockOf
<1>4. Stamps
  <2>1. dateTime_init \in Unchecked
    BY <1>2, Ranged
  <2>2. /\ _clock \in Clocks /\ _clock.time \in DateTimes /\ _alarm = dateTime_init
        /\ InMonth(_clock.time)
    BY <1>2, <1>3 DEF RtccInit
  <2>3. _clock \in [time : Unchecked, weekDay : Int, season : {0, WINTER, SUMMER}]
    BY <2>2, Ranged DEF Clocks
  <2> QED BY <1>2, <2>1, <2>2, <2>3 DEF Stamps
<1>5. AlarmAt
  <2>1. task[Rtcc] = At0("enter")
    BY Actors DEF RtccInit
  <2> QED BY <2>1 DEF AlarmAt, At0
<1> QED BY <1>1, <1>4, <1>5 DEF RtccInv

\* The clock and the alarm are as they were, and so is where they are typed.
LEMMA SameStamps ==
  ASSUME Stamps, UNCHANGED <<_clock, _alarm>>,
         \A dest \in {"time", "alarm"} : Half(dest) => Half(dest)'
  PROVE  Stamps'
BY DEF Stamps

LEMMA ClockStep ==
  ASSUME RtccInv, rtcc_task(Rtcc)
  PROVE  Stamps' /\ AlarmAt' /\ GoesOn /\ Kept
<1>1. /\ Control /\ Stamps /\ AlarmAt /\ task \in [Threads -> Tasks] /\ Rtcc \in Threads
      /\ task'[Prompt] = task[Prompt]
  BY RtccSteps, Actors DEF RtccInv, Control, OnlyThread
<1>2. \A dest \in {"time", "alarm"} : Half(dest) => Half(dest)'
  BY <1>1 DEF Half
<1>3. CASE /\ UNCHANGED shared /\ task'[Rtcc].at \notin {"call", "leave"}
           /\ task'[Rtcc].at = "called" => Stmt(Rtcc, "call")
  <2>1. Stamps'
    BY <1>1, <1>2, <1>3, SameStamps DEF shared
  <2>2. AlarmAt'
    BY <1>1, <1>3 DEF AlarmAt, shared, Stmt, Before
  <2> QED BY <1>3, <2>1, <2>2 DEF shared, GoesOn, Kept
<1>4. CASE alarmDone(Rtcc)
  <2>1. /\ Stmt(Rtcc, "called") /\ Goto(Rtcc, "leave") /\ _func' = NULL
        /\ UNCHANGED <<_clock, _alarm>>
    BY <1>4 DEF alarmDone, Local
  <2>2. task'[Rtcc].at = "leave"
    BY <1>1, <2>1, GotoMoves DEF Moves, Statements
  <2>3. Stamps'
    BY <1>1, <1>2, <2>1, SameStamps
  <2>4. AlarmAt'
    BY <2>1, <2>2 DEF AlarmAt
  <2>5. Kept
    BY <1>1, <2>1 DEF Kept, AlarmAt, Stmt
  <2> QED BY <2>1, <2>3, <2>4, <2>5 DEF GoesOn
<1>5. CASE incSecond(Rtcc)
  <2>1. /\ Stmt(Rtcc, "inc") /\ _clock' = _incSecond(_clock)
        /\ UNCHANGED <<_func, _alarm>>
        /\ Goto(Rtcc, IF due_alarm(_clock') THEN "call" ELSE "leave")
    BY <1>5 DEF incSecond, Local
  <2>2. /\ ~ Half("time") /\ ~ Half("alarm")
    BY <1>1, <2>1, Exclusive DEF Half
  <2>3. _clock \in Clocks /\ _alarm \in DateTimes /\ InMonth(_clock.time) /\ InMonth(_alarm)
    BY <1>1, <2>2, ClocksTime DEF Stamps
  <2>4. /\ _clock' \in Clocks
        /\ \/ Sooner(_clock.time, _clock'.time)
           \/ /\ _clock.season # WINTER /\ _clock'.season = WINTER
              /\ _clock.time.minute = 59 /\ _clock'.time.minute = 0
    BY <2>1, <2>3, SecondLater, Zenon
  <2>5. _clock'.time \in DateTimes
    BY <2>4 DEF Clocks
  <2>6. GoesOn
    BY <2>4, BeforeIsSooner DEF GoesOn
  <2>7. Stamps'
    <3>1. _clock' \in [time : Unchecked, weekDay : Int, season : {0, WINTER, SUMMER}]
      BY <2>4, Ranged DEF Clocks
    <3>2. _alarm' \in DateTimes /\ _alarm' \in Unchecked /\ InMonth(_alarm')
      BY <2>1, <2>3, Ranged
    <3>3. InMonth(_clock'.time)
      BY <2>1, <2>3, SecondInMonth, Zenon
    <3> QED BY <2>5, <3>1, <3>2, <3>3 DEF Stamps, InMonth, dateTime_daysInMonth,
      dateTime_isLeapYear, dateTime_getYear
  <2>8. due_alarm(_clock') <=> _func # NULL /\ ~ Before(_clock'.time, _alarm)
    BY <2>3, <2>5, LaterIsNotSooner, BeforeIsSooner DEF due_alarm
  <2>9. AlarmAt'
    <3>1. \/ due_alarm(_clock') /\ task'[Rtcc].at = "call"
          \/ ~ due_alarm(_clock') /\ task'[Rtcc].at = "leave"
      BY <1>1, <2>1, GotoMoves DEF Moves, Statements
    <3> QED BY <2>1, <2>8, <3>1 DEF AlarmAt
  <2> QED BY <2>1, <2>6, <2>7, <2>9 DEF Kept
<1> QED BY <1>3, <1>4, <1>5, RtccSteps DEF RtccInv

\* A number, right or wrong, leaves a date-time half typed, or one that is in the ranges.
LEMMA NumberStep ==
  ASSUME Control, Stamps, number(Prompt)
  PROVE  Stamps' /\ _func' = _func
<1> DEFINE j  == task[Prompt]
           dt == IF j.dest = "time" THEN _clock.time ELSE _alarm
           f  == Asked[j.n]
           dt2 == store(dt, f, j.goal)
           dt3 == [dt EXCEPT ![f] = outOfRange[f]]
           halfTyped == task'[Prompt].at \in {"typing", "typed"} /\ task'[Prompt].dest = j.dest
<1>1. /\ j \in EntryTasks /\ j.n \in 1 .. 6 /\ j.goal \in Typed /\ j.dest \in {"time", "alarm"}
      /\ Prompt \in Threads /\ task \in [Threads -> Tasks] /\ j.at = "typed"
      /\ "typing" \in Statements
  BY Actors DEF Control, number, Stmt, EntryTasks, Statements
<1>2. /\ \/ /\ Entering(dt2)
            /\ \/ /\ j.n < 6
                  /\ task' = [task EXCEPT ![Prompt] =
                                [task[Prompt] EXCEPT !.at = "typing", !.n = task[Prompt].n + 1]]
               \/ Goto(Prompt, "entered") /\ dateTime_checkRanges(dt2)
               \/ startEntry(Prompt, j.dest)
         \/ Entering(dt3) /\ f \in Missed /\ Goto(Prompt, "typing")
      /\ _func' = _func
  BY Zenon DEF number
<1>3. dt \in Unchecked
  BY <1>1 DEF Stamps
<1>4. dt2 \in Unchecked /\ (f \in Missed => dt3 \in Unchecked)
  BY <1>1, <1>3, Stored
<1>5. \E x \in Unchecked : Entering(x) /\ (halfTyped \/ (x \in DateTimes /\ InMonth(x)))
  <2>1. CASE Entering(dt3) /\ f \in Missed /\ Goto(Prompt, "typing")
    <3>1. halfTyped
      <4>1. Moves(Prompt, "typing") /\ task'[Prompt].dest = j.dest
        BY <1>1, <2>1, GotoEntry
      <4> QED BY <4>1 DEF Half, Moves
    <3> QED BY <1>4, <2>1, <3>1
  <2>2. CASE /\ Entering(dt2) /\ j.n < 6
             /\ task' = [task EXCEPT ![Prompt] =
                           [task[Prompt] EXCEPT !.at = "typing", !.n = task[Prompt].n + 1]]
    <3>1. Moves(Prompt, "typing") /\ task'[Prompt].dest = j.dest
      BY <1>1, <2>2, NextEntry, Zenon
    <3>2. halfTyped
      BY <3>1 DEF Half, Moves
    <3> QED BY <1>4, <2>2, <3>2
  <2>3. CASE Entering(dt2) /\ Goto(Prompt, "entered") /\ dateTime_checkRanges(dt2)
    <3>1. InMonth(dt2)
      BY <2>3 DEF dateTime_checkRanges, InMonth
    <3> QED BY <1>4, <2>3, <3>1, CheckedInRange
  <2>4. CASE Entering(dt2) /\ startEntry(Prompt, j.dest)
    <3>1. Moves(Prompt, "typing") /\ task'[Prompt].dest = j.dest
      BY <1>1, <2>4, EntryMoves
    <3>2. halfTyped
      BY <3>1 DEF Half, Moves
    <3> QED BY <1>4, <2>4, <3>2
  <2> QED BY <1>2, <2>1, <2>2, <2>3, <2>4
<1>6. PICK x \in Unchecked : Entering(x) /\ (halfTyped \/ (x \in DateTimes /\ InMonth(x)))
  BY <1>5
<1>7. CASE j.dest = "time"
  <2>1. _clock' = [_clock EXCEPT !.time = x] /\ _alarm' = _alarm
    BY <1>6, <1>7 DEF Entering
  <2>2. /\ _clock' \in [time : Unchecked, weekDay : Int, season : {0, WINTER, SUMMER}]
        /\ _clock'.time = x
    BY <2>1 DEF Stamps
  <2>3. _alarm \in DateTimes /\ _alarm \in Unchecked /\ InMonth(_alarm)
    BY <1>7 DEF Stamps, Half
  <2> QED BY <1>2, <1>6, <1>7, <2>1, <2>2, <2>3 DEF Stamps, Half
<1>8. CASE j.dest = "alarm"
  <2>1. _alarm' = x /\ _clock' = _clock
    BY <1>6, <1>8 DEF Entering
  <2>2. _clock.time \in DateTimes /\ InMonth(_clock.time)
    BY <1>8 DEF Stamps, Half
  <2> QED BY <1>2, <1>6, <1>8, <2>1, <2>2 DEF Stamps, Half
<1> QED BY <1>1, <1>7, <1>8

LEMMA PromptStep ==
  ASSUME RtccInv, prompt_task(Prompt)
  PROVE  Stamps' /\ AlarmAt' /\ GoesOn /\ Kept
<1>1. /\ Control /\ Stamps /\ AlarmAt /\ task \in [Threads -> Tasks]
      /\ Prompt \in Threads /\ Rtcc # Prompt /\ User(Prompt)
      /\ task'[Rtcc] = task[Rtcc]
  BY PromptSteps, Actors DEF RtccInv, Control, OnlyThread
<1>2. task[Rtcc].at \notin {"call", "leave"} /\ ~ Stmt(Rtcc, "inc")
  BY <1>1 DEF Control, Holding, Stmt, User
<1>3. GoesOn
  BY <1>2 DEF GoesOn
<1>4. ASSUME task[Rtcc].at = "called" => UNCHANGED <<_clock, _alarm>>
      PROVE  AlarmAt'
  BY <1>1, <1>2, <1>4 DEF AlarmAt
<1>5. CASE number(Prompt)
  <2>1. Stamps' /\ _func' = _func
    BY <1>1, <1>5, NumberStep
  <2>2. task[Rtcc].at # "called"
    BY <1>1, <1>5, Exclusive DEF number, Stmt
  <2> QED BY <1>3, <1>4, <2>1, <2>2 DEF Kept
<1>6. CASE entered(Prompt)
  <2>1. /\ Stmt(Prompt, "entered") /\ UNCHANGED <<_func, _alarm>>
        /\ (_clock' = clockOf(_clock.time) \/ _clock' = _clock)
    BY <1>6 DEF entered
  <2>2. task[Rtcc].at # "called"
    BY <1>1, <2>1, Exclusive DEF Stmt
  <2>3. /\ _clock.time \in DateTimes /\ _alarm \in DateTimes /\ _clock \in Clocks
        /\ InMonth(_clock.time) /\ InMonth(_alarm)
    BY <1>1, <2>1, ClocksTime DEF Stamps, Half, Stmt
  <2>4. _clock' \in Clocks /\ _clock'.time = _clock.time
    BY <2>1, <2>3, ClockOf
  <2>5. Stamps'
    <3>1. /\ _clock' \in [time : Unchecked, weekDay : Int, season : {0, WINTER, SUMMER}]
          /\ _clock'.time \in DateTimes /\ InMonth(_clock'.time)
      BY <2>3, <2>4, Ranged DEF Clocks
    <3>2. _alarm' \in DateTimes /\ _alarm' \in Unchecked /\ InMonth(_alarm')
      BY <2>1, <2>3, Ranged
    <3> QED BY <3>1, <3>2 DEF Stamps, InMonth, dateTime_daysInMonth,
      dateTime_isLeapYear, dateTime_getYear
  <2> QED BY <1>3, <1>4, <2>1, <2>2, <2>5 DEF Kept
<1>7. ASSUME NEW dest \in {"time", "alarm"}, Stmt(Prompt, dest), startEntry(Prompt, dest),
             UNCHANGED <<_clock, _alarm>>
      PROVE  Stamps'
  <2>1. ~ Half("time") /\ ~ Half("alarm")
    BY <1>7 DEF Stmt, Half
  <2> QED BY <1>1, <1>7, <2>1 DEF Stamps
<1>8. CASE rtcc_enterTime(Prompt)
  <2>1. Stamps' /\ UNCHANGED <<_func, _clock, _alarm>>
    BY <1>7, <1>8 DEF rtcc_enterTime, shared
  <2> QED BY <1>3, <1>4, <2>1 DEF Kept
<1>9. CASE rtcc_enterAlarm(Prompt)
  <2>1. Stamps' /\ UNCHANGED <<_clock, _alarm>> /\ _func' \in Funcs
    BY <1>7, <1>9 DEF rtcc_enterAlarm
  <2>2. _func' # NULL
    BY <2>1, RtccAssumption
  <2> QED BY <1>3, <1>4, <2>1, <2>2 DEF Kept
<1>10. CASE /\ UNCHANGED <<_clock, _alarm>>
            /\ _func' # _func => Stmt(Prompt, "command")
            /\ task[Prompt].at \in Typing =>
                 /\ task[Prompt].at = "typing" /\ task'[Prompt].at = "typed"
                 /\ task'[Prompt].dest = task[Prompt].dest
  <2>1. \A dest \in {"time", "alarm"} : Half(dest) => Half(dest)'
    BY <1>10 DEF Half, Typing
  <2>2. Stamps'
    BY <1>1, <1>10, <2>1, SameStamps
  <2> QED BY <1>3, <1>4, <1>10, <2>2 DEF Kept
<1> QED
  BY <1>1, <1>5, <1>6, <1>8, <1>9, <1>10, PromptSteps

LEMMA RtccInvNext ==
  RtccInv /\ [RtccNext]_rtccVars => RtccInv' /\ (GoesOn /\ Kept)
<1> SUFFICES ASSUME RtccInv, [RtccNext]_rtccVars
             PROVE  RtccInv' /\ GoesOn /\ Kept
  OBVIOUS
<1>1. Control' /\ Control /\ Stamps /\ AlarmAt
  BY ControlNext DEF RtccInv
<1>2. ASSUME UNCHANGED shared, UNCHANGED task PROVE Stamps' /\ AlarmAt' /\ GoesOn /\ Kept
  <2>1. \A dest \in {"time", "alarm"} : Half(dest) => Half(dest)'
    BY <1>2 DEF Half
  <2>2. Stamps'
    BY <1>1, <1>2, <2>1, SameStamps DEF shared
  <2>3. AlarmAt'
    BY <1>1, <1>2 DEF AlarmAt, shared
  <2> QED BY <1>2, <2>2, <2>3 DEF GoesOn, Kept, shared
<1>3. CASE /\ \/ KernelSteps({})
              \/ \E t \in Threads :
                   Tick(t, timer0) \/ Interrupt(t, Line) \/ Interrupt(t, Room)
           /\ UNCHANGED shared
  <2>1. UNCHANGED task
    BY <1>1, <1>3, SystemSteps
  <2> QED BY <1>1, <1>2, <1>3, <2>1 DEF RtccInv
<1>4. CASE rtcc_task(Rtcc)
  BY <1>1, <1>4, ClockStep DEF RtccInv
<1>5. CASE prompt_task(Prompt)
  BY <1>1, <1>5, PromptStep DEF RtccInv
<1>6. CASE UNCHANGED rtccVars
  BY <1>1, <1>2, <1>6 DEF RtccInv, rtccVars, programVars
<1> QED BY <1>3, <1>4, <1>5, <1>6 DEF RtccNext

LEMMA RtccSpecInv == RtccSpec => []RtccInv
BY RtccInvInit, RtccInvNext, PTL DEF RtccSpec

\* An alarm is neither early nor missed (rtcc.c, the end of the section of its
\* thread): the function is called when the time of the alarm has come, and only then.
THEOREM AlarmsOnTime == RtccSpec => []AlarmOnTime
<1>1. RtccInv => AlarmOnTime
  BY DEF RtccInv, AlarmAt, AlarmOnTime, Stmt
<1> QED BY <1>1, RtccSpecInv, PTL

\* The clock goes on, but for the hour that winter gives back (rtcc.c, _incSecond).
THEOREM TimeGoesOn == RtccSpec => ClockGoesOn
<1>1. RtccInv /\ [RtccNext]_rtccVars =>
        [Stmt(Rtcc, "inc") /\ _clock' # _clock =>
           \/ Before(_clock.time, _clock'.time)
           \/ /\ _clock.season # WINTER /\ _clock'.season = WINTER
              /\ _clock.time.minute = 59 /\ _clock'.time.minute = 0]_rtccVars
  BY RtccInvNext DEF GoesOn
<1> QED BY <1>1, RtccSpecInv, PTL DEF RtccSpec, ClockGoesOn

\* An alarm that was set stays set until it was called or turned off (rtcc.c,
\* rtcc_enterAlarm against the end of the section of the thread of the clock).
THEOREM AlarmsKept == RtccSpec => AlarmKept
<1>1. RtccInv /\ [RtccNext]_rtccVars =>
        [_func # NULL /\ _func' = NULL =>
           \/ Stmt(Prompt, "command")
           \/ task[Rtcc].at = "called" /\ ~ Before(_clock.time, _alarm)]_rtccVars
  BY RtccInvNext DEF Kept
<1> QED BY <1>1, RtccSpecInv, PTL DEF RtccSpec, AlarmKept

\* The code takes every year that ends a century for a leap year, the calendar only
\* those that 400 divides: not in 2100, but in every year from 1901 to 2099.
NoLeapCentury(dt) ==
  dateTime_getYear(dt) % 100 = 0 => dateTime_getYear(dt) % 400 = 0

LEMMA OnCalendar ==
  ASSUME NEW dt \in DateTimes, InMonth(dt), NoLeapCentury(dt)
  PROVE  Valid(dt)
<1> DEFINE year == dateTime_getYear(dt)
           leap == year % 4 = 0 /\ (year % 100 # 0 \/ year % 400 = 0)
<1>1. /\ dt.century \in Int /\ dt.year \in Int /\ dt.month \in 1 .. 12 /\ dt.day \in 1 .. 31
      /\ dt.hour \in 0 .. 23 /\ dt.minute \in 0 .. 59 /\ dt.second \in 0 .. 59
  BY InRange, Itself
<1>2. dateTime_isLeapYear(dt) => leap
  BY DEF dateTime_isLeapYear, NoLeapCentury
<1> DEFINE len == CASE dt.month \in {4, 6, 9, 11} -> 30
                    [] dt.month = 2 -> IF leap THEN 29 ELSE 28
                    [] OTHER -> 31
<1>3. dateTime_daysInMonth(dt) <= len
  <2>1. CASE dt.month = 2
    <3>1. /\ dateTime_daysInMonth(dt) = IF dateTime_isLeapYear(dt) THEN 29 ELSE 28
          /\ len = IF leap THEN 29 ELSE 28
      BY <2>1 DEF dateTime_daysInMonth
    <3> HIDE DEF leap, len
    <3> QED BY <1>2, <3>1
  <2>2. CASE dt.month # 2
    <3>1. dateTime_daysInMonth(dt) = _daysInMonth[dt.month]
      BY <2>2 DEF dateTime_daysInMonth
    <3>2. len = IF dt.month \in {4, 6, 9, 11} THEN 30 ELSE 31
      BY <2>2
    <3> HIDE DEF len
    <3> QED BY <1>1, <2>2, <3>1, <3>2 DEF _daysInMonth
  <2> QED BY <2>1, <2>2
<1>4. len \in 28 .. 31
  <2> HIDE DEF leap
  <2> QED BY <1>1
<1>5. dateTime_daysInMonth(dt) \in 28 .. 31
  BY <1>1, MonthsEnd
<1>6. dt.day \in 1 .. len
  <2> HIDE DEF len
  <2> QED BY <1>1, <1>3, <1>4, <1>5 DEF InMonth
<1> QED BY <1>1, <1>6 DEF Valid

\* Nobody sees a date that is not one (rtcc.c:66-98, 198-245), when the year of the
\* clock and of the alarm is one that the code and the calendar agree about.
THEOREM DatesStayValid ==
  RtccSpec =>
    [](NoLeapCentury(_clock.time) /\ NoLeapCentury(_alarm) => DatesValid)
<1>1. RtccInv /\ NoLeapCentury(_clock.time) /\ NoLeapCentury(_alarm) => DatesValid
  <2> SUFFICES ASSUME RtccInv, NoLeapCentury(_clock.time), NoLeapCentury(_alarm),
                      _mutex \notin inside[Prompt]
               PROVE  Valid(_clock.time) /\ Valid(_alarm)
    BY DEF DatesValid
  <2>1. Placed(Prompt) /\ Stamps
    BY DEF RtccInv, Control
  <2>2. task[Prompt].at \notin {"typing", "typed"}
    <3>1. /\ task[Prompt].at \in Points(Prompt) =>
                _mutex \in inside[Prompt] \/ task[Prompt].at \in Entries(Prompt)
      BY <2>1 DEF Placed
    <3> QED BY <3>1, Actors
  <2>3. /\ _clock.time \in DateTimes /\ InMonth(_clock.time)
        /\ _alarm \in DateTimes /\ InMonth(_alarm)
    BY <2>1, <2>2 DEF Stamps, Half
  <2> QED BY <2>3, OnCalendar
<1> QED BY <1>1, RtccSpecInv, PTL

-----------------------------------------------------------------------------
(* The lists, and what the two threads wait for *)

\* A call that leads from a statement to another, on the lists.
LEMMA CallLinked ==
  ASSUME MutexesApart, Linked, NEW t \in {Rtcc, Prompt}, NEW from, NEW to,
         \/ Enter(t, from, to) \/ Local(t, from, to)
         \/ \E e \in Events : WaitEvent(t, e, from, to)
         \/ TimerOn(t, timer0, from, to) \/ TimerOff(t, timer0, from, to)
         \/ Sleep(t, timer_period(t, timer0, OneSecond), from, to)
         \/ Sleep(t, timer_delay(t, timer0, 1), from, to)
         \/ EnterMutex(t, _mutex, from, to) \/ ExitMutex(t, from, to)
  PROVE  Linked' /\ Stays
<1>1. /\ t \in Threads /\ timer0 \in TickLists /\ _mutex \in Mutexes
      /\ OneSecond \in Nat /\ 1 \in Nat
  BY Actors, RtccAssumption
<1>2. CASE Enter(t, from, to)
  <2>1. MutexNext
    BY <1>1, <1>2
       DEF Enter, driverOnly, aboveKernel, MutexNext, MutexThread, TimerThread, EventThread, KernelThread
  <2> QED
    BY <2>1, LinkedStep
<1>3. CASE Local(t, from, to)
  <2>1. UNCHANGED mutexVars
    BY <1>3 DEF Local, kernelVars, driverOnly, aboveKernel, mutexVars
  <2> QED
    BY <2>1, LinkedStep
<1>4. ASSUME NEW e \in Events, WaitEvent(t, e, from, to) PROVE Linked' /\ Stays
  <2>1. MutexNext
    BY <1>1, <1>4
       DEF WaitEvent, driverOnly, aboveKernel, MutexNext, MutexThread, TimerThread, EventThread
  <2> QED
    BY <2>1, LinkedStep
<1>5. CASE TimerOn(t, timer0, from, to)
  <2>1. MutexNext
    BY <1>1, <1>5 DEF TimerOn, timer_on, timeOnly, MutexNext, MutexThread, TimerThread
  <2> QED
    BY <2>1, LinkedStep
<1>6. CASE TimerOff(t, timer0, from, to)
  BY <1>1, <1>6, LinkedStep DEF TimerOff, timer_off
<1>7. CASE \/ Sleep(t, timer_period(t, timer0, OneSecond), from, to)
           \/ Sleep(t, timer_delay(t, timer0, 1), from, to)
  <2>1. UNCHANGED timeOnly /\ \E d \in Nat : timer_period(t, timer0, d) \/ timer_delay(t, timer0, d)
    BY <1>1, <1>7 DEF Sleep, timeOnly
  <2> QED
    BY <1>1, <2>1, LinkedStep
<1>8. CASE EnterMutex(t, _mutex, from, to)
  <2>1. \/ mutex_enter_free(t, _mutex, "mutex_enter")
        \/ mutex_enter_wait(t, _mutex, "mutex_enter")
    BY <1>8 DEF EnterMutex
  <2>2. "mutex_enter" \in MutexCalls /\ UNCHANGED <<now, due>>
    BY <1>8, <2>1 DEF EnterMutex, mutexOnly, mutex_enter_free, mutex_enter_wait, MayEnter
  <2>3. MutexNext
    BY <1>1, <2>1, <2>2 DEF MutexNext, MutexThread
  <2> QED
    BY <2>3, LinkedStep
<1>9. CASE ExitMutex(t, from, to)
  BY <1>1, <1>9, LinkedStep DEF ExitMutex
<1> QED
  BY <1>2, <1>3, <1>4, <1>5, <1>6, <1>7, <1>8, <1>9

\* The statements at which a thread needs the timer.
Needs(t) == IF t = Rtcc THEN {"second", "check", "inc", "call", "called", "leave"}
            ELSE {"delay", "off"}
Need(t)  == IF task[t].at \in Needs(t) THEN 1 ELSE 0

\* The driver counts the threads that need the timer, and it runs for them only.
TimerCounted ==
  /\ qty = [tm \in TickLists |-> qty[tm]] /\ running \in [TickLists -> BOOLEAN]
  /\ qty[timer0] = Need(Rtcc) + Need(Prompt)
  /\ running[timer0] <=> qty[timer0] > 0

\* Only the clock waits to be started, at two of its statements, and the prompt waits
\* for no event while it needs the timer.
Awaits ==
  /\ \A t \in Threads : _event \in In(pc[t]) => t = Rtcc /\ task[Rtcc].at \in {"stopped", "on"}
  /\ In(pc[Prompt]) \cap Events # {} => task[Prompt].at \notin Needs(Prompt)

\* Between the test of _go and the wait nobody runs who could start the clock.
Resting == task[Rtcc].at = "off" => User(Rtcc) /\ ~ _go

\* The clock goes, or its thread waits to be told.
Told == _go => Rtcc \in Active(k) \/ _event \notin In(pc[Rtcc])

Served == Linked /\ TimerCounted /\ Awaits /\ Resting /\ Told

\* Who runs its own code waits for nothing.
LEMMA UserWaitsNot ==
  ASSUME Linked, NEW t \in Threads, User(t)
  PROVE  In(pc[t]) = {} /\ t = k.running
BY MutexPointsSeated DEF Linked, Below, Layer, EntersIn, Seated, User, Home

\* What the calls wait for.
LEMMA CallIn ==
  ASSUME Linked, NEW t \in {Rtcc, Prompt}, NEW from, NEW to
  PROVE  /\ \/ Enter(t, from, to) \/ Local(t, from, to)
            \/ TimerOn(t, timer0, from, to) \/ TimerOff(t, timer0, from, to)
            => UNCHANGED pc /\ In(pc'[t]) = {}
         /\ \A e \in Events : WaitEvent(t, e, from, to) => In(pc'[t]) = {e}
         /\ \/ Sleep(t, timer_period(t, timer0, OneSecond), from, to)
            \/ Sleep(t, timer_delay(t, timer0, 1), from, to)
            \/ EnterMutex(t, _mutex, from, to) \/ ExitMutex(t, from, to)
            => In(pc'[t]) \cap Events = {}
<1>1. /\ t \in Threads /\ pc \in [Threads -> MutexPoints]
      /\ Events \subseteq Lists /\ _mutex \in Lists /\ timer0 \in Lists
      /\ _mutex \notin Events /\ timer0 \notin Events
  BY Actors, RtccAssumption, EventAssumption, MutexAssumption, ListAssumption
     DEF Linked, Below, Layer, Lists
<1>2. User(t) => In(pc[t]) = {}
  BY <1>1, UserWaitsNot
<1>3. ASSUME \/ Enter(t, from, to) \/ Local(t, from, to)
             \/ TimerOn(t, timer0, from, to) \/ TimerOff(t, timer0, from, to)
      PROVE  UNCHANGED pc /\ In(pc'[t]) = {}
  BY <1>2, <1>3
     DEF Enter, Local, kernelVars, TimerOn, timer_on, task_updateTick, SetDue, TimerOff, timer_off,
         Return, Stmt, task_enterCritical
<1>4. ASSUME NEW e \in Events, WaitEvent(t, e, from, to) PROVE In(pc'[t]) = {e}
  <2>1. pc'[t] = Inside("event_wait", e)
    BY <1>1, <1>4 DEF WaitEvent, event_wait, Leave
  <2> QED
    BY <1>1, <2>1, InsideIn
<1>5. ASSUME NEW label, NEW time, WaitTimer(t, timer0, label, time) PROVE In(pc'[t]) \cap Events = {}
  <2>1. pc'[t] = [at |-> label, on |-> timer0, tmp |-> due[t]]
    BY <1>1, <1>5 DEF WaitTimer, Leave
  <2> QED
    BY <1>1, <2>1 DEF In
<1>6. ASSUME \/ Sleep(t, timer_period(t, timer0, OneSecond), from, to)
             \/ Sleep(t, timer_delay(t, timer0, 1), from, to)
      PROVE  In(pc'[t]) \cap Events = {}
  BY <1>5, <1>6 DEF Sleep, timer_period, timer_delay
<1>7. ASSUME EnterMutex(t, _mutex, from, to) PROVE In(pc'[t]) \cap Events = {}
  <2>1. pc'[t] \in {pc[t], At("user"), Inside("mutex_enter", _mutex)} /\ User(t)
    BY <1>1, <1>7
       DEF EnterMutex, mutex_enter_free, mutex_enter_wait, MayEnter, Leave, Return
  <2> QED
    BY <1>1, <1>2, <2>1, NotIn, InsideIn
<1>8. ASSUME ExitMutex(t, from, to) PROVE In(pc'[t]) \cap Events = {}
  <2>1. pc'[t] \in {pc[t], At("yield")} /\ User(t)
    BY <1>1, <1>8
       DEF ExitMutex, mutex_exit, Release, ResumeFullPriorList, Leave, Return
  <2> QED
    BY <1>1, <1>2, <2>1, NotIn
<1> QED
  BY <1>3, <1>4, <1>6, <1>7, <1>8

\* The threads that need the timer are counted in one byte.
LEMMA CountStep ==
  ASSUME TimerCounted, QtyMod > 2, NEW t \in {Rtcc, Prompt}, NEW from, NEW to,
         task[t].at = from, Moves(t, to),
         \/ (from \in Needs(t) <=> to \in Needs(t)) /\ UNCHANGED <<qty, running>>
         \/ from \notin Needs(t) /\ to \in Needs(t) /\ timer_on(t, timer0)
         \/ from \in Needs(t) /\ to \notin Needs(t) /\ timer_off(t, timer0)
  PROVE  TimerCounted'
<1> DEFINE o == IF t = Rtcc THEN Prompt ELSE Rtcc
           n == qty[timer0]
<1>1. /\ Rtcc \in Threads /\ Prompt \in Threads /\ Rtcc # Prompt /\ timer0 \in TickLists
      /\ QtyMod \in Nat
  BY Actors, RtccAssumption, TimerDriverAssumption
<1>2. /\ o \in {Rtcc, Prompt} /\ n = Need(t) + Need(o) /\ Need(o) \in {0, 1}
      /\ Need(t) = IF from \in Needs(t) THEN 1 ELSE 0
  BY <1>1 DEF TimerCounted, Need
<1>3. /\ Need(o)' = Need(o) /\ Need(t)' = IF to \in Needs(t) THEN 1 ELSE 0
      /\ Need(Rtcc)' + Need(Prompt)' = Need(t)' + Need(o)'
  BY <1>1 DEF Moves, Need
<1> HIDE DEF o
<1>4. CASE (from \in Needs(t) <=> to \in Needs(t)) /\ UNCHANGED <<qty, running>>
  BY <1>2, <1>3, <1>4 DEF TimerCounted
<1>5. CASE from \notin Needs(t) /\ to \in Needs(t) /\ timer_on(t, timer0)
  <2>1. /\ qty' = [qty EXCEPT ![timer0] = (n + 1) % QtyMod]
        /\ running' = [running EXCEPT ![timer0] = running[timer0] \/ n = 0]
    BY <1>5 DEF timer_on
  <2>2. n \in {0, 1} /\ (n + 1) % QtyMod = n + 1
    <3>1. n \in {0, 1}
      BY <1>2, <1>5
    <3> QED
      BY <1>1, <3>1
  <2>3. qty'[timer0] = n + 1 /\ running'[timer0]
    <3>1. n = 0 \/ running[timer0]
      BY <1>1, <2>2 DEF TimerCounted
    <3> QED
      BY <1>1, <2>1, <2>2, <3>1 DEF TimerCounted
  <2>4. qty' = [tm \in TickLists |-> qty'[tm]] /\ running' \in [TickLists -> BOOLEAN]
    BY <1>1, <2>1 DEF TimerCounted
  <2>5. n + 1 = Need(t)' + Need(o)' /\ n + 1 > 0
    BY <1>2, <1>3, <1>5, <2>2
  <2> QED
    BY <1>3, <2>3, <2>4, <2>5 DEF TimerCounted
<1>6. CASE from \in Needs(t) /\ to \notin Needs(t) /\ timer_off(t, timer0)
  <2>1. /\ qty' = [qty EXCEPT ![timer0] = (n - 1) % QtyMod]
        /\ running' = [running EXCEPT ![timer0] = running[timer0] /\ n # 1]
    BY <1>6 DEF timer_off
  <2>2. n \in {1, 2} /\ (n - 1) % QtyMod = n - 1 /\ running[timer0]
    <3>1. n \in {1, 2}
      BY <1>2, <1>6
    <3> QED
      BY <1>1, <3>1 DEF TimerCounted
  <2>3. qty'[timer0] = n - 1 /\ (running'[timer0] <=> n # 1)
    BY <1>1, <2>1, <2>2 DEF TimerCounted
  <2>4. qty' = [tm \in TickLists |-> qty'[tm]] /\ running' \in [TickLists -> BOOLEAN]
    BY <1>1, <2>1 DEF TimerCounted
  <2>5. n - 1 = Need(t)' + Need(o)' /\ (n # 1 <=> n - 1 > 0)
    BY <1>2, <1>3, <1>6, <2>2
  <2> QED
    BY <1>3, <2>3, <2>4, <2>5 DEF TimerCounted
<1> QED
  BY <1>4, <1>5, <1>6

\* A step of one of the two threads.
LEMMA ServedByThread ==
  ASSUME Served, Linked', Stays, TimerCounted', NEW t \in {Rtcc, Prompt}, NEW from, NEW to,
         Stmt(t, from), Moves(t, to), OnlyThread(t),
         _event \in In(pc'[t]) => t = Rtcc /\ to \in {"stopped", "on"} /\ ~ _go',
         t = Rtcc /\ to = "off" => User(Rtcc)' /\ ~ _go',
         t = Prompt /\ In(pc'[t]) \cap Events # {} => to \notin Needs(t),
         t = Prompt /\ _go' => _go \/ Rtcc \in Active(k') \/ _event \notin In(pc[Rtcc])
  PROVE  Served'
<1>1. /\ Rtcc \in Threads /\ Prompt \in Threads /\ Rtcc # Prompt /\ t = k.running /\ User(t)
      /\ task'[t].at = to
  BY Actors DEF Stmt, User, Moves
<1>2. \A u \in Threads \ {t} : pc'[u] = pc[u] /\ task'[u] = task[u]
  BY DEF OnlyThread
<1>3. Awaits'
  <2>1. ASSUME NEW u \in Threads, _event \in In(pc'[u])
        PROVE  u = Rtcc /\ task'[Rtcc].at \in {"stopped", "on"}
    BY <1>1, <1>2, <2>1 DEF Served, Awaits
  <2>2. In(pc'[Prompt]) \cap Events # {} => task'[Prompt].at \notin Needs(Prompt)
    BY <1>1, <1>2 DEF Served, Awaits
  <2> QED
    BY <2>1, <2>2 DEF Awaits, Needs
<1>4. Resting'
  BY <1>1, <1>2 DEF Served, Resting, User
<1>5. Told'
  <2>1. CASE t = Rtcc
    BY <2>1 DEF Told
  <2>2. CASE t = Prompt
    <3>1. Rtcc \in Active(k) => Rtcc \in Active(k')
      BY <1>1, <2>2 DEF Stays
    <3>2. pc'[Rtcc] = pc[Rtcc]
      BY <1>1, <1>2, <2>2
    <3> QED
      BY <2>2, <3>1, <3>2 DEF Served, Told
  <2> QED
    BY <2>1, <2>2
<1> QED
  BY <1>3, <1>4, <1>5 DEF Served

\* A call that leads from a statement to another, on what the threads wait for.
LEMMA CallServed ==
  ASSUME MutexesApart, QtyMod > 2, Served, task \in [Threads -> Tasks],
         NEW t \in {Rtcc, Prompt}, NEW from \in Statements, NEW to \in Statements, OnlyThread(t),
         \/ /\ from \in Needs(t) <=> to \in Needs(t)
            /\ \/ Enter(t, from, to) \/ Local(t, from, to)
               \/ Sleep(t, timer_period(t, timer0, OneSecond), from, to)
               \/ Sleep(t, timer_delay(t, timer0, 1), from, to)
               \/ EnterMutex(t, _mutex, from, to) \/ ExitMutex(t, from, to)
               \/ \E e \in Events :
                    /\ WaitEvent(t, e, from, to)
                    /\ e = _event => t = Rtcc /\ to \in {"stopped", "on"} /\ ~ _go'
                    /\ t = Prompt => to \notin Needs(t)
         \/ from \notin Needs(t) /\ to \in Needs(t) /\ TimerOn(t, timer0, from, to)
         \/ from \in Needs(t) /\ to \notin Needs(t) /\ TimerOff(t, timer0, from, to),
         t = Rtcc /\ to = "off" => TimerOff(t, timer0, from, to) /\ ~ _go',
         t = Prompt /\ _go' => _go
  PROVE  Served'
<1>1. Stmt(t, from) /\ Goto(t, to) /\ t \in Threads
  BY Actors DEF Enter, Local, Sleep, EnterMutex, ExitMutex, WaitEvent, TimerOn, TimerOff
<1>2. Moves(t, to)
  BY <1>1, GotoMoves
<1>3. Linked' /\ Stays
  BY CallLinked DEF Served
<1>4. TimerCounted'
  <2>1. \/ (from \in Needs(t) <=> to \in Needs(t)) /\ UNCHANGED <<qty, running>>
        \/ from \notin Needs(t) /\ to \in Needs(t) /\ timer_on(t, timer0)
        \/ from \in Needs(t) /\ to \notin Needs(t) /\ timer_off(t, timer0)
    BY DEF Enter, Local, Sleep, EnterMutex, ExitMutex, WaitEvent, TimerOn, TimerOff, driverOnly
  <2> QED
    BY <1>1, <1>2, <2>1, CountStep DEF Served, Stmt
<1>5. /\ _event \in In(pc'[t]) => t = Rtcc /\ to \in {"stopped", "on"} /\ ~ _go'
      /\ t = Prompt /\ In(pc'[t]) \cap Events # {} => to \notin Needs(t)
  <2>1. _event \in Events /\ Linked
    BY RtccAssumption DEF Served
  <2>2. CASE \E e \in Events : /\ WaitEvent(t, e, from, to)
                               /\ e = _event => t = Rtcc /\ to \in {"stopped", "on"} /\ ~ _go'
                               /\ t = Prompt => to \notin Needs(t)
    BY <2>1, <2>2, CallIn
  <2>3. CASE \/ Enter(t, from, to) \/ Local(t, from, to)
             \/ Sleep(t, timer_period(t, timer0, OneSecond), from, to)
             \/ Sleep(t, timer_delay(t, timer0, 1), from, to)
             \/ EnterMutex(t, _mutex, from, to) \/ ExitMutex(t, from, to)
             \/ TimerOn(t, timer0, from, to) \/ TimerOff(t, timer0, from, to)
    <3>1. In(pc'[t]) \cap Events = {}
      BY <2>1, <2>3, CallIn
    <3> QED
      BY <2>1, <3>1
  <2> QED
    BY <2>2, <2>3
<1>6. t = Rtcc /\ to = "off" => User(Rtcc)' /\ ~ _go'
  BY <1>1 DEF TimerOff, timer_off, Return, Stmt, User
<1> QED
  BY <1>1, <1>2, <1>3, <1>4, <1>5, <1>6, ServedByThread DEF Served

LEMMA RtccServed ==
  ASSUME MutexesApart, QtyMod > 2, Control, Served, rtcc_task(Rtcc)
  PROVE  Served'
<1>1. /\ OnlyThread(Rtcc) /\ task \in [Threads -> Tasks] /\ Rtcc # Prompt /\ Rtcc \in {Rtcc, Prompt}
      /\ Needs(Rtcc) = {"second", "check", "inc", "call", "called", "leave"}
      /\ Room \in Events /\ _event \in Events /\ Room # _event
  BY RtccSteps, Actors, RtccAssumption DEF Control, Needs
<1>2. CASE /\ UNCHANGED shared
           /\ \/ Enter(Rtcc, "enter", "stopped")
              \/ Sleep(Rtcc, timer_period(Rtcc, timer0, OneSecond), "second", "check")
              \/ EnterMutex(Rtcc, _mutex, "check", "inc")
              \/ Local(Rtcc, "call", "called")
              \/ ExitMutex(Rtcc, "leave", "second")
              \/ WaitEvent(Rtcc, Room, "call", "called")
  BY <1>1, <1>2, CallServed DEF Statements
<1>3. CASE /\ UNCHANGED shared
           /\ \/ TimerOn(Rtcc, timer0, "stopped", "second")
              \/ TimerOn(Rtcc, timer0, "on", "check")
  BY <1>1, <1>3, CallServed DEF Statements
<1>4. CASE /\ UNCHANGED shared
           /\ \/ ~ _go /\ WaitEvent(Rtcc, _event, "stopped", "stopped")
              \/ WaitEvent(Rtcc, _event, "off", "on")
  <2>1. ~ _go'
    BY <1>4 DEF shared, Served, Resting, WaitEvent, Stmt
  <2> QED
    BY <1>1, <1>4, <2>1, CallServed DEF Statements
<1>5. CASE rest(Rtcc)
  <2>1. ~ _go' /\ TimerOff(Rtcc, timer0, "check", "off")
    BY <1>5 DEF rest, shared
  <2> QED
    BY <1>1, <2>1, CallServed DEF Statements
<1>6. CASE incSecond(Rtcc) \/ alarmDone(Rtcc)
  <2>1. \E from \in {"inc", "called"} : \E to \in {"call", "leave"} : Local(Rtcc, from, to)
    BY <1>6 DEF incSecond, alarmDone
  <2> QED
    BY <1>1, <2>1, CallServed DEF Statements
<1> QED
  BY <1>2, <1>3, <1>4, <1>5, <1>6 DEF rtcc_task

\* What is typed.
LEMMA EntryServed ==
  ASSUME MutexesApart, QtyMod > 2, Control, Served, OnlyThread(Prompt),
         \/ number(Prompt) \/ rtcc_enterTime(Prompt) \/ rtcc_enterAlarm(Prompt)
  PROVE  Served'
<1>1. /\ Prompt \in Threads /\ Prompt \in {Rtcc, Prompt} /\ Prompt # Rtcc
      /\ task \in [Threads -> Tasks] /\ Needs(Prompt) = {"delay", "off"}
  BY Actors DEF Control, Needs
<1>2. PICK from : /\ Stmt(Prompt, from) /\ from \in {"typed", "time", "alarm"}
                  /\ UNCHANGED <<kernelVars, driverOnly, _go>>
  BY <1>1 DEF number, rtcc_enterTime, rtcc_enterAlarm, shared
<1>3. \E to \in Typing : Moves(Prompt, to)
  <2>1. CASE number(Prompt)
    <3>1. /\ task[Prompt] \in EntryTasks /\ task[Prompt].dest \in {"time", "alarm"}
      BY <2>1 DEF Control, number, Stmt, EntryTasks
    <3>2. \/ /\ task[Prompt].n < 6
             /\ task' = [task EXCEPT ![Prompt] =
                           [task[Prompt] EXCEPT !.at = "typing", !.n = task[Prompt].n + 1]]
          \/ Goto(Prompt, "entered") \/ Goto(Prompt, "typing")
          \/ startEntry(Prompt, task[Prompt].dest)
      BY <2>1, Zenon DEF number
    <3>3. CASE /\ task[Prompt].n < 6
               /\ task' = [task EXCEPT ![Prompt] =
                             [task[Prompt] EXCEPT !.at = "typing", !.n = task[Prompt].n + 1]]
      <4>1. Moves(Prompt, "typing")
        BY <1>1, <3>1, <3>3, NextEntry, Zenon
      <4> QED
        BY <4>1 DEF Typing
    <3>4. "entered" \in Statements /\ "typing" \in Statements
      BY DEF Statements
    <3>5. CASE Goto(Prompt, "entered") \/ Goto(Prompt, "typing")
      BY <1>1, <3>4, <3>5, GotoMoves DEF Typing
    <3>6. CASE startEntry(Prompt, task[Prompt].dest)
      BY <1>1, <3>1, <3>6, EntryMoves DEF Typing
    <3> QED
      BY <3>2, <3>3, <3>5, <3>6
  <2>2. CASE rtcc_enterTime(Prompt) \/ rtcc_enterAlarm(Prompt)
    BY <1>1, <2>2, EntryMoves DEF rtcc_enterTime, rtcc_enterAlarm, Typing
  <2> QED
    BY <2>1, <2>2
<1>4. PICK to : to \in Typing /\ Moves(Prompt, to)
  BY <1>3
<1>5. UNCHANGED <<mutexVars, qty, running>>
  BY <1>2 DEF kernelVars, driverOnly, aboveKernel, mutexVars
<1>6. Linked' /\ Stays
  BY <1>5, LinkedStep DEF Served
<1>7. from \notin Needs(Prompt) /\ to \notin Needs(Prompt)
  BY <1>1, <1>2, <1>4 DEF Typing
<1>8. TimerCounted'
  BY <1>1, <1>2, <1>4, <1>5, <1>7, CountStep DEF Served, Stmt
<1>9. In(pc'[Prompt]) = {}
  BY <1>1, <1>2, UserWaitsNot DEF Served, Stmt, kernelVars
<1> QED
  BY <1>1, <1>2, <1>4, <1>6, <1>7, <1>8, <1>9, ServedByThread

\* The end of an entry, where the mutex is left.
LEMMA EnteredServed ==
  ASSUME MutexesApart, QtyMod > 2, Control, Served, OnlyThread(Prompt), entered(Prompt)
  PROVE  Served'
<1>1. /\ Prompt \in Threads /\ Prompt \in {Rtcc, Prompt} /\ Prompt # Rtcc /\ _mutex \in Mutexes
      /\ task \in [Threads -> Tasks] /\ Needs(Prompt) = {"delay", "off"}
  BY Actors, RtccAssumption DEF Control, Needs
<1>2. /\ Stmt(Prompt, "entered") /\ mutex_exit(Prompt, _mutex)
      /\ UNCHANGED <<mutexOnly, qty, running, _go>>
  BY <1>1 DEF entered
<1>3. PICK to \in {"printTime", "prompt"} : Moves(Prompt, to)
  <2>1. Goto(Prompt, "printTime") \/ task' = [task EXCEPT ![Prompt] = At0("prompt")]
    BY DEF entered
  <2> QED
    BY <1>1, <2>1, GotoMoves, At0Moves DEF Statements
<1>4. Linked' /\ Stays
  BY <1>1, <1>2, LinkedStep DEF Served
<1>5. TimerCounted'
  BY <1>1, <1>2, <1>3, CountStep DEF Served, Stmt
<1>6. In(pc'[Prompt]) = {}
  <2>1. pc'[Prompt] \in {pc[Prompt], At("yield")} /\ pc \in [Threads -> MutexPoints]
    BY <1>1, <1>2
       DEF mutex_exit, Release, ResumeFullPriorList, Leave, Return, Served, Linked, Below, Layer
  <2> QED
    BY <1>1, <1>2, <2>1, NotIn, UserWaitsNot DEF Served, Stmt
<1> QED
  BY <1>1, <1>2, <1>3, <1>4, <1>5, <1>6, ServedByThread

\* Who starts the clock wakes its thread, when that waits: nobody else waits for this.
LEMMA StartServed ==
  ASSUME MutexesApart, QtyMod > 2, Control, Served, OnlyThread(Prompt), rtcc_start(Prompt)
  PROVE  Served'
<1>1. /\ Prompt \in Threads /\ Prompt \in {Rtcc, Prompt} /\ Prompt # Rtcc /\ Rtcc \in Threads
      /\ _event \in Events /\ _event \in PriorLists
      /\ task \in [Threads -> Tasks] /\ Needs(Prompt) = {"delay", "off"}
  BY Actors, RtccAssumption, EventAssumption DEF Control, Needs
<1>2. /\ Stmt(Prompt, "start") /\ event_notify(Prompt, _event)
      /\ UNCHANGED <<driverOnly, qty, running, now, due>>
  BY DEF rtcc_start, driverOnly, aboveKernel
<1>3. Moves(Prompt, "prompt")
  BY <1>1, At0Moves DEF rtcc_start, Statements
<1>4. Linked' /\ Stays
  <2>1. MutexNext
    BY <1>1, <1>2
       DEF driverOnly, aboveKernel, MutexNext, MutexThread, TimerThread, EventThread
  <2> QED
    BY <2>1, LinkedStep DEF Served
<1>5. TimerCounted'
  BY <1>1, <1>2, <1>3, CountStep DEF Served, Stmt
<1>6. User(Prompt) /\ ResumeFromPriorList(Prompt, _event)
  BY <1>2 DEF event_notify
<1>7. In(pc'[Prompt]) = {}
  <2>1. pc'[Prompt] \in {pc[Prompt], At("yield")} /\ pc \in [Threads -> MutexPoints]
    BY <1>1, <1>6
       DEF ResumeFromPriorList, ResumeAndReturn, Leave, Return, Served, Linked, Below, Layer
  <2> QED
    BY <1>1, <1>2, <2>1, NotIn, UserWaitsNot DEF Served, Stmt
<1>8. Rtcc \in Active(k') \/ _event \notin In(pc[Rtcc])
  <2>1. /\ k.head[_event] # NULL =>
             /\ k.head[_event] \in Threads /\ k.head[_event] \in Active(k')
             /\ k.head[_event] \in Waiters(_event)
        /\ Waiters(_event) = {u \in Threads : u \notin Active(k) /\ _event \in In(pc[u])}
    BY <1>1, <1>2, <1>4, <1>6, LinkedNotify, LinkedWaiters DEF Served
  <2>2. k.head[_event] = NULL => Waiters(_event) = {}
    BY ChainNull DEF Waiters
  <2>3. \A u \in Waiters(_event) : u = Rtcc
    BY <2>1 DEF Served, Awaits
  <2>4. Rtcc \in Active(k) => Rtcc \in Active(k')
    BY <1>1, <1>4, <1>6 DEF Stays, User
  <2> QED
    BY <1>1, <2>1, <2>2, <2>3, <2>4
<1> QED
  BY <1>1, <1>2, <1>3, <1>4, <1>5, <1>7, <1>8, ServedByThread

LEMMA PromptServed ==
  ASSUME MutexesApart, QtyMod > 2, Control, Served, prompt_task(Prompt)
  PROVE  Served'
<1>1. /\ OnlyThread(Prompt) /\ task \in [Threads -> Tasks]
      /\ Rtcc # Prompt /\ Prompt \in {Rtcc, Prompt} /\ Needs(Prompt) = {"delay", "off"}
      /\ Room \in Events /\ Line \in Events /\ Room # _event /\ Line # _event
  BY PromptSteps, Actors, RtccAssumption DEF Control, Needs
<1>2. CASE /\ UNCHANGED shared
           /\ \/ Enter(Prompt, "enter", "on")
              \/ Sleep(Prompt, timer_delay(Prompt, timer0, 1), "delay", "off")
              \/ Reads(Prompt, Line, "prompt", "command")
              \/ EnterMutex(Prompt, _mutex, "command", "time")
              \/ EnterMutex(Prompt, _mutex, "command", "alarm")
              \/ Reads(Prompt, Line, "typing", "typed")
  <2>1. _go' = _go
    BY <1>2 DEF shared
  <2> QED
    BY <1>1, <1>2, <2>1, CallServed DEF Statements, Reads
<1>3. CASE /\ UNCHANGED shared
           /\ \/ TimerOn(Prompt, timer0, "on", "delay")
              \/ TimerOff(Prompt, timer0, "off", "prompt")
  <2>1. _go' = _go
    BY <1>3 DEF shared
  <2> QED
    BY <1>1, <1>3, <2>1, CallServed DEF Statements
<1>4. CASE /\ UNCHANGED shared
           /\ \/ printing(Prompt, "command", "printing", "prompt")
              \/ printing(Prompt, "printTime", "printingTime", "start")
  <2>1. _go' = _go
    BY <1>4 DEF shared
  <2> QED
    BY <1>1, <1>4, <2>1, CallServed DEF Statements, printing
<1>5. CASE rtcc_stop(Prompt) \/ rtcc_alarmOff(Prompt)
  <2>1. Local(Prompt, "command", "prompt") /\ (_go' => _go)
    BY <1>5 DEF rtcc_stop, rtcc_alarmOff
  <2> QED
    BY <1>1, <2>1, CallServed DEF Statements
<1> QED
  BY <1>1, <1>2, <1>3, <1>4, <1>5, EntryServed, EnteredServed, StartServed DEF prompt_task

\* The kernel and the interrupts take nobody to a wait.
LEMMA ServedBySystem ==
  ASSUME Served, Linked', UNCHANGED <<task, qty, running, _go>>,
         task[Rtcc].at = "off" => ~ User(Rtcc),
         \A u \in Threads : In(pc'[u]) \subseteq In(pc[u]),
         _event \in In(pc'[Rtcc]) /\ Rtcc \in Active(k) => Rtcc \in Active(k')
  PROVE  Served'
<1>1. Rtcc \in Threads /\ Prompt \in Threads
  BY Actors
<1>2. TimerCounted'
  BY DEF Served, TimerCounted, Need
<1>3. Awaits'
  <2>1. \A u \in Threads : _event \in In(pc'[u]) => u = Rtcc /\ task'[Rtcc].at \in {"stopped", "on"}
    BY DEF Served, Awaits
  <2>2. In(pc'[Prompt]) \cap Events # {} => task'[Prompt].at \notin Needs(Prompt)
    BY <1>1 DEF Served, Awaits
  <2> QED
    BY <2>1, <2>2 DEF Awaits, Needs
<1>4. Resting' /\ Told'
  BY <1>1 DEF Served, Resting, Told
<1> QED
  BY <1>2, <1>3, <1>4 DEF Served

LEMMA SystemServed ==
  ASSUME MutexesApart, Control, Served, UNCHANGED shared,
         \/ KernelSteps({})
         \/ \E t \in Threads :
              Tick(t, timer0) \/ Interrupt(t, Line) \/ Interrupt(t, Room)
  PROVE  Served'
<1>1. /\ Rtcc \in Threads /\ Rtcc # Background /\ Linked /\ _go' = _go
      /\ pc \in [Threads -> MutexPoints] /\ At("user").at = "user" /\ In(At("user")) = {}
      /\ In(At("run")) = {} /\ {Line, Room} \subseteq Events /\ timer0 \in TickLists
  BY Actors, RtccAssumption, NotIn DEF Served, Linked, Below, Layer, shared
<1>2. CASE boot /\ UNCHANGED <<qty, running, task>>
  <2>1. Linked' /\ Stays
    BY <1>1, <1>2, LinkedStep
  <2>2. k.running = Background
    BY <1>2 DEF boot, scheduler_add, scheduler_run, scheduler_run_return
  <2>3. \E u \in Threads, p \in {At("user"), At("run")} : pc' = [pc EXCEPT ![u] = p]
    BY <1>2, KernelAssumption DEF boot, scheduler_add, scheduler_run, scheduler_run_return
  <2>4. \A u \in Threads : In(pc'[u]) \subseteq In(pc[u])
    BY <1>1, <2>3
  <2>5. Rtcc \in Active(k) => Rtcc \in Active(k')
    BY <1>1, <2>1, <2>2 DEF Stays
  <2>6. ~ User(Rtcc)
    BY <1>1, <2>2 DEF User
  <2> QED
    BY <1>1, <1>2, <2>1, <2>4, <2>5, <2>6, ServedBySystem
<1>3. ASSUME NEW t \in Threads, Returns(t), UNCHANGED <<qty, running, task>> PROVE Served'
  <2>1. Linked' /\ Stays
    BY <1>1, <1>3, LinkedStep
  <2>2. k.running = t /\ pc[t].at # "user"
    BY <1>3
       DEF Returns, checkIRQ, yield_return, event_wait_return, timer_return, mutex_enter_retry,
           EnterLabels, TimerLabels
  <2>3. \/ pc' = [pc EXCEPT ![t] = At("user")]
        \/ UNCHANGED <<k, pc>>
        \/ UNCHANGED pc /\ pc[t].at \in EnterLabels
    BY <1>3
       DEF Returns, checkIRQ, yield_return, event_wait_return, timer_return, mutex_enter_retry,
           Entered, Finish
  <2>4. \A u \in Threads : In(pc'[u]) \subseteq In(pc[u])
    BY <1>1, <2>3
  <2>5. _event \in In(pc'[Rtcc]) /\ Rtcc \in Active(k) => Rtcc \in Active(k')
    <3>1. CASE Rtcc # t
      BY <2>1, <2>2, <3>1 DEF Stays
    <3>2. CASE pc' = [pc EXCEPT ![t] = At("user")] /\ Rtcc = t
      BY <1>1, <3>2
    <3>3. CASE UNCHANGED <<k, pc>>
      BY <3>3
    <3>4. CASE UNCHANGED pc /\ pc[t].at \in EnterLabels /\ Rtcc = t
      <4>1. _event \notin Mutexes /\ In(pc[t]) \subseteq Mutexes
        BY <1>1, <3>4, MutexPointsSeated, RtccAssumption, MutexAssumption DEF EntersIn, EntryPoints
      <4> QED
        BY <3>4, <4>1
    <3> QED
      BY <2>3, <3>1, <3>2, <3>3, <3>4
  <2>6. ~ User(Rtcc)
    BY <2>2 DEF User
  <2> QED
    BY <1>1, <1>3, <2>1, <2>4, <2>5, <2>6, ServedBySystem
<1>4. ASSUME NEW t \in Threads,
             Tick(t, timer0) \/ Interrupt(t, Line) \/ Interrupt(t, Room)
      PROVE  Served'
  <2>1. /\ UNCHANGED <<critical, pc, busy, inside, task, qty, running>> /\ InterruptsEnabled(t)
        /\ \/ timer_tick(t, timer0)
           \/ \E e \in {Line, Room} : event_notifyISR(t, e) /\ UNCHANGED <<now, due>>
    BY <1>4
       DEF Tick, timer_isr, timer_tick, timeOnly, Interrupt, event_notifyISR,
           ResumeFromPriorListISR, driverOnly, aboveKernel
  <2>2. MutexNext
    BY <1>1, <2>1 DEF MutexNext, TimerInterrupt, EventInterrupt
  <2>3. Linked'
    BY <1>1, <2>2, LinkedStep
  <2>4. Fit(MutexPoints, MutexUses)
    BY <1>1, <2>3, LinkedFit, MutexFitParts DEF Linked
  <2>5. Aside({_event})
    <3>1. CASE timer_tick(t, timer0)
      BY <1>1, <2>4, <3>1, TickStep DEF Steps
    <3>2. ASSUME NEW e \in {Line, Room}, event_notifyISR(t, e), UNCHANGED <<now, due>>
          PROVE  Aside({_event})
      <4>1. e \in PriorLists
        BY <1>1, EventAssumption
      <4> QED
        BY <2>4, <3>2, <4>1, NotifyStep DEF Steps, event_notifyISR
    <3> QED
      BY <2>1, <3>1, <3>2
  <2>6. _event \in In(pc'[Rtcc]) /\ Rtcc \in Active(k) => Rtcc \in Active(k')
    BY <1>1, <2>5 DEF Aside
  <2>7. task[Rtcc].at = "off" => ~ User(Rtcc)
    <3>1. task[Rtcc].at = "off" /\ User(Rtcc) => critical[Rtcc] > 0 /\ t = Rtcc
      BY <2>1 DEF Control, Placed, User, InterruptsEnabled
    <3> QED
      BY <1>1, <2>1, <3>1 DEF Control, Mask, Masked, User, InterruptsEnabled
  <2> QED
    BY <1>1, <2>1, <2>3, <2>6, <2>7, ServedBySystem
<1>5. ASSUME NEW t \in Threads PROVE ~ checkIRQ(t, {})
  BY DEF checkIRQ
<1> QED
  BY <1>2, <1>3, <1>4, <1>5 DEF KernelSteps

LEMMA ServedNext ==
  ASSUME MutexesApart, QtyMod > 2
  PROVE  Control /\ Served /\ [RtccNext]_rtccVars => Served'
<1> SUFFICES ASSUME Control, Served, [RtccNext]_rtccVars PROVE Served'
  OBVIOUS
<1>1. CASE UNCHANGED rtccVars
  <2>1. UNCHANGED <<mutexVars, k, pc, task, qty, running, _go>>
    BY <1>1 DEF rtccVars, programVars, driverVars, mutexVars, shared
  <2>2. Linked'
    BY <2>1, LinkedStep DEF Served
  <2> QED
    BY <2>1, <2>2 DEF Served, TimerCounted, Need, Awaits, Resting, Told, User
<1>2. CASE RtccNext
  BY <1>2, SystemServed, RtccServed, PromptServed DEF RtccNext
<1> QED
  BY <1>1, <1>2

LEMMA ServedInit == RtccInit => Served
<1> SUFFICES ASSUME RtccInit PROVE Served
  OBVIOUS
<1>1. /\ MutexInit /\ _go = FALSE
      /\ qty = [tm \in TickLists |-> 0] /\ running = [tm \in TickLists |-> FALSE]
      /\ task = [t \in Threads |-> At0(IF t \in {Rtcc, Prompt} THEN "enter" ELSE "none")]
  BY DEF RtccInit, DriverInit
<1>2. task[Rtcc].at = "enter" /\ task[Prompt].at = "enter"
  BY <1>1, Actors DEF At0
<1>3. TimerCounted
  BY <1>1, <1>2, Actors, RtccAssumption DEF TimerCounted, Need, Needs
<1>4. Awaits
  <2>1. \A t \in Threads : In(pc[t]) = {}
    BY <1>1, NotIn DEF MutexInit, TimerInit, KernelInit
  <2> QED
    BY <2>1, Actors DEF Awaits
<1> QED
  BY <1>1, <1>2, <1>3, <1>4, InitLinked DEF Served, Resting, Told

LEMMA RtccServes ==
  ASSUME MutexesApart, QtyMod > 2
  PROVE  RtccSpec => []Served
<1>1. RtccInit => Control /\ Served
  BY ControlInit, ServedInit
<1>2. Control /\ Served /\ [RtccNext]_rtccVars => (Control /\ Served)'
  BY ControlNext, ServedNext
<1> QED
  BY <1>1, <1>2, PTL DEF RtccSpec

\* No start is lost (rtcc.c:107-109 against 253 and 258-262): the thread of the clock
\* decides to wait and waits in one critical section, and who starts the clock
\* wakes the only thread that waits for that.
THEOREM StartsNotLost ==
  ASSUME MutexesApart, QtyMod > 2
  PROVE  RtccSpec => []NoLostStart
<1>1. Served => NoLostStart
  <2>1. Linked => Waiters(_event) = {u \in Threads : u \notin Active(k) /\ _event \in In(pc[u])}
    BY LinkedWaiters, RtccAssumption, EventAssumption
  <2> QED
    BY <2>1 DEF Served, Told, NoLostStart
<1> QED
  BY <1>1, RtccServes, PTL

\* The timer does not run for nothing (rtcc.c:259, prompt.c:78-80): the driver counts
\* the two threads at the statements where they need it, and no others.
THEOREM TimerGivenBack ==
  ASSUME MutexesApart, QtyMod > 2
  PROVE  RtccSpec => []NoTimerLeft
<1>1. Served => NoTimerLeft
  <2> SUFFICES ASSUME Served, Rtcc \in Waiters(_event), Prompt \in Waiters(Line)
               PROVE  ~ running[timer0]
    BY DEF NoTimerLeft
  <2>1. /\ Rtcc \in Threads /\ Prompt \in Threads /\ Rtcc # Prompt
        /\ _event \in Events /\ Line \in Events /\ Events \subseteq PriorLists
    BY Actors, RtccAssumption, EventAssumption
  <2>2. _event \in In(pc[Rtcc]) /\ Line \in In(pc[Prompt])
    BY <2>1, LinkedWaiters DEF Served
  <2>3. task[Rtcc].at \in {"stopped", "on"} /\ task[Prompt].at \notin Needs(Prompt)
    BY <2>1, <2>2 DEF Served, Awaits
  <2>4. Need(Rtcc) = 0 /\ Need(Prompt) = 0
    BY <2>3 DEF Need, Needs
  <2> QED
    BY <2>4 DEF Served, TimerCounted
<1> QED
  BY <1>1, RtccServes, PTL

=============================================================================
