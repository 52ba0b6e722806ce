------------------------------ MODULE Calendar ------------------------------
(***************************************************************************)
(* cnet/base/Date and TimeZone: days, dates and clock times as numbers,    *)
(* and local time with daylight saving.                                    *)
(*                                                                         *)
(* A behaviour walks either through the days of some years, beside a       *)
(* calendar kept by the rules of leap years, or through the hours around   *)
(* the transitions of a time zone.  A struct tm is a record of its fields. *)
(***************************************************************************)
EXTENDS Integers, Sequences, FiniteSets

CONSTANTS
    Years,           \* the walks start on the first of January of these
    MaxDays,         \* bound: days of a walk
    Zones,           \* time zones as their files have them: [localtimes, trans, idx]
    Hours            \* the times to convert, in half hours

\* A zone as fromLocalTime takes it, with an hour of daylight saving: its local times have one
\* standard offset, less than a day from UTC, and its transitions are more than an hour apart.
StandardOffset(local) == local.gmtOffset - (IF local.isDst THEN 3600 ELSE 0)
OneHour(zone) ==
    /\ zone.localtimes \in Seq([gmtOffset : Int, isDst : BOOLEAN]) /\ zone.localtimes # <<>>
    /\ zone.trans \in Seq(Int) /\ zone.idx \in Seq(DOMAIN zone.localtimes)
    /\ Len(zone.idx) = Len(zone.trans)
    /\ \A i, j \in DOMAIN zone.localtimes :
         StandardOffset(zone.localtimes[i]) = StandardOffset(zone.localtimes[j])
    /\ \A i \in DOMAIN zone.localtimes : zone.localtimes[i].gmtOffset > -86400
    /\ \A i, j \in DOMAIN zone.trans : i < j => zone.trans[j] - zone.trans[i] > 3600

ASSUME CalendarYears == Years \subseteq Nat
ASSUME ZonesShiftOneHour == \A zone \in Zones : OneHour(zone)

VARIABLE calendar

\* Division and remainder of C++, which truncate.
Quot(a, b) == IF a >= 0 THEN a \div b ELSE -((-a) \div b)
Rem(a, b) == a - b * Quot(a, b)

-----------------------------------------------------------------------------
(***************************************************************************)
(* Date.                                                                   *)
(***************************************************************************)
getJulianDayNumber(year, month, day) ==
    LET a == (14 - month) \div 12
        y == year + 4800 - a
        m == month + 12 * a - 3
    IN  day + (153 * m + 2) \div 5 + y * 365 + y \div 4 - y \div 100 + y \div 400 - 32045

getYearMonthDay(julianDayNumber) ==
    LET a == julianDayNumber + 32044
        b == (4 * a + 3) \div 146097
        c == a - (b * 146097) \div 4
        d == (4 * c + 3) \div 1461
        e == c - (1461 * d) \div 4
        m == (5 * e + 2) \div 153
    IN  [year |-> b * 100 + d - 4800 + m \div 10,
         month |-> m + 3 - 12 * (m \div 10),
         day |-> e - (153 * m + 2) \div 5 + 1]

kJulianDayOf1970 == getJulianDayNumber(1970, 1, 1)
weekDay(julianDayNumber) == (julianDayNumber + 1) % 7

-----------------------------------------------------------------------------
(***************************************************************************)
(* TimeZone, without a zone: UTC.                                          *)
(***************************************************************************)
kSecondsPerDay == 24 * 60 * 60

fillHMS(seconds) ==
    [hour |-> seconds \div 3600, min |-> (seconds \div 60) % 60, sec |-> seconds % 60]

toUtcTime(t) ==
    LET seconds == Rem(t, kSecondsPerDay)
        before == IF seconds < 0 THEN 1 ELSE 0
        julianDay == Quot(t, kSecondsPerDay) - before + kJulianDayOf1970
        ymd == getYearMonthDay(julianDay)
    IN  [ymd |-> ymd, clock |-> fillHMS(seconds + before * kSecondsPerDay), wday |-> weekDay(julianDay),
         yday |-> julianDay - getJulianDayNumber(ymd.year, 1, 1), isdst |-> FALSE]

fromUtcTime(tm) ==
    LET days == getJulianDayNumber(tm.ymd.year, tm.ymd.month, tm.ymd.day) - kJulianDayOf1970
    IN  days * kSecondsPerDay + tm.clock.hour * 3600 + tm.clock.min * 60 + tm.clock.sec

\* The C library's conversions, which TimeZone uses for local time.
gmtime_r(t) == toUtcTime(t)
timegm(tm) == fromUtcTime(tm)

-----------------------------------------------------------------------------
(***************************************************************************)
(* TimeZone: the transitions of a zone, and local time.                    *)
(***************************************************************************)
readTimeZoneFile(zone) ==
    [localtimes |-> zone.localtimes,
     transitions |-> [i \in DOMAIN zone.trans |->
        [gmttime |-> zone.trans[i], localtimeIdx |-> zone.idx[i],
         localtime |-> zone.trans[i] + zone.localtimes[zone.idx[i]].gmtOffset]]]

\* What lower_bound finds in the sorted transitions, by one of their times: the first that is at
\* the time, or else the last before it.
findLocaltime(data, time, by) ==
    LET At(i) == data.localtimes[data.transitions[i].localtimeIdx]
        equal == {i \in DOMAIN data.transitions : data.transitions[i][by] = time}
        passed == {i \in DOMAIN data.transitions : data.transitions[i][by] < time}
    IN  IF equal # {} THEN At(CHOOSE i \in equal : \A j \in equal : i <= j)
        ELSE IF passed # {} THEN At(CHOOSE i \in passed : \A j \in passed : j <= i)
        ELSE data.localtimes[1]

toLocalTime(data, t) ==
    LET local == findLocaltime(data, t, "gmttime")
    IN  [gmtime_r(t + local.gmtOffset) EXCEPT !.isdst = local.isDst]

fromLocalTime_OneHour(data, tm) ==
    LET seconds == timegm(tm)
    IN  seconds - findLocaltime(data, seconds, "localtime").gmtOffset

fromLocalTime(data, tm) ==
    LET seconds == timegm(tm)
        local == findLocaltime(data, seconds, "localtime")
        try == toLocalTime(data, seconds - local.gmtOffset)
        again == /\ tm.isdst /\ ~try.isdst
                 /\ try.clock.hour = tm.clock.hour /\ try.clock.min = tm.clock.min
    IN  seconds - local.gmtOffset - (IF again THEN 3600 ELSE 0)

-----------------------------------------------------------------------------
(***************************************************************************)
(* The reference: leap years, the days of the months, and midnight.        *)
(***************************************************************************)
IsLeap(y) == y % 4 = 0 /\ (y % 100 # 0 \/ y % 400 = 0)
DaysOf(y, m) == IF m = 2 THEN (IF IsLeap(y) THEN 29 ELSE 28) ELSE IF m \in {4, 6, 9, 11} THEN 30 ELSE 31

\* Days from 1970-01-01, a Thursday, to the first of January of a year.
DaysTo(year) ==
    IF year >= 1970 THEN 365 * (year - 1970) + Cardinality({y \in 1970 .. year - 1 : IsLeap(y)})
    ELSE -(365 * (1970 - year) + Cardinality({y \in year .. 1969 : IsLeap(y)}))

Tomorrow(date) ==
    IF date.day < DaysOf(date.year, date.month) THEN [date EXCEPT !.day = @ + 1]
    ELSE IF date.month < 12 THEN [date EXCEPT !.month = @ + 1, !.day = 1]
    ELSE [year |-> date.year + 1, month |-> 1, day |-> 1]

NewYear(year) == [year |-> year, month |-> 1, day |-> 1]

CalendarStart ==
    \/ \E year \in Years :
         calendar = [walk |-> "days", date |-> NewYear(year), days |-> DaysTo(year), yday |-> 0,
                     left |-> MaxDays]
    \/ \E zone \in Zones : calendar = [walk |-> "hours", zone |-> zone, at |-> 0]

NextDay ==
    /\ calendar.walk = "days" /\ calendar.left > 0
    /\ LET next == Tomorrow(calendar.date)
       IN  calendar' = [calendar EXCEPT !.date = next, !.days = @ + 1, !.left = @ - 1,
                                        !.yday = IF next.month = 1 /\ next.day = 1 THEN 0 ELSE @ + 1]

NextHour ==
    /\ calendar.walk = "hours" /\ calendar.at < Hours
    /\ calendar' = [calendar EXCEPT !.at = @ + 1]

CalendarNext == NextDay \/ NextHour

-----------------------------------------------------------------------------
\* Seconds of a day to convert, and the days whose seconds fit into 31 bits.
Seconds == {0, 1, 59, 3600, 43261, 86399}
InRange(days) == days \in -24800 .. 24800

\* Date.cc 11-33 and TimeZone.cc 305-345: day numbers, dates, days of the week and of the year
\* agree with the calendar on every day, across leap years, centuries and 1970, and times
\* before 1970 come back from their fields as they were.
DatesAgree ==
    calendar.walk = "days" =>
      LET date == calendar.date
          julianDay == calendar.days + 2440588
      IN  /\ getJulianDayNumber(date.year, date.month, date.day) = julianDay
          /\ getYearMonthDay(julianDay) = date
          /\ InRange(calendar.days) =>
               \A s \in Seconds :
                 LET t == calendar.days * kSecondsPerDay + s
                     tm == toUtcTime(t)
                 IN  /\ tm.ymd = date /\ tm.yday = calendar.yday
                     /\ tm.wday = (calendar.days + 4) % 7
                     /\ tm.clock.hour * 3600 + tm.clock.min * 60 + tm.clock.sec = s
                     /\ fromUtcTime(tm) = t

\* TimeZone.cc 263-303: a time shown as local time and read back is the same time, in the hour
\* that daylight saving repeats too, in a zone that shifts by one hour.
LocalTimeReturns ==
    calendar.walk = "hours" =>
      LET data == readTimeZoneFile(calendar.zone)
          t == calendar.at * 1800
      IN  fromLocalTime(data, toLocalTime(data, t)) = t

\* Date.cc and TimeZone.cc: dates and local times come back as they went.
CalendarRoundTrip == DatesAgree /\ LocalTimeReturns
=============================================================================
